-------------------------- MODULE LockedHashProofs --------------------------
(***************************************************************************)
(* Proofs about LockedHash, for every number of threads, keys, values and  *)
(* addresses.                                                              *)
(*                                                                         *)
(* First the structure of the table: who has its lock, who has taken the   *)
(* inhibit count, which vectors are live, where a rehash or a growth is,   *)
(* and that the inhibit count is the number of operations that have taken  *)
(* it.  Structure is inductive; there is a lemma for each action.          *)
(*                                                                         *)
(* Then the order of its slots: between the operations a walk from a key's *)
(* address finds its entry, and the counts are right.  While the table is  *)
(* rehashed in place this is no invariant.  What the rehash keeps is that  *)
(* each rehashed entry, and the one in hand, is reached over slots that    *)
(* are rehashed already; %rehash takes nothing out of those.  While the    *)
(* table grows, the vector to be is in order and has the entries that were *)
(* copied.  Order says so, and is inductive on top of Structure as long as *)
(* the collector stays out of the window between the hashing of a key and  *)
(* its store by the growth (CollectInWindow).                              *)
(*                                                                         *)
(* From both follows that the table is the map of SharedMap.  What it      *)
(* holds is a map at every step of a rehash or a growth, because an entry  *)
(* is in a slot or in the hand; Answers, the invariant on top of Order, is *)
(* about the operations: who has changed the table, what their answers     *)
(* were seen to be, and that nobody waits for a promotion while a putter   *)
(* may grow the table, so that no reader goes on with the vector that was  *)
(* replaced (PromotedFirst).                                               *)
(***************************************************************************)
EXTENDS LockedHash, FiniteSetTheorems, SequenceTheorems, WellFoundedInduction, TLAPS

-----------------------------------------------------------------------------
(* The types of the vectors, of the locals of the rehash and the growth,   *)
(* of the lock and of the threads.                                         *)
Words == Values \cup {None, Free, Zero}
Cells == [key : Keys \cup {Free, Deleted, Zero}, value : Words]
Tables == [slots : Seq(Cells), moved : BOOLEAN, count : Int, deleted : Int,
           cached : [key : Keys \cup {Free}, value : Words, slot : Nat]]
Hands == [key : Keys \cup {None}, value : Words, from : Nat, to : Nat]
Works == [to : {0} \cup Vectors, index : Nat, done : SUBSET Nat, hand : Hands,
          back : {"none", "find", "put", "rem", "inhibit"}]
Locks == [readers : SUBSET Threads, writer : Threads \cup {None}]
Locals == [vector : {0} \cup Vectors, inhibits : 0..1, result : Words]
Points == {"idle", "read", "write", "inhibit", "promote", "wait", "test", "find", "rehash",
           "displace", "put", "rem", "clear", "grow", "copy", "place", "enable", "unlock"}

Shape ==
    /\ vector \in Vectors /\ vectors \in [Vectors -> Tables] /\ threshold \in Int
    /\ lock \in Locks
    /\ work \in Works
    /\ address \in [Keys -> Int] /\ pc \in [Threads -> Points]
    /\ my \in [Threads -> Locals]
    /\ request \in [Threads -> {Idle} \cup UNION {Calls(t) : t \in Threads}]
    /\ \A t \in Threads : request[t] \in {Idle} \cup Calls(t)

(* What each thread is called for where it is.                             *)
OpAt(t) ==
    LET op == request[t].op IN
    /\ pc[t] = "idle" <=> request[t] = Idle
    /\ pc[t] \in {"read", "find", "promote", "wait"} => op = "get"
    /\ pc[t] = "write" => op \in {"put", "rem", "clr"}
    /\ pc[t] \in {"inhibit", "test"} => op \in {"get", "put", "rem"}
    /\ pc[t] \in {"put", "rem"} => op = pc[t]
    /\ pc[t] = "clear" => op = "clr"
    /\ pc[t] \in {"grow", "copy", "place"} => op = "put"
    /\ pc[t] \in {"rehash", "displace"} =>
           \/ work.back = AfterTest(t)
           \/ work.back = "inhibit" /\ op = "put"
    /\ my[t].vector # 0 <=> op = "get" /\ pc[t] # "read"

(* Where only the one who has the lock for writing is.                     *)
AtWork == {"test", "rehash", "displace", "put", "rem", "clear", "grow", "copy", "place"}

(* Who has the lock, and for what.                                         *)
LockAt(t) ==
    /\ t \in lock.readers =>
           request[t].op = "get" /\ pc[t] \in {"find", "inhibit", "promote", "enable", "unlock"}
    /\ lock.writer = t => pc[t] \in AtWork \cup {"inhibit", "find", "enable", "unlock"}
    /\ pc[t] \in AtWork => lock.writer = t
    /\ pc[t] = "promote" => t \in lock.readers
    /\ pc[t] \in {"find", "enable", "unlock"} => t \in lock.readers \/ lock.writer = t
    /\ pc[t] = "inhibit" => IF request[t].op = "get" THEN t \in lock.readers ELSE lock.writer = t

LockInv == (lock.writer # None => lock.readers = {}) /\ \A t \in Threads : LockAt(t)

(* How often each has inhibited the collector.                             *)
InhibitsAt(t) ==
    LET n == my[t].inhibits IN
    /\ pc[t] \in {"idle", "read", "write", "inhibit", "clear", "grow", "copy", "place", "unlock"} => n = 0
    /\ pc[t] \in {"promote", "wait", "test", "put", "rem"} => n = 1
    /\ pc[t] \in {"rehash", "displace"} => (n = 0 <=> work.back = "inhibit")
    /\ pc[t] = "find" => (n = 1 <=> lock.writer = t)

Balanced == inhibited = Cardinality({t \in Threads : my[t].inhibits = 1})

(* What is read of a vector under the inhibit count is not flagged.        *)
UnmovedAt(t) ==
    /\ pc[t] = "find" /\ lock.writer = t => ~vectors[my[t].vector].moved
    /\ pc[t] \in {"rehash", "displace"} /\ work.back # "inhibit" => ~Vector.moved
    /\ pc[t] \in {"put", "rem"} => ~Vector.moved

(* The one at work.                                                        *)
RehashAt(t) ==
    /\ pc[t] \in {"rehash", "displace"} =>
           /\ work.to = 0 /\ work.index \in 1..Len(Slots) + 1
    /\ pc[t] = "rehash" => work.hand = Empty /\ work.done \subseteq Entries(Slots)
    /\ pc[t] = "displace" =>
           /\ work.index \in 1..Len(Slots)
           /\ work.hand.key \in Keys /\ work.hand.from \in Entries(Slots)
           /\ work.hand.to \in 1..Len(Slots) \cap work.done
           /\ work.done \ {work.hand.to} \subseteq Entries(Slots)
           /\ IF work.hand.from = work.index THEN work.index \notin work.done \ {work.hand.to}
              ELSE Slots[work.index].key = Free

CopyAt(t) ==
    /\ pc[t] \in {"copy", "place"} =>
           /\ work.to \in Vectors \ {vector} /\ ~HeldBy(work.to, Threads)
           /\ work.index \in 1..Len(Slots) + 1 /\ Len(vectors[work.to].slots) > 0
    /\ pc[t] = "copy" => work.hand = Empty
    /\ pc[t] = "place" => work.hand.key \in Keys /\ work.index <= Len(Slots)

WorkInv ==
    /\ (\A t \in Threads : pc[t] \notin {"rehash", "displace", "copy", "place"}) => work = NoWork
    /\ \A t \in Threads : RehashAt(t) /\ CopyAt(t)

(* A vector that was replaced is zeroed as long as a reader has it.        *)
HeldInv ==
    /\ Len(Slots) > 0
    /\ \A v \in Vectors \ {vector, work.to} :
           IF HeldBy(v, Threads)
             THEN /\ Len(vectors[v].slots) > 0 /\ ~vectors[v].moved
                  /\ \A i \in DOMAIN vectors[v].slots : vectors[v].slots[i].key = Zero
             ELSE vectors[v] = Unused

ThreadInv == \A t \in Threads : OpAt(t) /\ InhibitsAt(t) /\ UnmovedAt(t)

(* Where %rehash or %grow-hash-table is under way.                         *)
AtTable == {"rehash", "displace", "copy", "place"}

(* The inductive invariant.                                                *)
Structure == Shape /\ ThreadInv /\ LockInv /\ WorkInv /\ HeldInv /\ Balanced

-----------------------------------------------------------------------------
Less == OpToRel(<, Nat)

(* A nonempty set of numbers has a least one.                              *)
LEMMA LeastIs ==
  ASSUME NEW S, S \subseteq Nat, S # {}
  PROVE  Min(S) \in S /\ \A x \in S : Min(S) <= x
<1>1. IsWellFoundedOn(Less, Nat)
  BY NatLessThanWellFounded DEF Less
<1>2. \A x, y \in Nat : <<y, x>> \in Less <=> y < x
  BY DEF Less, OpToRel
<1>3. PICK m \in S : \A y \in S : ~(<<y, m>> \in Less)
  BY <1>1, WFMin, Zenon
<1>4. \A y \in S : m <= y
  <2> SUFFICES ASSUME NEW y \in S PROVE m <= y
    OBVIOUS
  <2>1. m \in Nat /\ y \in Nat
    OBVIOUS
  <2>2. ~(y < m)
    BY <1>2, <1>3, <2>1, Zenon
  <2> QED
    BY <2>1, <2>2
<1> QED
  BY <1>4 DEF Min

(* The remainder of a sum with a multiple of the modulus.                  *)
LEMMA Remainder ==
  ASSUME NEW n \in Nat, n > 0, NEW q \in Int, NEW r \in 0..n-1
  PROVE  (n * q + r) % n = r
  BY SMT

(* An integer is a multiple of the modulus and a remainder.                *)
LEMMA Quotient ==
  ASSUME NEW a \in Int, NEW n \in Nat, n > 0
  PROVE  \E q \in Int, r \in 0..n-1 : a = n * q + r
<1>1. a \div n \in Int /\ a % n \in 0..n-1
  BY SMT
<1>2. a = n * (a \div n) + (a % n)
  BY SMT
<1> QED
  BY <1>1, <1>2, Zenon

(* The walk from any address visits every slot.                            *)
LEMMA WalkVisitsAll ==
  ASSUME NEW slots, Len(slots) \in Nat, Len(slots) > 0, NEW a \in Int, NEW s \in 1..Len(slots)
  PROVE  \E i \in 0..Len(slots)-1 : At(slots, a, i) = s
<1> DEFINE n == Len(slots)
<1> HIDE DEF n
<1>1. n \in Nat /\ n > 0 /\ s \in 1..n /\ a + 1 \in Int
  BY DEF n
<1>2. PICK q \in Int, r \in 0..n-1 : a + 1 = n * q + r
  BY <1>1, Quotient, Zenon
<1>3. \E i \in 0..n-1 : 1 + ((a + 1 + i) % n) = s
  <2>1. s - 1 \in 0..n-1
    BY <1>1
  <2>2. CASE s - 1 >= r
    <3> DEFINE i == s - 1 - r
    <3>1. i \in 0..n-1
      BY <1>1, <2>2
    <3>2. a + 1 + i = n * q + (s-1)
      BY <1>1, <1>2
    <3>3. (n * q + (s-1)) % n = s-1
      BY <1>1, <2>1, Remainder
    <3>4. 1 + ((a + 1 + i) % n) = s
      BY <1>1, <3>2, <3>3
    <3> HIDE DEF i
    <3> QED
      BY <3>1, <3>4, Zenon
  <2>3. CASE s - 1 < r
    <3> DEFINE i == s - 1 - r + n
    <3>1. i \in 0..n-1
      BY <1>1, <2>3
    <3>2. a + 1 + i = n * (q+1) + (s-1)
      BY <1>1, <1>2
    <3>3. (n * (q+1) + (s-1)) % n = s-1
      BY <1>1, <2>1, Remainder
    <3>4. 1 + ((a + 1 + i) % n) = s
      BY <1>1, <3>2, <3>3
    <3> HIDE DEF i
    <3> QED
      BY <3>1, <3>4, Zenon
  <2> QED
    BY <1>1, <2>2, <2>3
<1> QED
  BY <1>3 DEF At, n

(* Every place on a walk is a slot of the vector.                          *)
LEMMA AtIsSlot ==
  ASSUME NEW slots, Len(slots) \in Nat, Len(slots) > 0, NEW a \in Int, NEW i \in Int
  PROVE  At(slots, a, i) \in 1..Len(slots)
<1>1. (a + 1 + i) % Len(slots) \in 0..Len(slots)-1
  BY SMT
<1> QED
  BY <1>1 DEF At

(* A store into a slot.                                                    *)
LEMMA CellStored ==
  ASSUME NEW slots \in Seq(Cells), NEW c \in Cells, NEW i
  PROVE  LET s == [slots EXCEPT ![i] = c] IN
         /\ s \in Seq(Cells) /\ Len(s) = Len(slots) /\ DOMAIN s = 1..Len(slots)
         /\ \A j \in 1..Len(slots) : s[j] = IF j = i THEN c ELSE slots[j]
<1> DEFINE s == [slots EXCEPT ![i] = c]
<1>1. DOMAIN s = 1..Len(slots)
  OBVIOUS
<1>2. s \in Seq(Cells) /\ Len(s) = Len(slots)
  <2>1. CASE i \in 1..Len(slots)
    BY <2>1, ExceptSeq
  <2>2. CASE i \notin 1..Len(slots)
    <3>1. s = slots
      BY <2>2
    <3> QED
      BY <3>1, Zenon
  <2> QED
    BY <2>1, <2>2
<1>3. \A j \in 1..Len(slots) : s[j] = IF j = i THEN c ELSE slots[j]
  OBVIOUS
<1> QED
  BY <1>1, <1>2, <1>3, Zenon

-----------------------------------------------------------------------------
(* What the assumptions say of vectors, readers and threads.               *)
LEMMA ConstantTypes ==
  /\ Vectors \subseteq Nat \ {0} /\ 1 \in Vectors
  /\ IsFiniteSet(Readers) /\ Cardinality(Readers) \in Nat
  /\ Readers \subseteq Threads /\ None \notin Threads
<1>1. Readers \subseteq Threads
  BY DEF Threads
<1>2. IsFiniteSet(Readers) /\ Cardinality(Readers) \in Nat
  BY <1>1, KeysAssumption, FS_Subset, FS_CardinalityType
<1> QED
  BY <1>1, <1>2, KeysAssumption DEF Vectors

(* What a thread may call.                                                 *)
LEMMA CallParts ==
  ASSUME NEW t \in Threads, NEW call \in Calls(t)
  PROVE  /\ call.op \in {"get", "rem", "put", "clr"} /\ call # Idle
         /\ call.op # "clr" => call.key \in Keys
         /\ call.op = "clr" => call.key = None
         /\ call.op = "get" => t \in Readers
         /\ call.op = "put" => call.value \in Values
         /\ call.op # "put" => call.value = None
<1>1. call.op \in {"get", "rem", "put", "clr"} /\ call # Idle
  BY DEF Calls, Idle
<1> QED
  BY <1>1 DEF Calls

(* The inhibit count when nobody, or only one, has taken or given it.      *)
LEMMA SameBalance ==
  ASSUME Balanced, inhibited' = inhibited,
         \A u \in Threads : my'[u].inhibits = my[u].inhibits
  PROVE  Balanced'
<1>1. {u \in Threads : my'[u].inhibits = 1} = {u \in Threads : my[u].inhibits = 1}
  OBVIOUS
<1> QED
  BY <1>1 DEF Balanced

(* A thread that had not inhibited the collector takes the count.          *)
LEMMA OneTakes ==
  ASSUME Balanced, NEW t \in Threads, my[t].inhibits = 0, my'[t].inhibits = 1,
         inhibited' = inhibited + 1,
         \A u \in Threads \ {t} : my'[u].inhibits = my[u].inhibits
  PROVE  Balanced'
<1> DEFINE S == {u \in Threads : my[u].inhibits = 1}
<1>1. {u \in Threads : my'[u].inhibits = 1} = S \cup {t} /\ t \notin S
  OBVIOUS
<1>2. IsFiniteSet(S)
  BY KeysAssumption, FS_Subset
<1>3. Cardinality(S \cup {t}) = Cardinality(S) + 1
  BY <1>1, <1>2, FS_AddElement
<1> QED
  BY <1>1, <1>3 DEF Balanced

(* A thread that had inhibited the collector gives the count back.         *)
LEMMA OneGives ==
  ASSUME Balanced, NEW t \in Threads, my[t].inhibits = 1, my'[t].inhibits = 0,
         inhibited' = inhibited - 1,
         \A u \in Threads \ {t} : my'[u].inhibits = my[u].inhibits
  PROVE  Balanced'
<1> DEFINE S == {u \in Threads : my[u].inhibits = 1}
<1>1. {u \in Threads : my'[u].inhibits = 1} = S \ {t} /\ t \in S
  OBVIOUS
<1>2. IsFiniteSet(S)
  BY KeysAssumption, FS_Subset
<1>3. Cardinality(S \ {t}) = Cardinality(S) - 1
  BY <1>1, <1>2, FS_RemoveElement
<1> QED
  BY <1>1, <1>3 DEF Balanced

(* While somebody has taken the count, the collector does not run.         *)
LEMMA CountTaken ==
  ASSUME Balanced, NEW t \in Threads, my[t].inhibits = 1
  PROVE  inhibited # 0
<1> DEFINE S == {u \in Threads : my[u].inhibits = 1}
<1>1. IsFiniteSet(S) /\ t \in S
  BY KeysAssumption, FS_Subset
<1>2. Cardinality(S) # 0
  BY <1>1, FS_EmptySet
<1> QED
  BY <1>2 DEF Balanced

-----------------------------------------------------------------------------
(* A step of a thread that leaves the table alone.                         *)
LEMMA ThreadStep ==
  ASSUME Structure, NEW t \in Threads, Shape', Balanced',
         UNCHANGED <<vector, vectors, work>>,
         \A u \in Threads \ {t} :
             /\ pc'[u] = pc[u] /\ my'[u] = my[u] /\ request'[u] = request[u]
             /\ u \in lock'.readers <=> u \in lock.readers
             /\ lock'.writer = u <=> lock.writer = u,
         lock'.writer # None => lock'.readers = {},
         pc[t] \notin AtTable, pc'[t] \notin AtTable,
         my'[t].vector = my[t].vector \/ (my[t].vector = 0 /\ my'[t].vector = vector),
         OpAt(t)', InhibitsAt(t)', UnmovedAt(t)', LockAt(t)'
  PROVE  Structure'
<1> USE DEF Structure
<1>1. ThreadInv'
  <2> SUFFICES ASSUME NEW u \in Threads \ {t} PROVE (OpAt(u) /\ InhibitsAt(u) /\ UnmovedAt(u))'
    BY DEF ThreadInv
  <2>1. OpAt(u) /\ InhibitsAt(u) /\ UnmovedAt(u)
    BY DEF ThreadInv
  <2>2. OpAt(u)'
    BY <2>1 DEF OpAt, AfterTest
  <2>3. InhibitsAt(u)'
    BY <2>1 DEF InhibitsAt
  <2>4. UnmovedAt(u)'
    BY <2>1 DEF UnmovedAt, Vector
  <2> QED
    BY <2>2, <2>3, <2>4
<1>2. LockInv'
  <2> SUFFICES ASSUME NEW u \in Threads \ {t} PROVE LockAt(u)'
    BY DEF LockInv
  <2> QED
    BY DEF LockInv, LockAt
<1>3. \A v \in Vectors : v # vector => (HeldBy(v, Threads)' <=> HeldBy(v, Threads))
  BY ConstantTypes DEF HeldBy
<1>4. WorkInv'
  <2>1. (\A u \in Threads : pc'[u] \notin AtTable) => work' = NoWork
    BY DEF WorkInv, AtTable
  <2>2. ASSUME NEW u \in Threads PROVE RehashAt(u)' /\ CopyAt(u)'
    <3>1. CASE u = t
      BY <3>1 DEF RehashAt, CopyAt, AtTable
    <3>2. CASE u # t
      <4>1. RehashAt(u) /\ CopyAt(u) /\ pc'[u] = pc[u]
        BY <3>2 DEF WorkInv
      <4>2. RehashAt(u)'
        BY <4>1 DEF RehashAt, Slots, Vector, Entries
      <4>3. CopyAt(u)'
        BY <1>3, <4>1 DEF CopyAt, Slots, Vector
      <4> QED
        BY <4>2, <4>3
    <3> QED
      BY <3>1, <3>2
  <2> QED
    BY <2>1, <2>2 DEF WorkInv, AtTable
<1>5. HeldInv'
  BY <1>3 DEF HeldInv, Slots, Vector
<1> QED
  BY <1>1, <1>2, <1>4, <1>5

(* A thread calls an operation; it has nothing yet.                        *)
LEMMA StepCall == ASSUME Structure, NEW t \in Threads, Call(t) PROVE Structure'
<1> USE DEF Structure
<1>1. PICK call \in Calls(t) : /\ request' = [request EXCEPT ![t] = call]
                              /\ Goto(t, IF call.op = "get" THEN "read" ELSE "write")
  BY DEF Call
<1>2. call.op \in {"get", "rem", "put", "clr"} /\ call # Idle
  BY CallParts
<1>3. pc[t] = "idle" /\ UNCHANGED <<tableVars, lock, inhibited, work, address, my>>
  BY DEF Call, Keep
<1>4. /\ pc'[t] = (IF call.op = "get" THEN "read" ELSE "write") /\ request'[t] = call
      /\ \A u \in Threads \ {t} : pc'[u] = pc[u] /\ request'[u] = request[u]
  BY <1>1 DEF Goto, Shape
<1>5. Shape'
  <2>1. pc' \in [Threads -> Points]
    BY <1>1 DEF Goto, Shape, Points
  <2>2. /\ request' \in [Threads -> {Idle} \cup UNION {Calls(u) : u \in Threads}]
        /\ \A u \in Threads : request'[u] \in {Idle} \cup Calls(u)
    BY <1>1, <1>4 DEF Shape
  <2> QED
    BY <1>3, <2>1, <2>2 DEF Shape, tableVars, Calls
<1>6. Balanced'
  BY <1>3, SameBalance
<1>7. OpAt(t) /\ InhibitsAt(t) /\ LockAt(t)
  BY DEF ThreadInv, LockInv
<1>8. OpAt(t)'
  BY <1>2, <1>3, <1>4, <1>7 DEF OpAt, Idle
<1>9. InhibitsAt(t)' /\ UnmovedAt(t)' /\ LockAt(t)'
  BY <1>3, <1>4, <1>7 DEF InhibitsAt, UnmovedAt, LockAt, AtWork
<1> QED
  BY <1>3, <1>4, <1>5, <1>6, <1>8, <1>9, ThreadStep DEF tableVars, AtTable, LockInv

(* What is known of one thread.                                            *)
LEMMA OfThread ==
  ASSUME Structure, NEW t \in Threads
  PROVE  /\ OpAt(t) /\ InhibitsAt(t) /\ UnmovedAt(t) /\ LockAt(t) /\ RehashAt(t) /\ CopyAt(t)
         /\ my[t] \in Locals /\ lock \in Locks /\ t # None /\ pc[t] \in Points
         /\ inhibited \in Nat
<1>1. IsFiniteSet({u \in Threads : my[u].inhibits = 1})
  BY KeysAssumption, FS_Subset
<1>2. inhibited \in Nat
  BY <1>1, FS_CardinalityType DEF Structure, Balanced
<1> QED
  BY <1>2, ConstantTypes DEF Structure, ThreadInv, LockInv, WorkInv, Shape

(* A step that only moves the thread, its locals, the lock and the count.  *)
LEMMA OwnStep ==
  ASSUME Structure, NEW t \in Threads,
         NEW p \in Points \ AtTable, NEW m \in Locals, NEW l \in Locks,
         pc[t] \notin AtTable, Goto(t, p), my' = [my EXCEPT ![t] = m], lock' = l,
         inhibited' = inhibited + m.inhibits - my[t].inhibits,
         UNCHANGED <<tableVars, work, address, request>>,
         \A u \in Threads \ {t} :
             (u \in l.readers <=> u \in lock.readers) /\ (l.writer = u <=> lock.writer = u),
         l.writer # None => l.readers = {},
         m.vector = my[t].vector \/ (my[t].vector = 0 /\ m.vector = vector),
         OpAt(t)', InhibitsAt(t)', UnmovedAt(t)', LockAt(t)'
  PROVE  Structure'
<1> USE DEF Structure
<1>1. /\ pc'[t] = p /\ my'[t] = m /\ pc' \in [Threads -> Points] /\ my' \in [Threads -> Locals]
      /\ \A u \in Threads \ {t} : pc'[u] = pc[u] /\ my'[u] = my[u]
  BY DEF Goto, Shape
<1>2. Shape'
  BY <1>1 DEF Shape, tableVars, Calls
<1>3. Balanced'
  <2>1. m.inhibits \in 0..1 /\ my[t].inhibits \in 0..1 /\ inhibited \in Nat
    BY OfThread DEF Locals
  <2>2. CASE m.inhibits = my[t].inhibits
    BY <1>1, <2>1, <2>2, SameBalance
  <2>3. CASE m.inhibits = 1 /\ my[t].inhibits = 0
    BY <1>1, <2>1, <2>3, OneTakes
  <2>4. CASE m.inhibits = 0 /\ my[t].inhibits = 1
    BY <1>1, <2>1, <2>4, OneGives
  <2> QED
    BY <2>1, <2>2, <2>3, <2>4
<1> QED
  BY <1>1, <1>2, <1>3, ThreadStep DEF tableVars

(* A reader gets the lock, reads nhash.vector and tries its cache.         *)
LEMMA StepReadLock == ASSUME Structure, NEW t \in Threads, ReadLock(t) PROVE Structure'
<1> DEFINE hit == Vector.cached.key = request[t].key
<1> DEFINE m == [my[t] EXCEPT !.vector = vector,
                              !.result = IF hit THEN Vector.cached.value ELSE None]
<1> DEFINE l == [lock EXCEPT !.readers = @ \cup {t}]
<1> DEFINE p == IF hit THEN "enable" ELSE "find"
<1>1. OpAt(t) /\ InhibitsAt(t) /\ LockAt(t) /\ my[t] \in Locals /\ lock \in Locks /\ t # None
  BY OfThread
<1>2. /\ pc[t] = "read" /\ lock.writer = None /\ lock' = l /\ my' = [my EXCEPT ![t] = m] /\ Goto(t, p)
      /\ UNCHANGED <<tableVars, inhibited, work, address, request>>
  BY <1>1 DEF ReadLock, Keep, threadVars, Locals
<1>3. Vector \in Tables /\ vector \in Vectors /\ vector # 0
  BY ConstantTypes DEF Structure, Shape, Vector
<1>4. m \in Locals /\ m.vector = vector /\ m.inhibits = my[t].inhibits
  <2>1. (IF hit THEN Vector.cached.value ELSE None) \in Words
    BY <1>3 DEF Tables, Words
  <2> HIDE DEF hit
  <2> QED
    BY <1>1, <1>3, <2>1 DEF Locals
<1>5. /\ l \in Locks /\ l.writer = None /\ t \in l.readers
      /\ \A u \in Threads \ {t} : u \in l.readers <=> u \in lock.readers
  BY <1>1, <1>2 DEF Locks
<1>6. p \in {"enable", "find"}
  OBVIOUS
<1> HIDE DEF l, m, p
<1>7. pc'[t] = p /\ my'[t] = m /\ my[t].inhibits = 0 /\ my[t].vector = 0 /\ request[t].op = "get"
  BY <1>1, <1>2 DEF Goto, OpAt, InhibitsAt, Structure, Shape
<1>8. OpAt(t)' /\ LockAt(t)'
  BY <1>1, <1>2, <1>3, <1>4, <1>5, <1>6, <1>7 DEF OpAt, LockAt, AtWork
<1>9. InhibitsAt(t)' /\ UnmovedAt(t)'
  BY <1>1, <1>2, <1>3, <1>4, <1>5, <1>6, <1>7 DEF InhibitsAt, UnmovedAt
<1>10. p \in Points \ AtTable /\ pc[t] \notin AtTable
  BY <1>2, <1>6 DEF Points, AtTable
<1>11. inhibited' = inhibited + m.inhibits - my[t].inhibits
  BY <1>2, <1>4, <1>7, OfThread
<1>12. /\ l.writer # None => l.readers = {}
       /\ m.vector = my[t].vector \/ (my[t].vector = 0 /\ m.vector = vector)
       /\ \A u \in Threads \ {t} :
              (u \in l.readers <=> u \in lock.readers) /\ (l.writer = u <=> lock.writer = u)
  BY <1>2, <1>4, <1>5, <1>7
<1> QED
  BY <1>2, <1>4, <1>5, <1>8, <1>9, <1>10, <1>11, <1>12, OwnStep

(* A writer gets the lock, and nobody else has it.                         *)
LEMMA StepWriteLock == ASSUME Structure, NEW t \in Threads, WriteLock(t) PROVE Structure'
<1> DEFINE m == my[t]
<1> DEFINE l == [lock EXCEPT !.writer = t]
<1> DEFINE p == IF request[t].op = "clr" THEN "clear" ELSE "inhibit"
<1>1. /\ OpAt(t) /\ InhibitsAt(t) /\ UnmovedAt(t) /\ LockAt(t) /\ my[t] \in Locals /\ lock \in Locks
      /\ t # None /\ inhibited \in Nat /\ (lock.writer # None => lock.readers = {})
  BY OfThread DEF Structure, LockInv
<1>2. /\ pc[t] = "write" /\ LockIsFree
      /\ lock' = l /\ my' = [my EXCEPT ![t] = m] /\ Goto(t, p)
      /\ inhibited' = inhibited + m.inhibits - my[t].inhibits
      /\ UNCHANGED <<tableVars, work, address, request>>
  BY <1>1 DEF WriteLock, Keep, threadVars, Locals, Structure, Shape
<1>3. m \in Locals /\ m.vector = my[t].vector /\ m.inhibits = my[t].inhibits
  BY <1>1, <1>2 DEF Locals, Words, InhibitsAt
<1>4. /\ l \in Locks /\ (l.writer # None => l.readers = {}) /\ l.writer = t
      /\ \A u \in Threads \ {t} :
             (u \in l.readers <=> u \in lock.readers) /\ (l.writer = u <=> lock.writer = u)
  BY <1>1, <1>2, ConstantTypes DEF Locks, LockAt, LockIsFree
<1>5. p \in {"clear", "inhibit"} /\ (p = "clear" <=> request[t].op = "clr")
  BY <1>1, <1>2 DEF OpAt
<1> HIDE DEF l, m, p
<1>6. pc'[t] = p /\ my'[t] = m
  BY <1>2 DEF Goto, Structure, Shape
<1>7. OpAt(t)'
  BY <1>1, <1>2, <1>3, <1>5, <1>6 DEF OpAt
<1>8. InhibitsAt(t)'
  BY <1>1, <1>2, <1>3, <1>4, <1>5, <1>6 DEF InhibitsAt, OpAt
<1>9. UnmovedAt(t)'
  BY <1>1, <1>2, <1>3, <1>4, <1>5, <1>6 DEF UnmovedAt, OpAt
<1>10. LockAt(t)'
  BY <1>1, <1>2, <1>4, <1>5, <1>6 DEF LockAt, AtWork, OpAt
<1>11. p \in Points \ AtTable /\ pc[t] \notin AtTable
  BY <1>2, <1>5 DEF Points, AtTable
<1>12. m.vector = my[t].vector \/ (my[t].vector = 0 /\ m.vector = vector)
  BY <1>3
<1> QED
  BY <1>2, <1>3, <1>4, <1>7, <1>8, <1>9, <1>10, <1>11, <1>12, OwnStep

(* The count is taken; who reads a flag from here on can rely on it.       *)
LEMMA StepInhibitGC == ASSUME Structure, NEW t \in Threads, InhibitGC(t) PROVE Structure'
<1> DEFINE m == [my[t] EXCEPT !.inhibits = @ + 1]
<1> DEFINE l == lock
<1> DEFINE p == IF request[t].op = "get" THEN "promote" ELSE "test"
<1>1. /\ OpAt(t) /\ InhibitsAt(t) /\ UnmovedAt(t) /\ LockAt(t) /\ my[t] \in Locals /\ lock \in Locks
      /\ t # None /\ inhibited \in Nat /\ (lock.writer # None => lock.readers = {})
  BY OfThread DEF Structure, LockInv
<1>2. /\ pc[t] = "inhibit"
      /\ lock' = l /\ my' = [my EXCEPT ![t] = m] /\ Goto(t, p)
      /\ inhibited' = inhibited + m.inhibits - my[t].inhibits
      /\ UNCHANGED <<tableVars, work, address, request>>
  BY <1>1 DEF InhibitGC, Keep, threadVars, Locals, Structure, Shape, Inhibit, InhibitsAt
<1>3. m \in Locals /\ m.vector = my[t].vector /\ m.inhibits = 1
  BY <1>1, <1>2 DEF Locals, Words, InhibitsAt
<1>4. /\ l \in Locks /\ (l.writer # None => l.readers = {}) /\ l = lock
      /\ \A u \in Threads \ {t} :
             (u \in l.readers <=> u \in lock.readers) /\ (l.writer = u <=> lock.writer = u)
  BY <1>1, <1>2, ConstantTypes DEF Locks, LockAt
<1>5. p \in {"promote", "test"} /\ (p = "promote" <=> request[t].op = "get")
  BY <1>1, <1>2 DEF OpAt
<1> HIDE DEF l, m, p
<1>6. pc'[t] = p /\ my'[t] = m
  BY <1>2 DEF Goto, Structure, Shape
<1>7. OpAt(t)'
  BY <1>1, <1>2, <1>3, <1>5, <1>6 DEF OpAt
<1>8. InhibitsAt(t)'
  BY <1>1, <1>2, <1>3, <1>4, <1>5, <1>6 DEF InhibitsAt, OpAt
<1>9. UnmovedAt(t)'
  BY <1>1, <1>2, <1>3, <1>4, <1>5, <1>6 DEF UnmovedAt, OpAt
<1>10. LockAt(t)'
  BY <1>1, <1>2, <1>4, <1>5, <1>6 DEF LockAt, AtWork, OpAt
<1>11. p \in Points \ AtTable /\ pc[t] \notin AtTable
  BY <1>2, <1>5 DEF Points, AtTable
<1>12. m.vector = my[t].vector \/ (my[t].vector = 0 /\ m.vector = vector)
  BY <1>3
<1> QED
  BY <1>2, <1>3, <1>4, <1>7, <1>8, <1>9, <1>10, <1>11, <1>12, OwnStep

(* The only reader becomes the writer.                                     *)
LEMMA StepPromoteAlone == ASSUME Structure, NEW t \in Threads, PromoteAlone(t) PROVE Structure'
<1> DEFINE m == my[t]
<1> DEFINE l == Writing(t)
<1> DEFINE p == "test"
<1>1. /\ OpAt(t) /\ InhibitsAt(t) /\ UnmovedAt(t) /\ LockAt(t) /\ my[t] \in Locals /\ lock \in Locks
      /\ t # None /\ inhibited \in Nat /\ (lock.writer # None => lock.readers = {})
  BY OfThread DEF Structure, LockInv
<1>2. /\ pc[t] = "promote" /\ lock \in {Reading(t), Writing(t)}
      /\ lock' = l /\ my' = [my EXCEPT ![t] = m] /\ Goto(t, p)
      /\ inhibited' = inhibited + m.inhibits - my[t].inhibits
      /\ UNCHANGED <<tableVars, work, address, request>>
  BY <1>1 DEF PromoteAlone, Keep, threadVars, Locals, Structure, Shape
<1>3. m \in Locals /\ m.vector = my[t].vector /\ m.inhibits = my[t].inhibits
  BY <1>1, <1>2 DEF Locals, Words, InhibitsAt
<1>4. /\ l \in Locks /\ (l.writer # None => l.readers = {}) /\ l.writer = t
      /\ \A u \in Threads \ {t} :
             (u \in l.readers <=> u \in lock.readers) /\ (l.writer = u <=> lock.writer = u)
  BY <1>1, <1>2, ConstantTypes DEF Locks, LockAt, Reading, Writing
<1>5. p \in {"test"}
  BY <1>1, <1>2 DEF OpAt
<1> HIDE DEF l, m, p
<1>6. pc'[t] = p /\ my'[t] = m
  BY <1>2 DEF Goto, Structure, Shape
<1>7. OpAt(t)'
  BY <1>1, <1>2, <1>3, <1>5, <1>6 DEF OpAt
<1>8. InhibitsAt(t)'
  BY <1>1, <1>2, <1>3, <1>4, <1>5, <1>6 DEF InhibitsAt, OpAt
<1>9. UnmovedAt(t)'
  BY <1>1, <1>2, <1>3, <1>4, <1>5, <1>6 DEF UnmovedAt, OpAt
<1>10. LockAt(t)'
  BY <1>1, <1>2, <1>4, <1>5, <1>6 DEF LockAt, AtWork, OpAt
<1>11. p \in Points \ AtTable /\ pc[t] \notin AtTable
  BY <1>2, <1>5 DEF Points, AtTable
<1>12. m.vector = my[t].vector \/ (my[t].vector = 0 /\ m.vector = vector)
  BY <1>3
<1> QED
  BY <1>2, <1>3, <1>4, <1>7, <1>8, <1>9, <1>10, <1>11, <1>12, OwnStep

(* A reader among others lets go and waits, with its old vector.           *)
LEMMA StepReleaseToPromote == ASSUME Structure, NEW t \in Threads, ReleaseToPromote(t) PROVE Structure'
<1> DEFINE m == my[t]
<1> DEFINE l == [lock EXCEPT !.readers = @ \ {t}]
<1> DEFINE p == "wait"
<1>1. /\ OpAt(t) /\ InhibitsAt(t) /\ UnmovedAt(t) /\ LockAt(t) /\ my[t] \in Locals /\ lock \in Locks
      /\ t # None /\ inhibited \in Nat /\ (lock.writer # None => lock.readers = {})
  BY OfThread DEF Structure, LockInv
<1>2. /\ pc[t] = "promote"
      /\ lock' = l /\ my' = [my EXCEPT ![t] = m] /\ Goto(t, p)
      /\ inhibited' = inhibited + m.inhibits - my[t].inhibits
      /\ UNCHANGED <<tableVars, work, address, request>>
  BY <1>1 DEF ReleaseToPromote, Keep, threadVars, Locals, Structure, Shape
<1>3. m \in Locals /\ m.vector = my[t].vector /\ m.inhibits = my[t].inhibits
  BY <1>1, <1>2 DEF Locals, Words, InhibitsAt
<1>4. /\ l \in Locks /\ (l.writer # None => l.readers = {}) /\ l.writer = None /\ t \notin l.readers
      /\ \A u \in Threads \ {t} :
             (u \in l.readers <=> u \in lock.readers) /\ (l.writer = u <=> lock.writer = u)
  BY <1>1, <1>2, ConstantTypes DEF Locks, LockAt
<1>5. p \in {"wait"}
  BY <1>1, <1>2 DEF OpAt
<1> HIDE DEF l, m, p
<1>6. pc'[t] = p /\ my'[t] = m
  BY <1>2 DEF Goto, Structure, Shape
<1>7. OpAt(t)'
  BY <1>1, <1>2, <1>3, <1>5, <1>6 DEF OpAt
<1>8. InhibitsAt(t)'
  BY <1>1, <1>2, <1>3, <1>4, <1>5, <1>6 DEF InhibitsAt, OpAt
<1>9. UnmovedAt(t)'
  BY <1>1, <1>2, <1>3, <1>4, <1>5, <1>6 DEF UnmovedAt, OpAt
<1>10. LockAt(t)'
  BY <1>1, <1>2, <1>4, <1>5, <1>6 DEF LockAt, AtWork, OpAt
<1>11. p \in Points \ AtTable /\ pc[t] \notin AtTable
  BY <1>2, <1>5 DEF Points, AtTable
<1>12. m.vector = my[t].vector \/ (my[t].vector = 0 /\ m.vector = vector)
  BY <1>3
<1> QED
  BY <1>2, <1>3, <1>4, <1>7, <1>8, <1>9, <1>10, <1>11, <1>12, OwnStep

(* The lock is free, and who waited for its promotion gets it.             *)
LEMMA StepPromoted == ASSUME Structure, NEW t \in Threads, Promoted(t) PROVE Structure'
<1> DEFINE m == my[t]
<1> DEFINE l == [lock EXCEPT !.writer = t]
<1> DEFINE p == "test"
<1>1. /\ OpAt(t) /\ InhibitsAt(t) /\ UnmovedAt(t) /\ LockAt(t) /\ my[t] \in Locals /\ lock \in Locks
      /\ t # None /\ inhibited \in Nat /\ (lock.writer # None => lock.readers = {})
  BY OfThread DEF Structure, LockInv
<1>2. /\ pc[t] = "wait" /\ LockIsFree
      /\ lock' = l /\ my' = [my EXCEPT ![t] = m] /\ Goto(t, p)
      /\ inhibited' = inhibited + m.inhibits - my[t].inhibits
      /\ UNCHANGED <<tableVars, work, address, request>>
  BY <1>1 DEF Promoted, Keep, threadVars, Locals, Structure, Shape
<1>3. m \in Locals /\ m.vector = my[t].vector /\ m.inhibits = my[t].inhibits
  BY <1>1, <1>2 DEF Locals, Words, InhibitsAt
<1>4. /\ l \in Locks /\ (l.writer # None => l.readers = {}) /\ l.writer = t
      /\ \A u \in Threads \ {t} :
             (u \in l.readers <=> u \in lock.readers) /\ (l.writer = u <=> lock.writer = u)
  BY <1>1, <1>2, ConstantTypes DEF Locks, LockAt, LockIsFree
<1>5. p \in {"test"}
  BY <1>1, <1>2 DEF OpAt
<1> HIDE DEF l, m, p
<1>6. pc'[t] = p /\ my'[t] = m
  BY <1>2 DEF Goto, Structure, Shape
<1>7. OpAt(t)'
  BY <1>1, <1>2, <1>3, <1>5, <1>6 DEF OpAt
<1>8. InhibitsAt(t)'
  BY <1>1, <1>2, <1>3, <1>4, <1>5, <1>6 DEF InhibitsAt, OpAt
<1>9. UnmovedAt(t)'
  BY <1>1, <1>2, <1>3, <1>4, <1>5, <1>6 DEF UnmovedAt, OpAt
<1>10. LockAt(t)'
  BY <1>1, <1>2, <1>4, <1>5, <1>6 DEF LockAt, AtWork, OpAt
<1>11. p \in Points \ AtTable /\ pc[t] \notin AtTable
  BY <1>2, <1>5 DEF Points, AtTable
<1>12. m.vector = my[t].vector \/ (my[t].vector = 0 /\ m.vector = vector)
  BY <1>3
<1> QED
  BY <1>2, <1>3, <1>4, <1>7, <1>8, <1>9, <1>10, <1>11, <1>12, OwnStep

(* A putter gives the count back before it grows the table.                *)
LEMMA StepPutNeedsRoom == ASSUME Structure, NEW t \in Threads, PutNeedsRoom(t) PROVE Structure'
<1> DEFINE m == [my[t] EXCEPT !.inhibits = @ - 1]
<1> DEFINE l == lock
<1> DEFINE p == "grow"
<1>1. /\ OpAt(t) /\ InhibitsAt(t) /\ UnmovedAt(t) /\ LockAt(t) /\ my[t] \in Locals /\ lock \in Locks
      /\ t # None /\ inhibited \in Nat /\ (lock.writer # None => lock.readers = {})
  BY OfThread DEF Structure, LockInv
<1>2. /\ pc[t] = "put"
      /\ lock' = l /\ my' = [my EXCEPT ![t] = m] /\ Goto(t, p)
      /\ inhibited' = inhibited + m.inhibits - my[t].inhibits
      /\ UNCHANGED <<tableVars, work, address, request>>
  BY <1>1 DEF PutNeedsRoom, Keep, threadVars, Locals, Structure, Shape, LetIn, InhibitsAt
<1>3. m \in Locals /\ m.vector = my[t].vector /\ m.inhibits = 0
  BY <1>1, <1>2 DEF Locals, Words, InhibitsAt
<1>4. /\ l \in Locks /\ (l.writer # None => l.readers = {}) /\ l = lock
      /\ \A u \in Threads \ {t} :
             (u \in l.readers <=> u \in lock.readers) /\ (l.writer = u <=> lock.writer = u)
  BY <1>1, <1>2, ConstantTypes DEF Locks, LockAt
<1>5. p \in {"grow"}
  BY <1>1, <1>2 DEF OpAt
<1> HIDE DEF l, m, p
<1>6. pc'[t] = p /\ my'[t] = m
  BY <1>2 DEF Goto, Structure, Shape
<1>7. OpAt(t)'
  BY <1>1, <1>2, <1>3, <1>5, <1>6 DEF OpAt
<1>8. InhibitsAt(t)'
  BY <1>1, <1>2, <1>3, <1>4, <1>5, <1>6 DEF InhibitsAt, OpAt
<1>9. UnmovedAt(t)'
  BY <1>1, <1>2, <1>3, <1>4, <1>5, <1>6 DEF UnmovedAt, OpAt
<1>10. LockAt(t)'
  BY <1>1, <1>2, <1>4, <1>5, <1>6 DEF LockAt, AtWork, OpAt
<1>11. p \in Points \ AtTable /\ pc[t] \notin AtTable
  BY <1>2, <1>5 DEF Points, AtTable
<1>12. m.vector = my[t].vector \/ (my[t].vector = 0 /\ m.vector = vector)
  BY <1>3
<1> QED
  BY <1>2, <1>3, <1>4, <1>7, <1>8, <1>9, <1>10, <1>11, <1>12, OwnStep

(* The count is given back at the end of an operation.                     *)
LEMMA StepEnableGC == ASSUME Structure, NEW t \in Threads, EnableGC(t) PROVE Structure'
<1> DEFINE m == IF my[t].inhibits > 0 THEN [my[t] EXCEPT !.inhibits = @ - 1] ELSE my[t]
<1> DEFINE l == lock
<1> DEFINE p == "unlock"
<1>1. /\ OpAt(t) /\ InhibitsAt(t) /\ UnmovedAt(t) /\ LockAt(t) /\ my[t] \in Locals /\ lock \in Locks
      /\ t # None /\ inhibited \in Nat /\ (lock.writer # None => lock.readers = {})
  BY OfThread DEF Structure, LockInv
<1>2. /\ pc[t] = "enable"
      /\ lock' = l /\ my' = [my EXCEPT ![t] = m] /\ Goto(t, p)
      /\ inhibited' = inhibited + m.inhibits - my[t].inhibits
      /\ UNCHANGED <<tableVars, work, address, request>>
  BY <1>1 DEF EnableGC, Keep, threadVars, Locals, Structure, Shape, LetIn, InhibitsAt
<1>3. m \in Locals /\ m.vector = my[t].vector /\ m.inhibits = 0
  BY <1>1, <1>2 DEF Locals, Words, InhibitsAt
<1>4. /\ l \in Locks /\ (l.writer # None => l.readers = {}) /\ l = lock
      /\ \A u \in Threads \ {t} :
             (u \in l.readers <=> u \in lock.readers) /\ (l.writer = u <=> lock.writer = u)
  BY <1>1, <1>2, ConstantTypes DEF Locks, LockAt
<1>5. p \in {"unlock"}
  BY <1>1, <1>2 DEF OpAt
<1> HIDE DEF l, m, p
<1>6. pc'[t] = p /\ my'[t] = m
  BY <1>2 DEF Goto, Structure, Shape
<1>7. OpAt(t)'
  BY <1>1, <1>2, <1>3, <1>5, <1>6 DEF OpAt
<1>8. InhibitsAt(t)'
  BY <1>1, <1>2, <1>3, <1>4, <1>5, <1>6 DEF InhibitsAt, OpAt
<1>9. UnmovedAt(t)'
  BY <1>1, <1>2, <1>3, <1>4, <1>5, <1>6 DEF UnmovedAt, OpAt
<1>10. LockAt(t)'
  BY <1>1, <1>2, <1>4, <1>5, <1>6 DEF LockAt, AtWork, OpAt
<1>11. p \in Points \ AtTable /\ pc[t] \notin AtTable
  BY <1>2, <1>5 DEF Points, AtTable
<1>12. m.vector = my[t].vector \/ (my[t].vector = 0 /\ m.vector = vector)
  BY <1>3
<1> QED
  BY <1>2, <1>3, <1>4, <1>7, <1>8, <1>9, <1>10, <1>11, <1>12, OwnStep

(* A reader looks its key up in the vector it read.                        *)
LEMMA StepFind == ASSUME Structure, NEW t \in Threads, Find(t) PROVE Structure'
<1> DEFINE slot == Probe(Slots, address[request[t].key], {Free, request[t].key})
<1> DEFINE found == slot # 0 /\ Slots[slot].key = request[t].key
<1> DEFINE v == my[t].vector
<1>1. /\ OpAt(t) /\ InhibitsAt(t) /\ UnmovedAt(t) /\ LockAt(t) /\ my[t] \in Locals /\ lock \in Locks
      /\ t # None /\ inhibited \in Nat /\ (lock.writer # None => lock.readers = {})
  BY OfThread DEF Structure, LockInv
<1>2. pc[t] = "find" /\ UNCHANGED <<tableVars, lock, inhibited, work, address, request>>
  BY DEF Find, Keep, threadVars
<1>3. v \in Vectors /\ vectors[v] \in Tables
  BY <1>1, <1>2 DEF OpAt, Locals, Structure, Shape
<1>4. \E m \in Locals, p \in {"enable", "inhibit"} :
          /\ m.vector = v /\ m.inhibits = my[t].inhibits
          /\ my' = [my EXCEPT ![t] = m] /\ Goto(t, p) /\ (p = "inhibit" => vectors[v].moved)
  <2>1. CASE found
    <3>1. PICK value \in ValuesAt(v, slot) : my' = [my EXCEPT ![t].result = value]
      BY <2>1 DEF Find
    <3>2. value \in Words
      <4> HIDE DEF slot, found, v
      <4> DEFINE slots == vectors[v].slots
      <4>1. slots \in Seq(Cells)
        BY <1>3 DEF Tables
      <4>2. slot \in DOMAIN slots => slots[slot] \in Cells
        BY <4>1
      <4>3. value \in (IF slot \in DOMAIN slots THEN {slots[slot].value} ELSE Values \cup {Zero})
        BY <3>1 DEF ValuesAt
      <4> QED
        BY <4>2, <4>3 DEF Cells, Words
    <3> DEFINE m == [my[t] EXCEPT !.result = value]
    <3>3. m \in Locals /\ m.vector = v /\ m.inhibits = my[t].inhibits
      BY <1>1, <3>2 DEF Locals
    <3>4. my' = [my EXCEPT ![t] = m] /\ Goto(t, "enable")
      BY <2>1, <3>1 DEF Find
    <3> HIDE DEF m
    <3> QED
      BY <3>3, <3>4
  <2>2. CASE ~found
    <3>1. my' = [my EXCEPT ![t] = my[t]]
      BY <2>2 DEF Find, Structure, Shape
    <3>2. Goto(t, IF vectors[v].moved THEN "inhibit" ELSE "enable")
      BY <2>2 DEF Find, NeedsRehashing
    <3> QED
      BY <1>1, <3>1, <3>2
  <2> HIDE DEF found
  <2> QED
    BY <2>1, <2>2
<1>5. PICK m \in Locals, p \in {"enable", "inhibit"} :
          /\ m.vector = v /\ m.inhibits = my[t].inhibits
          /\ my' = [my EXCEPT ![t] = m] /\ Goto(t, p) /\ (p = "inhibit" => vectors[v].moved)
  BY <1>4
<1>6. pc'[t] = p /\ my'[t] = m
  BY <1>5 DEF Goto, Structure, Shape
<1>7. p = "inhibit" => t \in lock.readers /\ my[t].inhibits = 0
  BY <1>1, <1>2, <1>5 DEF UnmovedAt, LockAt, InhibitsAt, Locals
<1>8. OpAt(t)'
  BY <1>1, <1>2, <1>5, <1>6 DEF OpAt
<1>9. InhibitsAt(t)' /\ UnmovedAt(t)'
  BY <1>1, <1>2, <1>5, <1>6, <1>7 DEF InhibitsAt, UnmovedAt
<1>10. LockAt(t)'
  BY <1>1, <1>2, <1>5, <1>6, <1>7 DEF LockAt, AtWork, OpAt
<1>11. p \in Points \ AtTable /\ pc[t] \notin AtTable /\ inhibited' = inhibited + m.inhibits - my[t].inhibits
  BY <1>1, <1>2, <1>5 DEF Points, AtTable, Locals
<1> QED
  BY <1>1, <1>2, <1>5, <1>8, <1>9, <1>10, <1>11, OwnStep

(* A test that finds no reason to rehash.                                  *)
LEMMA StepTested ==
  ASSUME Structure, NEW t \in Threads, Test(t),
         ~NeedsRehashing(IF request[t].op = "get" THEN my[t].vector ELSE vector)
  PROVE  Structure'
<1> DEFINE p == AfterTest(t)
<1>1. /\ OpAt(t) /\ InhibitsAt(t) /\ UnmovedAt(t) /\ LockAt(t) /\ my[t] \in Locals /\ lock \in Locks
      /\ t # None /\ inhibited \in Nat /\ (lock.writer # None => lock.readers = {})
  BY OfThread DEF Structure, LockInv
<1>2. /\ pc[t] = "test" /\ Goto(t, p) /\ UNCHANGED <<tableVars, lock, inhibited, work, address, my, request>>
  BY DEF Test, Keep, threadVars
<1>3. p \in {"find", "put", "rem"} /\ (p = "find" <=> request[t].op = "get") /\ (p # "find" => p = request[t].op)
  BY <1>1, <1>2 DEF OpAt, AfterTest
<1> HIDE DEF p
<1>4. pc'[t] = p /\ my' = [my EXCEPT ![t] = my[t]]
  BY <1>2 DEF Goto, Structure, Shape
<1>5. OpAt(t)' /\ InhibitsAt(t)'
  BY <1>1, <1>2, <1>3, <1>4 DEF OpAt, InhibitsAt, LockAt, AtWork
<1>6. UnmovedAt(t)'
  BY <1>2, <1>3, <1>4 DEF UnmovedAt, NeedsRehashing, Vector, tableVars
<1>7. LockAt(t)'
  BY <1>1, <1>2, <1>3, <1>4 DEF LockAt, AtWork, OpAt
<1>8. p \in Points \ AtTable /\ pc[t] \notin AtTable /\ inhibited' = inhibited + my[t].inhibits - my[t].inhibits
  BY <1>1, <1>2, <1>3 DEF Points, AtTable, Locals
<1> QED
  BY <1>1, <1>2, <1>4, <1>5, <1>6, <1>7, <1>8, OwnStep

-----------------------------------------------------------------------------
(* A step of the thread that has the table for itself, on its vector.      *)
LEMMA TableStep ==
  ASSUME Structure, NEW t \in Threads, lock.writer = t, work.to = 0,
         NEW tb \in Tables, NEW p \in Points, Len(tb.slots) = Len(Slots),
         vectors' = [vectors EXCEPT ![vector] = tb], Goto(t, p), threshold' \in Int,
         work' \in Works, work'.to = 0, p \notin {"copy", "place"}, p \notin AtTable => work' = NoWork,
         UNCHANGED <<vector, lock, inhibited, address, request, my>>,
         OpAt(t)', LockAt(t)', InhibitsAt(t)', UnmovedAt(t)', RehashAt(t)'
  PROVE  Structure'
<1> USE DEF Structure
<1>1. /\ pc' \in [Threads -> Points] /\ pc'[t] = p /\ \A u \in Threads \ {t} : pc'[u] = pc[u]
      /\ vectors' \in [Vectors -> Tables] /\ vectors'[vector] = tb /\ Vector' = tb /\ Slots' = tb.slots
      /\ \A v \in Vectors \ {vector} : vectors'[v] = vectors[v]
  BY DEF Goto, Shape, Vector, Slots
<1>2. Shape'
  BY <1>1 DEF Shape, Calls
<1>3. Balanced'
  BY SameBalance
<1>4. \A u \in Threads \ {t} : lock.writer # u /\ pc[u] \notin AtWork /\ pc[u] # "find"
  BY ConstantTypes DEF LockInv, LockAt
<1>5. ThreadInv'
  <2> SUFFICES ASSUME NEW u \in Threads \ {t} PROVE (OpAt(u) /\ InhibitsAt(u) /\ UnmovedAt(u))'
    BY DEF ThreadInv
  <2>1. OpAt(u) /\ InhibitsAt(u) /\ pc'[u] = pc[u] /\ pc[u] \notin AtWork /\ pc[u] # "find"
    BY <1>1, <1>4 DEF ThreadInv
  <2> QED
    BY <2>1 DEF OpAt, InhibitsAt, UnmovedAt, AtWork
<1>6. LockInv'
  <2> SUFFICES ASSUME NEW u \in Threads \ {t} PROVE LockAt(u)'
    BY DEF LockInv
  <2> QED
    BY <1>1 DEF LockInv, LockAt
<1>7. WorkInv'
  <2>1. (\A u \in Threads : pc'[u] \notin AtTable) => work' = NoWork
    BY <1>1
  <2>2. ASSUME NEW u \in Threads PROVE RehashAt(u)' /\ CopyAt(u)'
    BY <1>1, <1>4 DEF RehashAt, CopyAt, AtWork
  <2> QED
    BY <2>1, <2>2 DEF WorkInv, AtTable
<1>8. HeldInv'
  <2>1. Len(Slots') > 0
    BY <1>1 DEF HeldInv
  <2>2. \A v \in Vectors : HeldBy(v, Threads)' <=> HeldBy(v, Threads)
    BY DEF HeldBy
  <2>3. ASSUME NEW v \in Vectors \ {vector, work'.to}
        PROVE  IF HeldBy(v, Threads)
                 THEN /\ Len(vectors[v].slots) > 0 /\ ~vectors[v].moved
                      /\ \A i \in DOMAIN vectors[v].slots : vectors[v].slots[i].key = Zero
                 ELSE vectors[v] = Unused
    BY DEF HeldInv
  <2> QED
    BY <1>1, <2>1, <2>2, <2>3 DEF HeldInv
<1> QED
  BY <1>2, <1>3, <1>5, <1>6, <1>7, <1>8

(* The first slot on the way of a key that no rehashed entry has.          *)
LEMMA RehashProbeIs ==
  ASSUME NEW slots, Len(slots) \in Nat, NEW key, address[key] \in Int,
         NEW done, NEW free \in 1..Len(slots), free \notin done
  PROVE  \E i \in 0..Len(slots)-1 :
             LET s == RehashProbe(slots, key, done) IN
             /\ s = At(slots, address[key], i) /\ s \in 1..Len(slots)
             /\ s \notin done \/ slots[s].key = key
             /\ \A j \in 0..i-1 : LET r == At(slots, address[key], j) IN
                    r \in done /\ r \in 1..Len(slots) /\ slots[r].key # key
<1> DEFINE a == address[key]
<1> DEFINE open == {i \in 0..Len(slots) - 1 :
                     LET s == At(slots, a, i) IN s \notin done \/ slots[s].key = key}
<1>1. Len(slots) > 0
  OBVIOUS
<1>2. PICK i \in 0..Len(slots)-1 : At(slots, a, i) = free
  BY <1>1, WalkVisitsAll
<1>3. open \subseteq Nat /\ i \in open
  BY <1>2
<1>4. Min(open) \in open /\ \A j \in open : Min(open) <= j
  <2> HIDE DEF open
  <2> QED
    BY <1>3, LeastIs
<1>5. RehashProbe(slots, key, done) = At(slots, a, Min(open))
  BY DEF RehashProbe
<1> DEFINE m == Min(open)
<1>6. m \in 0..Len(slots)-1 /\ (At(slots, a, m) \notin done \/ slots[At(slots, a, m)].key = key)
  BY <1>4
<1>7. \A j \in 0..m-1 : At(slots, a, j) \in done /\ slots[At(slots, a, j)].key # key
  <2> SUFFICES ASSUME NEW j \in 0..m-1
               PROVE  At(slots, a, j) \in done /\ slots[At(slots, a, j)].key # key
    OBVIOUS
  <2>1. j \in 0..Len(slots)-1 /\ ~(m <= j)
    BY <1>6
  <2>2. j \notin open
    BY <1>4, <2>1
  <2> QED
    BY <2>1, <2>2
<1>8. \A j \in 0..m : At(slots, a, j) \in 1..Len(slots)
  BY <1>1, <1>6, AtIsSlot
<1>9. RehashProbe(slots, key, done) = At(slots, a, m)
  BY <1>5
<1> HIDE DEF m, open
<1>10. At(slots, a, m) \in 1..Len(slots) /\ \A j \in 0..m-1 : At(slots, a, j) \in 1..Len(slots)
  BY <1>6, <1>8
<1> QED
  BY SMTT(60), <1>6, <1>7, <1>9, <1>10

(* Nobody else is at work.                                                 *)
LEMMA NobodyElse ==
  ASSUME Structure, NEW t \in Threads, lock.writer = t
  PROVE  /\ \A u \in Threads \ {t} : pc[u] \notin AtWork /\ pc[u] \notin AtTable
         /\ pc[t] \notin AtTable => work = NoWork
<1>1. \A u \in Threads \ {t} : pc[u] \notin AtWork /\ pc[u] \notin AtTable
  BY DEF Structure, LockInv, LockAt, AtWork, AtTable
<1> QED
  BY <1>1 DEF Structure, WorkInv, AtTable

(* The table's vector as everybody finds it.                               *)
LEMMA TableParts ==
  ASSUME Structure
  PROVE  /\ Vector \in Tables /\ vector \in Vectors /\ vector # 0
         /\ Slots \in Seq(Cells) /\ Len(Slots) \in Nat /\ Len(Slots) > 0 /\ DOMAIN Slots = 1..Len(Slots)
         /\ \A i \in 1..Len(Slots) : Slots[i] \in Cells
         /\ vectors \in [Vectors -> Tables]
<1>1. Vector \in Tables /\ vector \in Vectors /\ vector # 0 /\ vectors \in [Vectors -> Tables]
  BY ConstantTypes DEF Structure, Shape, Vector
<1>2. Slots \in Seq(Cells)
  BY <1>1 DEF Tables, Slots
<1> QED
  BY <1>1, <1>2, LenProperties DEF Structure, HeldInv

(* The owner of the table begins a rehash; nothing is in hand.             *)
LEMMA StartsRehash ==
  ASSUME Structure, NEW t \in Threads, lock.writer = t, pc[t] \in {"test", "grow"},
         NEW back \in {"find", "put", "rem", "inhibit"}, StartRehash(t, back),
         back = "inhibit" <=> my[t].inhibits = 0,
         back = AfterTest(t) \/ (back = "inhibit" /\ request[t].op = "put")
  PROVE  Structure'
<1> DEFINE tb == [Vector EXCEPT !.moved = FALSE, !.cached = NoCache]
<1> DEFINE w == [NoWork EXCEPT !.index = 1, !.back = back]
<1>1. /\ OpAt(t) /\ InhibitsAt(t) /\ LockAt(t) /\ my[t] \in Locals /\ t # None
  BY OfThread
<1>2. work = NoWork
  BY NobodyElse DEF AtTable
<1>3. /\ vectors' = [vectors EXCEPT ![vector] = tb] /\ Goto(t, "rehash") /\ work' = w
      /\ UNCHANGED <<vector, threshold, lock, inhibited, address, request, my>>
  BY DEF StartRehash, Update, Keep
<1>4. tb \in Tables /\ tb.slots = Slots /\ tb.moved = FALSE
  BY TableParts DEF Tables, NoCache, Slots, Words
<1>5. w \in Works /\ w.to = 0 /\ w.index = 1 /\ w.back = back /\ w.hand = Empty /\ w.done = {}
  BY DEF Works, NoWork, Empty, Hands, Words
<1> HIDE DEF tb, w
<1>6. pc'[t] = "rehash" /\ Vector' = tb
  BY <1>3, TableParts DEF Goto, Vector, Structure, Shape
<1>7. OpAt(t)'
  BY <1>1, <1>3, <1>5, <1>6 DEF OpAt, AfterTest
<1>8. LockAt(t)' /\ InhibitsAt(t)' /\ UnmovedAt(t)'
  BY <1>1, <1>3, <1>4, <1>5, <1>6 DEF LockAt, InhibitsAt, UnmovedAt, AtWork
<1>9. RehashAt(t)'
  BY <1>3, <1>4, <1>5, <1>6, TableParts DEF RehashAt, Slots
<1>10. "rehash" \in Points /\ threshold' \in Int /\ work.to = 0
  BY <1>2, <1>3 DEF Points, NoWork, Structure, Shape
<1> QED
  BY <1>3, <1>4, <1>5, <1>7, <1>8, <1>9, <1>10, TableStep DEF AtTable

(* The owner tests the flag of its vector.                                 *)
LEMMA StepTest == ASSUME Structure, NEW t \in Threads, Test(t) PROVE Structure'
<1> DEFINE v == IF request[t].op = "get" THEN my[t].vector ELSE vector
<1>1. CASE ~NeedsRehashing(v)
  BY <1>1, StepTested
<1>2. CASE NeedsRehashing(v)
  <2>1. OpAt(t) /\ InhibitsAt(t) /\ LockAt(t) /\ pc[t] = "test" /\ StartRehash(t, AfterTest(t))
    BY <1>2, OfThread DEF Test
  <2>2. AfterTest(t) \in {"find", "put", "rem"} /\ lock.writer = t /\ my[t].inhibits = 1
    BY <2>1 DEF OpAt, LockAt, InhibitsAt, AfterTest, AtWork
  <2> QED
    BY <2>1, <2>2, StartsRehash
<1> QED
  BY <1>1, <1>2

(* A rehash whose thread goes on with it.                                  *)
LEMMA RehashStep ==
  ASSUME Structure, NEW t \in Threads, pc[t] \in {"rehash", "displace"},
         NEW tb \in Tables, NEW p \in {"rehash", "displace"}, Update(t, tb, p),
         Len(tb.slots) = Len(Slots), tb.moved = Vector.moved, threshold' \in Int,
         work' \in Works, work'.to = 0, work'.back = work.back, RehashAt(t)'
  PROVE  Structure'
<1>1. /\ OpAt(t) /\ InhibitsAt(t) /\ UnmovedAt(t) /\ LockAt(t) /\ RehashAt(t) /\ t # None
  BY OfThread
<1>2. /\ vectors' = [vectors EXCEPT ![vector] = tb] /\ Goto(t, p)
      /\ UNCHANGED <<vector, lock, inhibited, address, request, my>>
  BY DEF Update, Keep
<1>3. pc'[t] = p /\ Vector' = tb
  BY <1>2, TableParts DEF Goto, Vector, Structure, Shape
<1>4. lock.writer = t /\ work.to = 0
  BY <1>1 DEF LockAt, AtWork, RehashAt
<1>5. OpAt(t)'
  BY <1>1, <1>2, <1>3 DEF OpAt, AfterTest
<1>6. LockAt(t)' /\ InhibitsAt(t)' /\ UnmovedAt(t)'
  BY <1>1, <1>2, <1>3 DEF LockAt, InhibitsAt, UnmovedAt, AtWork
<1>7. p \in Points /\ p \in AtTable /\ p \notin {"copy", "place"}
  BY DEF Points, AtTable
<1> QED
  BY <1>2, <1>4, <1>5, <1>6, <1>7, TableStep

(* The types of what the rehash and the growth work with.                  *)
LEMMA WorkParts ==
  ASSUME Structure
  PROVE  /\ work \in Works /\ work.hand \in Hands /\ work.index \in Nat /\ work.done \subseteq Nat
         /\ work.to \in {0} \cup Vectors /\ threshold \in Int
         /\ address \in [Keys -> Int]
  BY DEF Structure, Shape, Works

(* The vector with another slot, its counts aside.                         *)
LEMMA TableStored ==
  ASSUME NEW tb \in Tables, NEW s \in Seq(Cells), NEW n, n = [tb EXCEPT !.slots = s]
  PROVE  /\ n \in Tables /\ n.slots = s /\ n.moved = tb.moved /\ n.deleted = tb.deleted
         /\ n.count = tb.count /\ n.cached = tb.cached
  BY DEF Tables

(* The rehash takes a slot up, or leaves it where it is.                   *)
LEMMA StepRehashSlot == ASSUME Structure, NEW t \in Threads, RehashSlot(t) PROVE Structure'
<1> DEFINE i == work.index
<1> DEFINE key == Slots[i].key
<1> DEFINE hand == InHand(Slots, i, work.done)
<1>1. /\ RehashAt(t) /\ pc[t] = "rehash" /\ i \in 1..Len(Slots) /\ work.to = 0
      /\ work.done \subseteq Entries(Slots) /\ work.hand = Empty
  BY OfThread, TableParts DEF RehashSlot, RehashAt
<1>2. Vector \in Tables /\ Slots \in Seq(Cells) /\ Slots[i] \in Cells /\ DOMAIN Slots = 1..Len(Slots)
  BY <1>1, TableParts
<1>3. CASE key \in Keys /\ i \notin work.done
  <2> DEFINE w == [work EXCEPT !.hand = hand, !.done = @ \cup {hand.to}]
  <2>1. work' = w /\ UNCHANGED threshold /\ Update(t, Vector, "displace")
    BY <1>3 DEF RehashSlot
  <2>2. hand.to \in 1..Len(Slots)
    <3>1. address[key] \in Int
      BY <1>3, WorkParts
    <3>2. RehashProbe(Slots, key, work.done) \in 1..Len(Slots)
      BY <1>1, <1>3, <3>1, TableParts, RehashProbeIs
    <3> QED
      BY <3>2 DEF InHand
  <2>3. hand \in Hands /\ hand.key = key /\ hand.from = i
    BY <1>1, <1>2, <1>3, <2>2, TableParts DEF InHand, Hands, Cells
  <2> HIDE DEF hand
  <2>4. /\ w \in Works /\ w.to = 0 /\ w.back = work.back /\ w.index = i /\ w.hand = hand
        /\ w.done = work.done \cup {hand.to}
    <3>1. hand.to \in Nat /\ work.done \cup {hand.to} \in SUBSET Nat
      BY <2>2, WorkParts, TableParts
    <3> QED
      BY <1>1, <2>3, <3>1, WorkParts DEF Works
  <2> HIDE DEF w
  <2>5. pc'[t] = "displace" /\ Slots' = Slots
    BY <2>1, TableParts DEF Update, Goto, Slots, Vector, Keep, Structure, Shape
  <2>6. RehashAt(t)'
    BY <1>1, <1>3, <2>1, <2>2, <2>3, <2>4, <2>5 DEF RehashAt, Entries
  <2> QED
    BY <1>1, <1>2, <2>1, <2>4, <2>6, RehashStep, WorkParts DEF Slots
<1>4. CASE ~(key \in Keys /\ i \notin work.done)
  <2> DEFINE deleted == key = Deleted /\ i \notin work.done
  <2> DEFINE s == IF deleted THEN [Slots EXCEPT ![i] = [Slots[i] EXCEPT !.key = Free]] ELSE Slots
  <2> DEFINE tb == IF ~deleted THEN Vector
                   ELSE [Vector EXCEPT !.deleted = @ - 1, !.slots[i].key = Free]
  <2> DEFINE w == [work EXCEPT !.index = @ + 1]
  <2>1. work' = w /\ threshold' \in Int /\ Update(t, tb, "rehash")
    BY <1>4, WorkParts DEF RehashSlot
  <2>2. s \in Seq(Cells) /\ Len(s) = Len(Slots) /\ DOMAIN s = 1..Len(Slots)
        /\ \A j \in 1..Len(Slots) : j # i => s[j] = Slots[j]
    <3>1. [Slots[i] EXCEPT !.key = Free] \in Cells
      BY <1>2 DEF Cells
    <3> QED
      BY <1>2, <3>1, CellStored
  <2>3. tb \in Tables /\ tb.slots = s /\ tb.moved = Vector.moved
    <3>1. CASE ~deleted
      BY <1>2, <3>1 DEF Slots
    <3>2. CASE deleted
      <4> DEFINE d == Vector.deleted - 1
      <4>1. tb = [Vector EXCEPT !.deleted = d, !.slots = s]
        BY <1>2, <3>2 DEF Tables, Slots
      <4>2. d \in Int
        BY <1>2 DEF Tables
      <4> HIDE DEF tb, s, deleted, d
      <4>3. Vector \in Tables /\ s \in Seq(Cells)
        BY <1>2, <2>2
      <4> QED
        BY <4>1, <4>2, <4>3 DEF Tables
    <3> QED
      BY <3>1, <3>2
  <2>4. /\ w \in Works /\ w.to = 0 /\ w.back = work.back /\ w.index = i + 1 /\ w.hand = Empty
        /\ w.done = work.done
    BY <1>1, WorkParts DEF Works
  <2>5. deleted => i \notin work.done
    OBVIOUS
  <2>6. work.done \subseteq {j \in 1..Len(Slots) : s[j].key \in Keys}
    BY <1>1, <1>2, <2>2, <2>5 DEF Entries
  <2> HIDE DEF w, tb, s, deleted
  <2>7. pc'[t] = "rehash" /\ Slots' = s
    BY <2>1, <2>3, TableParts DEF Update, Goto, Slots, Vector, Keep, Structure, Shape
  <2>8. RehashAt(t)'
    BY <1>1, <2>1, <2>2, <2>4, <2>6, <2>7 DEF RehashAt, Entries
  <2> QED
    BY <1>1, <2>1, <2>2, <2>3, <2>4, <2>8, RehashStep
<1> QED
  BY <1>3, <1>4

(* The slots after the entry in hand is stored, and the way of the entry   *)
(* that was there.                                                         *)
Left == IF work.hand.from = work.index THEN [Slots EXCEPT ![work.hand.from] = Slot(Free, Free)] ELSE Slots
Laid == [Left EXCEPT ![work.hand.to] = Slot(work.hand.key, work.hand.value)]

(* The slots after the entry in hand is laid down.                         *)
LEMMA SlotsLaid ==
  ASSUME Structure, NEW t \in Threads, pc[t] = "displace"
  PROVE  /\ Laid \in Seq(Cells) /\ Len(Laid) = Len(Slots) /\ DOMAIN Laid = 1..Len(Slots)
         /\ Laid[work.hand.to] = Slot(work.hand.key, work.hand.value)
         /\ \A j \in 1..Len(Slots) : j # work.hand.to =>
                Laid[j] = IF j = work.index /\ work.hand.from = work.index THEN Slot(Free, Free) ELSE Slots[j]
         /\ work.done \ {work.hand.to} \subseteq Entries(Laid) /\ work.hand.to \in Entries(Laid)
<1> DEFINE hand == work.hand
<1>1. /\ RehashAt(t) /\ Slots \in Seq(Cells) /\ DOMAIN Slots = 1..Len(Slots) /\ hand \in Hands
      /\ hand.to \in 1..Len(Slots) /\ hand.key \in Keys
  BY OfThread, TableParts, WorkParts DEF RehashAt
<1>2. Slot(Free, Free) \in Cells /\ Slot(hand.key, hand.value) \in Cells
  BY <1>1 DEF Slot, Cells, Hands, Words
<1>3. /\ Left \in Seq(Cells) /\ Len(Left) = Len(Slots) /\ DOMAIN Left = 1..Len(Slots)
      /\ \A j \in 1..Len(Slots) :
             Left[j] = IF j = work.index /\ hand.from = work.index THEN Slot(Free, Free) ELSE Slots[j]
  BY <1>1, <1>2, CellStored DEF Left
<1>4. /\ Laid \in Seq(Cells) /\ Len(Laid) = Len(Slots) /\ DOMAIN Laid = 1..Len(Slots)
      /\ \A j \in 1..Len(Slots) :
             Laid[j] = IF j = hand.to THEN Slot(hand.key, hand.value) ELSE Left[j]
  BY <1>2, <1>3, CellStored DEF Laid
<1>5. Laid[hand.to].key \in Keys
  BY <1>1, <1>4 DEF Slot
<1>6. ASSUME NEW j \in work.done, j # hand.to PROVE j \in Entries(Laid)
  <2>1. j \in Entries(Slots) /\ ~(j = work.index /\ hand.from = work.index)
    BY <1>1, <1>6 DEF RehashAt
  <2> QED
    BY <1>1, <1>3, <1>4, <1>6, <2>1 DEF Entries
<1> QED
  BY <1>1, <1>3, <1>4, <1>5, <1>6 DEF Entries

(* The rehash lays an entry down and takes the displaced one up.           *)
LEMMA StepDisplace == ASSUME Structure, NEW t \in Threads, Displace(t) PROVE Structure'
<1> DEFINE hand == work.hand
<1> DEFINE other == Slots[hand.to]
<1> DEFINE next == [InHand(Slots, hand.to, work.done) EXCEPT !.to = RehashProbe(Laid, other.key, work.done)]
<1> DEFINE reused == IF other.key = Deleted THEN 1 ELSE 0
<1>1. /\ RehashAt(t) /\ pc[t] = "displace" /\ hand \in Hands /\ work.to = 0
      /\ hand.to \in 1..Len(Slots) /\ hand.from \in Entries(Slots) /\ work.index \in 1..Len(Slots)
  BY OfThread, WorkParts DEF RehashAt, Displace
<1>2. /\ Laid \in Seq(Cells) /\ Len(Laid) = Len(Slots) /\ DOMAIN Laid = 1..Len(Slots)
      /\ Laid[hand.to] = Slot(hand.key, hand.value)
      /\ \A j \in 1..Len(Slots) : j # hand.to =>
             Laid[j] = IF j = work.index /\ hand.from = work.index THEN Slot(Free, Free) ELSE Slots[j]
      /\ work.done \ {hand.to} \subseteq Entries(Laid) /\ hand.to \in Entries(Laid)
  BY <1>1, SlotsLaid
<1>3. Vector \in Tables /\ Len(Slots) \in Nat /\ DOMAIN Slots = 1..Len(Slots) /\ other \in Cells
  BY <1>1, TableParts
<1>4. CASE hand.to # hand.from /\ other.key \in Keys
  <2> DEFINE w == [work EXCEPT !.hand = next, !.done = @ \cup {next.to}]
  <2> DEFINE tb == [Vector EXCEPT !.slots = Laid]
  <2>1. work' = w /\ Update(t, tb, "displace") /\ UNCHANGED threshold
    BY <1>4 DEF Displace, Laid, Left
  <2>2. tb \in Tables /\ tb.slots = Laid /\ tb.moved = Vector.moved
    BY <1>2, <1>3, TableStored
  <2>3. hand.to # work.index /\ Laid[work.index].key = Free /\ work.index \notin work.done
    BY <1>1, <1>2, <1>3, <1>4, KeysAssumption DEF RehashAt, Slot, Entries
  <2>4. next.to \in 1..Len(Slots)
    <3>1. address[other.key] \in Int
      BY <1>4, WorkParts
    <3>2. RehashProbe(Laid, other.key, work.done) \in 1..Len(Laid)
      BY <1>1, <1>2, <1>3, <2>3, <3>1, RehashProbeIs
    <3> QED
      BY <1>2, <3>2 DEF InHand
  <2>5. next \in Hands /\ next.key = other.key /\ next.from = hand.to
    <3>1. next.to \in Nat /\ hand.to \in Nat /\ other.key \in Keys /\ other.value \in Words
      BY <1>1, <1>3, <1>4, <2>4 DEF Cells
    <3> QED
      BY <3>1 DEF InHand, Hands
  <2> HIDE DEF next
  <2>6. /\ w \in Works /\ w.to = 0 /\ w.back = work.back /\ w.index = work.index /\ w.hand = next
        /\ w.done = work.done \cup {next.to}
    <3>1. next.to \in Nat /\ work.done \cup {next.to} \in SUBSET Nat
      BY <1>3, <2>4, WorkParts
    <3> QED
      BY <1>1, <2>5, <3>1, WorkParts DEF Works
  <2> HIDE DEF w, tb
  <2>7. pc'[t] = "displace" /\ Slots' = Laid
    BY <2>1, <2>2, TableParts DEF Update, Goto, Slots, Vector, Keep, Structure, Shape
  <2>8. RehashAt(t)'
    <3>1. w.done \ {next.to} \subseteq Entries(Laid)
      BY <1>2, <2>6
    <3> QED
      BY <1>1, <1>2, <1>4, <2>1, <2>3, <2>4, <2>5, <2>6, <2>7, <3>1 DEF RehashAt
  <2> QED
    BY <1>1, <1>2, <2>1, <2>2, <2>6, <2>8, RehashStep, WorkParts
<1>5. CASE ~(hand.to # hand.from /\ other.key \in Keys)
  <2> DEFINE w == [work EXCEPT !.hand = Empty, !.index = @ + 1]
  <2> DEFINE tb == IF hand.to = hand.from THEN Vector
                   ELSE [Vector EXCEPT !.slots = Laid, !.deleted = @ - reused]
  <2> DEFINE s == IF hand.to = hand.from THEN Slots ELSE Laid
  <2>1. work' = w /\ Update(t, tb, "rehash") /\ threshold' \in Int
    BY <1>5, WorkParts DEF Displace, Laid, Left
  <2>2. tb \in Tables /\ tb.slots = s /\ tb.moved = Vector.moved
    <3>1. CASE hand.to = hand.from
      BY <1>3, <3>1 DEF Slots
    <3>2. CASE hand.to # hand.from
      <4> DEFINE d == Vector.deleted - reused
      <4>1. tb = [Vector EXCEPT !.slots = Laid, !.deleted = d]
        BY <1>3, <3>2 DEF Tables
      <4>2. d \in Int /\ s = Laid
        BY <1>3, <3>2 DEF Tables
      <4> HIDE DEF tb, s, d
      <4> QED
        BY <1>2, <1>3, <4>1, <4>2 DEF Tables
    <3> QED
      BY <3>1, <3>2
  <2>3. work.done \subseteq Entries(s) /\ Len(s) = Len(Slots) /\ DOMAIN s = 1..Len(Slots)
    BY <1>1, <1>2, <1>3 DEF RehashAt
  <2>4. /\ w \in Works /\ w.to = 0 /\ w.back = work.back /\ w.index = work.index + 1 /\ w.hand = Empty
        /\ w.done = work.done
    <3>1. Empty \in Hands /\ work.index + 1 \in Nat
      BY WorkParts DEF Empty, Hands, Words
    <3> QED
      BY <1>1, <3>1, WorkParts DEF Works
  <2> HIDE DEF w, tb, s
  <2>5. pc'[t] = "rehash" /\ Slots' = s
    BY <2>1, <2>2, TableParts DEF Update, Goto, Slots, Vector, Keep, Structure, Shape
  <2>6. RehashAt(t)'
    BY <1>1, <1>3, <2>1, <2>3, <2>4, <2>5 DEF RehashAt
  <2> QED
    BY <1>1, <2>1, <2>2, <2>3, <2>4, <2>6, RehashStep
<1> QED
  BY <1>4, <1>5

(* The rehash is at its end; its thread goes where it came from.           *)
LEMMA StepEndRehash == ASSUME Structure, NEW t \in Threads, EndRehash(t) PROVE Structure'
<1> DEFINE p == work.back
<1>1. /\ OpAt(t) /\ InhibitsAt(t) /\ UnmovedAt(t) /\ LockAt(t) /\ RehashAt(t) /\ t # None
      /\ my[t] \in Locals
  BY OfThread
<1>2. /\ pc[t] = "rehash" /\ work' = NoWork /\ Goto(t, p)
      /\ UNCHANGED <<vector, vectors, threshold, lock, inhibited, address, my, request>>
  BY DEF EndRehash, Keep, tableVars, threadVars
<1>3. /\ p \in {"find", "put", "rem", "inhibit"} /\ (p = "find" <=> request[t].op = "get")
      /\ (p \in {"put", "rem"} => p = request[t].op) /\ (p = "inhibit" => request[t].op = "put")
      /\ (p = "inhibit" <=> my[t].inhibits = 0) /\ lock.writer = t /\ work.to = 0
  <2>1. request[t].op \in {"get", "put", "rem"}
    <3>1. request[t] \in {Idle} \cup Calls(t) /\ request[t] # Idle
      BY <1>1, <1>2 DEF OpAt, Structure, Shape
    <3>2. request[t].op \in {"get", "put", "rem", "clr"}
      BY <3>1, CallParts
    <3> QED
      BY <1>1, <1>2, <3>2, WorkParts DEF OpAt, AfterTest, Works
  <2> QED
    BY <1>1, <1>2, <2>1 DEF OpAt, AfterTest, InhibitsAt, LockAt, AtWork, RehashAt
<1> HIDE DEF p
<1>4. pc'[t] = p /\ vectors' = [vectors EXCEPT ![vector] = Vector]
  BY <1>2, TableParts DEF Goto, Vector, Structure, Shape
<1>5. OpAt(t)'
  BY <1>1, <1>2, <1>3, <1>4 DEF OpAt
<1>6. InhibitsAt(t)' /\ LockAt(t)' /\ RehashAt(t)'
  BY <1>1, <1>2, <1>3, <1>4 DEF InhibitsAt, LockAt, RehashAt, AtWork, Locals
<1>7. UnmovedAt(t)'
  <2>1. p # "inhibit" => ~Vector.moved
    BY <1>1, <1>2 DEF UnmovedAt, p
  <2>2. p = "find" => ~vectors[my[t].vector].moved
    <3> SUFFICES ASSUME p = "find", my[t].vector # vector PROVE ~vectors[my[t].vector].moved
      BY <2>1 DEF Vector
    <3>1. my[t].vector \in Vectors \ {vector, work.to} /\ HeldBy(my[t].vector, Threads)
      BY <1>1, <1>2, <1>3, ConstantTypes DEF OpAt, Locals, HeldBy
    <3> QED
      BY <3>1 DEF Structure, HeldInv
  <2> QED
    BY <1>2, <1>3, <1>4, <2>1, <2>2 DEF UnmovedAt, Vector
<1>8. Vector \in Tables /\ p \in Points /\ p \notin AtTable /\ Len(Vector.slots) = Len(Slots)
  BY <1>3, TableParts DEF Points, AtTable, Slots
<1>9. work' \in Works /\ work'.to = 0 /\ threshold' \in Int /\ p \notin {"copy", "place"}
  BY <1>2, <1>3, WorkParts DEF Works, NoWork, Empty, Hands, Words
<1> QED
  BY <1>2, <1>3, <1>4, <1>5, <1>6, <1>7, <1>8, <1>9, TableStep

(* The first slot on the way that holds what is wanted.                    *)
LEMMA ProbeIs ==
  ASSUME NEW slots, Len(slots) \in Nat, NEW a \in Int, NEW wanted
  PROVE  LET s == Probe(slots, a, wanted) IN
         /\ s \in 0..Len(slots)
         /\ s # 0 => \E i \in 0..Len(slots)-1 :
                /\ s = At(slots, a, i) /\ s \in 1..Len(slots) /\ slots[s].key \in wanted
                /\ \A j \in 0..i-1 : slots[At(slots, a, j)].key \notin wanted
         /\ s = 0 => \A r \in 1..Len(slots) : slots[r].key \notin wanted
<1> DEFINE hits == {i \in 0..Len(slots) - 1 : slots[At(slots, a, i)].key \in wanted}
<1> DEFINE s == Probe(slots, a, wanted)
<1>1. CASE hits = {}
  <2>1. s = 0
    BY <1>1 DEF Probe
  <2>2. ASSUME NEW r \in 1..Len(slots) PROVE slots[r].key \notin wanted
    <3>1. PICK i \in 0..Len(slots)-1 : At(slots, a, i) = r
      <4>1. Len(slots) > 0
        OBVIOUS
      <4> QED
        BY <4>1, WalkVisitsAll
    <3> QED
      BY <1>1, <3>1
  <2> QED
    BY <2>1, <2>2
<1>2. CASE hits # {}
  <2> DEFINE m == Min(hits)
  <2>1. s = At(slots, a, m)
    BY <1>2 DEF Probe
  <2>2. hits \subseteq Nat
    OBVIOUS
  <2>3. m \in hits /\ \A j \in hits : m <= j
    <3> HIDE DEF hits
    <3> QED
      BY <1>2, <2>2, LeastIs
  <2>4. m \in 0..Len(slots)-1 /\ slots[At(slots, a, m)].key \in wanted /\ Len(slots) > 0
    BY <2>3
  <2>5. ASSUME NEW j \in 0..m-1 PROVE slots[At(slots, a, j)].key \notin wanted
    <3>1. j \in 0..Len(slots)-1 /\ ~(m <= j)
      BY <2>4
    <3> QED
      BY <2>3, <3>1
  <2>6. At(slots, a, m) \in 1..Len(slots)
    BY <2>4, AtIsSlot
  <2> HIDE DEF m, hits, s
  <2> QED
    BY <2>1, <2>4, <2>5, <2>6 DEF s
<1> QED
  BY <1>1, <1>2

(* A step that only changes the vector's slots, its counts and its cache.  *)
LEMMA TableChanged ==
  ASSUME Structure, NEW t \in Threads, pc[t] \in {"put", "rem", "clear"},
         NEW tb \in Tables, Len(tb.slots) = Len(Slots), tb.moved \in {Vector.moved, FALSE},
         Update(t, tb, "enable"), threshold' \in Int, work' = work
  PROVE  Structure'
<1>1. /\ OpAt(t) /\ InhibitsAt(t) /\ UnmovedAt(t) /\ LockAt(t) /\ RehashAt(t) /\ t # None
  BY OfThread
<1>2. /\ vectors' = [vectors EXCEPT ![vector] = tb] /\ Goto(t, "enable")
      /\ UNCHANGED <<vector, lock, inhibited, address, request, my>>
  BY DEF Update, Keep
<1>3. pc'[t] = "enable"
  BY <1>2 DEF Goto, Structure, Shape
<1>4. lock.writer = t /\ work = NoWork
  BY <1>1, NobodyElse DEF LockAt, AtWork, AtTable
<1>5. OpAt(t)'
  BY <1>1, <1>2, <1>3 DEF OpAt
<1>6. LockAt(t)' /\ InhibitsAt(t)' /\ UnmovedAt(t)' /\ RehashAt(t)'
  BY <1>1, <1>2, <1>3, <1>4 DEF LockAt, InhibitsAt, UnmovedAt, RehashAt, AtWork
<1>7. "enable" \in Points /\ "enable" \notin AtTable /\ work.to = 0 /\ work \in Works
  BY <1>4, WorkParts DEF Points, AtTable, NoWork
<1> QED
  BY <1>2, <1>4, <1>5, <1>6, <1>7, TableStep

(* The slot for a key is the number of a slot, or 0.                       *)
LEMMA PutSlotType ==
  ASSUME Structure, NEW key \in Keys
  PROVE  PutSlot(key) \in Nat
<1>1. address[key] \in Int /\ Len(Slots) \in Nat /\ Vector \in Tables
  BY WorkParts, TableParts
<1>2. FindNew(key) \in 0..Len(Slots)
  BY <1>1, ProbeIs DEF FindNew
<1>3. Vector.cached.slot \in Nat
  BY <1>1 DEF Tables
<1> QED
  BY <1>1, <1>2, <1>3 DEF PutSlot

(* puthash stores in the vector.                                           *)
LEMMA StepPut == ASSUME Structure, NEW t \in Threads, Put(t) PROVE Structure'
<1> DEFINE call == request[t]
<1> DEFINE slot == PutSlot(call.key)
<1> DEFINE was == Slots[slot].key
<1> DEFINE c == Vector.count + IF was = call.key THEN 0 ELSE 1
<1> DEFINE d == Vector.deleted - IF was = Deleted THEN 1 ELSE 0
<1> DEFINE e == [key |-> call.key, value |-> call.value, slot |-> slot]
<1> DEFINE s == [Slots EXCEPT ![slot] = Slot(call.key, call.value)]
<1> DEFINE tb == [Vector EXCEPT !.slots = s, !.count = c, !.deleted = d, !.cached = e]
<1>1. /\ pc[t] = "put" /\ work' = work
      /\ threshold' = threshold - IF was = Free THEN 1 ELSE 0
  BY DEF Put
<1>2. Update(t, tb, "enable")
  <2>1. tb = [Vector EXCEPT
                     !.slots[slot] = Slot(call.key, call.value),
                     !.count = @ + IF was = call.key THEN 0 ELSE 1,
                     !.deleted = @ - IF was = Deleted THEN 1 ELSE 0,
                     !.cached = [key |-> call.key, value |-> call.value, slot |-> slot]]
    BY TableParts DEF Slots, Tables
  <2> HIDE DEF tb
  <2> QED
    BY <2>1, Zenon DEF Put
<1>3. call.key \in Keys /\ call.value \in Values
  <2>1. call \in Calls(t) /\ call.op = "put"
    BY <1>1, OfThread DEF OpAt, Structure, Shape
  <2> QED
    BY <2>1, CallParts
<1>4. slot \in Nat /\ threshold' \in Int
  BY <1>1, <1>3, PutSlotType, WorkParts
<1>5. Slot(call.key, call.value) \in Cells
  BY <1>3 DEF Slot, Cells, Words
<1>6. s \in Seq(Cells) /\ Len(s) = Len(Slots)
  BY <1>5, TableParts, CellStored
<1>7. c \in Int /\ d \in Int
  BY TableParts DEF Tables
<1>8. e \in [key : Keys \cup {Free}, value : Words, slot : Nat]
  BY <1>3, <1>4 DEF Words
<1>9. tb \in Tables /\ tb.slots = s /\ tb.moved = Vector.moved
  <2> HIDE DEF c, d, e, s
  <2> QED
    BY <1>6, <1>7, <1>8, TableParts DEF Tables
<1> HIDE DEF tb, s
<1> QED
  BY <1>1, <1>2, <1>4, <1>6, <1>9, TableChanged

(* remhash marks the slot deleted.                                         *)
LEMMA StepRemove == ASSUME Structure, NEW t \in Threads, Remove(t) PROVE Structure'
<1> DEFINE key == request[t].key
<1> DEFINE walk == Probe(Slots, address[key], {Free, key})
<1> DEFINE slot == IF Vector.cached.key = key THEN Vector.cached.slot ELSE walk
<1> DEFINE found == slot # 0 /\ Slots[slot].key = key
<1>1. /\ pc[t] = "rem" /\ work' = work /\ threshold' = threshold
  BY DEF Remove
<1>2. CASE found
  <2> DEFINE s == [Slots EXCEPT ![slot] = Slot(Deleted, None)]
  <2> DEFINE c == Vector.count - 1
  <2> DEFINE d == Vector.deleted + 1
  <2> DEFINE tb == [Vector EXCEPT !.slots = s, !.count = c, !.deleted = d, !.cached = NoCache]
  <2>1. Update(t, tb, "enable")
    <3>1. tb = [Vector EXCEPT !.slots[slot] = Slot(Deleted, None),
                                          !.count = @ - 1, !.deleted = @ + 1,
                                          !.cached = NoCache]
      BY TableParts DEF Slots, Tables
    <3> HIDE DEF tb
    <3> QED
      BY <1>2, <3>1, Zenon DEF Remove
  <2>2. Slot(Deleted, None) \in Cells
    BY DEF Slot, Cells, Words
  <2>3. s \in Seq(Cells) /\ Len(s) = Len(Slots)
    BY <2>2, TableParts, CellStored
  <2>4. c \in Int /\ d \in Int /\ NoCache \in [key : Keys \cup {Free}, value : Words, slot : Nat]
    BY TableParts DEF Tables, NoCache, Words
  <2>5. tb \in Tables /\ tb.slots = s /\ tb.moved = Vector.moved
    <3> HIDE DEF c, d, s
    <3> QED
      BY <2>3, <2>4, TableParts DEF Tables
  <2> HIDE DEF tb, s
  <2> QED
    BY <1>1, <2>1, <2>3, <2>5, TableChanged, WorkParts
<1>3. CASE ~found
  <2>1. Update(t, Vector, "enable")
    BY <1>3 DEF Remove
  <2> QED
    BY <1>1, <2>1, TableChanged, TableParts, WorkParts DEF Slots
<1> QED
  BY <1>2, <1>3

(* clrhash frees every slot.                                               *)
LEMMA StepClear == ASSUME Structure, NEW t \in Threads, Clear(t) PROVE Structure'
<1> DEFINE s == [i \in DOMAIN Slots |-> Slot(Free, Free)]
<1> DEFINE tb == [Unused EXCEPT !.slots = s]
<1>1. /\ pc[t] = "clear" /\ work' = work /\ Update(t, tb, "enable")
      /\ threshold' = threshold + Vector.count + Vector.deleted
  BY DEF Clear, RoomAfterClear
<1>2. s \in Seq(Cells) /\ Len(s) = Len(Slots)
  BY TableParts DEF Slot, Cells, Words
<1>3. Vector.count \in Int /\ Vector.deleted \in Int /\ threshold \in Int
  BY TableParts, WorkParts DEF Tables
<1>4. threshold' \in Int
  BY <1>1, <1>3
<1>5. tb \in Tables /\ tb.slots = s /\ tb.moved = FALSE
  <2> HIDE DEF s
  <2>1. Unused \in Tables /\ Unused.moved = FALSE
    BY DEF Tables, Unused, NoCache, Words, Cells
  <2> QED
    BY <1>2, <2>1, TableStored
<1> HIDE DEF tb, s
<1> QED
  BY <1>1, <1>2, <1>4, <1>5, TableChanged

(* There is a vector for every reader, the table's and one to grow into.   *)
LEMMA SomeUnused ==
  ASSUME Structure, work = NoWork
  PROVE  \E v \in Vectors : vectors[v] = Unused
<1> DEFINE V == Vectors \ {vector}
<1> DEFINE f == [v \in V |-> CHOOSE u \in Readers : my[u].vector = v]
<1>1. SUFFICES ASSUME \A v \in V : HeldBy(v, Threads) PROVE FALSE
  <2>1. work.to = 0
    BY DEF NoWork
  <2>2. \A v \in V : ~HeldBy(v, Threads) => vectors[v] = Unused
    BY <2>1, ConstantTypes DEF Structure, HeldInv
  <2> QED
    BY <1>1, <2>2
<1>2. \A v \in V : \E u \in Readers : my[u].vector = v
  <2> SUFFICES ASSUME NEW v \in V PROVE \E u \in Readers : my[u].vector = v
    OBVIOUS
  <2>1. PICK u \in Threads : my[u].vector = v
    BY <1>1 DEF HeldBy
  <2>2. OpAt(u) /\ v # 0 /\ request[u] \in {Idle} \cup Calls(u)
    BY ConstantTypes, OfThread DEF Structure, Shape
  <2>3. request[u].op = "get" /\ request[u] # Idle
    BY <2>1, <2>2 DEF OpAt, Idle
  <2>4. u \in Readers
    BY <2>2, <2>3, CallParts
  <2> QED
    BY <2>1, <2>4
<1>3. f \in [V -> Readers] /\ \A v \in V : my[f[v]].vector = v
  BY <1>2
<1>4. IsFiniteSet(V) /\ Cardinality(V) = Cardinality(Readers) + 1
  <2>1. IsFiniteSet(Vectors) /\ Cardinality(Vectors) = Cardinality(Readers) + 2
    BY ConstantTypes, FS_Interval DEF Vectors
  <2>2. vector \in Vectors
    BY DEF Structure, Shape
  <2> QED
    BY <2>1, <2>2, FS_RemoveElement, ConstantTypes
<1> HIDE DEF f, V
<1>5. PICK x, y \in V : x # y /\ f[x] = f[y]
  BY <1>3, <1>4, ConstantTypes, FS_PigeonHole
<1> QED
  BY <1>3, <1>5

(* A vector for so many entries.                                           *)
LEMMA NewSizeIs ==
  ASSUME NEW n \in Int
  PROVE  NewSize(n) \in Nat /\ NewSize(n) >= MinSize /\ NewSize(n) > n /\ NewSize(n) > 0
<1> DEFINE more == MoreThan(n, RehashSize)
<1>1. more \in Int /\ more > n /\ MinSize \in Nat /\ MinSize > 0
  BY SizesAssumption DEF MoreThan
<1> HIDE DEF more
<1> DEFINE S == {MinSize, more}
<1>2. \E x \in S : \A y \in S : x >= y
  BY <1>1
<1>3. Max(S) \in S /\ \A y \in S : Max(S) >= y
  <2> HIDE DEF S
  <2> QED
    BY <1>2 DEF Max
<1>4. Max(S) \in Int /\ Max(S) >= MinSize /\ Max(S) >= more
  BY <1>1, <1>3
<1> QED
  BY <1>1, <1>4 DEF NewSize, more

(* A new vector has only free slots.                                       *)
LEMMA NewVectorIs ==
  ASSUME NEW n \in Nat
  PROVE  LET tb == NewVector(n) IN
         /\ tb \in Tables /\ Len(tb.slots) = n + Slack /\ DOMAIN tb.slots = 1..n + Slack
         /\ tb.slots \in Seq(Cells) /\ \A i \in 1..n + Slack : tb.slots[i] = Slot(Free, Free)
         /\ tb.moved = FALSE /\ tb.count = 0 /\ tb.deleted = 0 /\ tb.cached = NoCache
<1> DEFINE m == n + Slack
<1> DEFINE s == [i \in 1..m |-> Slot(Free, Free)]
<1>1. m \in Nat
  BY SizesAssumption
<1>2. s \in Seq(Cells) /\ Len(s) = m /\ DOMAIN s = 1..m /\ \A i \in 1..m : s[i] = Slot(Free, Free)
  <2> DEFINE c == Slot(Free, Free)
  <2>1. c \in Cells
    BY DEF Slot, Cells, Words
  <2> HIDE DEF c, m
  <2>2. s = [i \in 1..m |-> c]
    BY DEF c
  <2> HIDE DEF s
  <2>3. s \in Seq(Cells) /\ Len(s) = m
    BY <1>1, <2>1, <2>2
  <2> QED
    BY <2>2, <2>3 DEF c
<1>3. Unused \in Tables
  BY DEF Tables, Unused, NoCache, Words, Cells
<1>4. NewVector(n) = [Unused EXCEPT !.slots = s]
  BY DEF NewVector
<1> HIDE DEF s, m
<1>5. NewVector(n) \in Tables /\ NewVector(n).slots = s /\ NewVector(n).moved = FALSE
      /\ NewVector(n).count = 0 /\ NewVector(n).deleted = 0 /\ NewVector(n).cached = NoCache
  BY <1>2, <1>3, <1>4, TableStored DEF Unused
<1> QED
  BY <1>2, <1>5 DEF m

(* A step of the thread that fills a new vector.                           *)
LEMMA GrowthStep ==
  ASSUME Structure, NEW t \in Threads, lock.writer = t, pc[t] \in {"grow", "copy", "place"},
         NEW new \in Vectors \ {vector}, ~HeldBy(new, Threads), work.to \in {0, new},
         NEW tb \in Tables, NEW p \in {"copy", "place"},
         vectors' = [vectors EXCEPT ![new] = tb], Goto(t, p),
         work' \in Works, work'.to = new,
         UNCHANGED <<vector, threshold, lock, inhibited, address, my, request>>,
         CopyAt(t)'
  PROVE  Structure'
<1> USE DEF Structure
<1>1. /\ pc' \in [Threads -> Points] /\ pc'[t] = p /\ \A u \in Threads \ {t} : pc'[u] = pc[u]
      /\ vectors' \in [Vectors -> Tables] /\ Vector' = Vector /\ Slots' = Slots
      /\ \A v \in Vectors \ {new} : vectors'[v] = vectors[v]
  BY DEF Goto, Shape, Vector, Slots, Points
<1>2. Shape'
  BY <1>1 DEF Shape, Calls
<1>3. Balanced'
  BY SameBalance
<1>4. \A u \in Threads \ {t} : lock.writer # u /\ pc[u] \notin AtWork /\ my[u].vector # new
  BY ConstantTypes DEF LockInv, LockAt, HeldBy
<1>5. OpAt(t)' /\ InhibitsAt(t)' /\ UnmovedAt(t)' /\ LockAt(t)' /\ RehashAt(t)'
  <2>1. OpAt(t) /\ InhibitsAt(t) /\ LockAt(t)
    BY OfThread
  <2>2. OpAt(t)'
    BY <1>1, <2>1 DEF OpAt
  <2> QED
    BY <1>1, <2>1, <2>2 DEF InhibitsAt, UnmovedAt, LockAt, RehashAt, AtWork
<1>6. ThreadInv'
  <2> SUFFICES ASSUME NEW u \in Threads \ {t} PROVE (OpAt(u) /\ InhibitsAt(u) /\ UnmovedAt(u))'
    BY <1>5 DEF ThreadInv
  <2>1. /\ OpAt(u) /\ InhibitsAt(u) /\ UnmovedAt(u) /\ pc'[u] = pc[u] /\ pc[u] \notin AtWork
        /\ my[u] \in Locals
    BY <1>1, <1>4 DEF ThreadInv, Shape
  <2>2. UnmovedAt(u)'
    BY <1>1, <1>4, <2>1 DEF UnmovedAt, AtWork, Locals
  <2> QED
    BY <2>1, <2>2 DEF OpAt, InhibitsAt, AtWork
<1>7. LockInv'
  <2> SUFFICES ASSUME NEW u \in Threads \ {t} PROVE LockAt(u)'
    BY <1>5 DEF LockInv
  <2> QED
    BY <1>1 DEF LockInv, LockAt
<1>8. WorkInv'
  <2>1. ~ \A u \in Threads : pc'[u] \notin AtTable
    BY <1>1 DEF AtTable
  <2>2. ASSUME NEW u \in Threads PROVE RehashAt(u)' /\ CopyAt(u)'
    BY <1>1, <1>4, <1>5 DEF RehashAt, CopyAt, AtWork
  <2> QED
    BY <2>1, <2>2 DEF WorkInv, AtTable
<1>9. HeldInv'
  <2>1. Len(Slots') > 0
    BY <1>1 DEF HeldInv
  <2>2. \A v \in Vectors : HeldBy(v, Threads)' <=> HeldBy(v, Threads)
    BY DEF HeldBy
  <2>3. ASSUME NEW v \in Vectors \ {vector, new}
        PROVE  IF HeldBy(v, Threads)
                 THEN /\ Len(vectors[v].slots) > 0 /\ ~vectors[v].moved
                      /\ \A i \in DOMAIN vectors[v].slots : vectors[v].slots[i].key = Zero
                 ELSE vectors[v] = Unused
    BY ConstantTypes DEF HeldInv
  <2> QED
    BY <1>1, <2>1, <2>2, <2>3 DEF HeldInv
<1> QED
  BY <1>2, <1>3, <1>6, <1>7, <1>8, <1>9

(* The vector that growth chooses.                                         *)
LEMMA ChosenUnused ==
  ASSUME Structure, work = NoWork, NEW new, new = Min({v \in Vectors : vectors[v] = Unused})
  PROVE  new \in Vectors \ {vector} /\ vectors[new] = Unused /\ ~HeldBy(new, Threads)
<1> DEFINE S == {v \in Vectors : vectors[v] = Unused}
<1>1. S # {} /\ S \subseteq Nat
  BY SomeUnused, ConstantTypes
<1>2. new \in S
  <2> HIDE DEF S
  <2> QED
    BY <1>1, LeastIs DEF S
<1>3. new # vector
  BY <1>2, TableParts DEF Slots, Vector, Unused
<1>4. ~HeldBy(new, Threads)
  <2>1. work.to = 0 /\ new # 0
    BY <1>2, ConstantTypes DEF NoWork
  <2> QED
    BY <1>2, <1>3, <2>1 DEF Structure, HeldInv, Unused
<1> QED
  BY <1>2, <1>3, <1>4

(* A vector that nobody holds is taken for the larger table.               *)
LEMMA StepGrow == ASSUME Structure, NEW t \in Threads, Grow(t) PROVE Structure'
<1> PICK new : new = Min({v \in Vectors : vectors[v] = Unused})
  OBVIOUS
<1> DEFINE tb == NewVector(NewSize(Vector.count))
<1> DEFINE w == [NoWork EXCEPT !.to = new, !.index = 1]
<1>1. OpAt(t) /\ InhibitsAt(t) /\ LockAt(t) /\ pc[t] = "grow" /\ t # None
  BY OfThread DEF Grow
<1>2. lock.writer = t /\ my[t].inhibits = 0 /\ request[t].op = "put" /\ work = NoWork
  BY <1>1, NobodyElse DEF OpAt, InhibitsAt, LockAt, AtWork, AtTable
<1>3. CASE GrowInPlace
  BY <1>1, <1>2, <1>3, StartsRehash DEF Grow
<1>4. CASE ~GrowInPlace
  <2>1. /\ vectors' = [vectors EXCEPT ![new] = tb] /\ work' = w /\ Goto(t, "copy")
        /\ UNCHANGED <<vector, threshold, lock, inhibited, address, my, request>>
    BY <1>4 DEF Grow, Keep, threadVars
  <2>2. new \in Vectors \ {vector} /\ ~HeldBy(new, Threads)
    BY <1>2, ChosenUnused
  <2>3. tb \in Tables /\ Len(tb.slots) > 0
    <3>1. Vector.count \in Int
      BY TableParts DEF Tables
    <3>2. PICK n \in Nat : n = NewSize(Vector.count)
      BY <3>1, NewSizeIs
    <3>3. tb \in Tables /\ Len(tb.slots) = n + Slack
      BY <3>2, NewVectorIs
    <3> QED
      BY <3>3, SizesAssumption
  <2> HIDE DEF tb
  <2>4. w \in Works /\ w.to = new /\ w.index = 1 /\ w.hand = Empty
    <3>1. NoWork \in Works /\ 1 \in Nat
      BY DEF NoWork, Works, Empty, Hands, Words
    <3> QED
      BY <2>2, <3>1 DEF Works, NoWork
  <2> HIDE DEF w
  <2>5. CopyAt(t)'
    <3>1. pc'[t] = "copy" /\ Slots' = Slots /\ vectors'[new] = tb
      BY <2>1, <2>2 DEF Goto, Structure, Shape, Slots, Vector
    <3>2. ~HeldBy(new, Threads)'
      BY <2>1, <2>2 DEF HeldBy
    <3> QED
      BY <2>1, <2>2, <2>3, <2>4, <3>1, <3>2, TableParts DEF CopyAt
  <2>6. work.to = 0
    BY <1>2 DEF NoWork
  <2> QED
    BY <1>1, <1>2, <2>1, <2>2, <2>3, <2>4, <2>5, <2>6, GrowthStep
<1> QED
  BY <1>3, <1>4

(* What the thread that fills a new vector knows.                          *)
LEMMA CopyParts ==
  ASSUME Structure, NEW t \in Threads, pc[t] \in {"copy", "place"}
  PROVE  /\ CopyAt(t) /\ lock.writer = t /\ t # None /\ my[t].inhibits = 0
         /\ request[t].op = "put"
         /\ work.to \in Vectors \ {vector} /\ work.to # 0 /\ ~HeldBy(work.to, Threads)
         /\ work.index \in 1..Len(Slots) + 1
         /\ vectors[work.to] \in Tables /\ vectors[work.to].slots \in Seq(Cells)
         /\ Len(vectors[work.to].slots) \in Nat /\ Len(vectors[work.to].slots) > 0
<1>1. CopyAt(t) /\ LockAt(t) /\ InhibitsAt(t) /\ OpAt(t) /\ t # None
  BY OfThread
<1>2. work.to \in Vectors \ {vector} /\ work.to # 0 /\ ~HeldBy(work.to, Threads)
      /\ work.index \in 1..Len(Slots) + 1 /\ Len(vectors[work.to].slots) > 0
  BY <1>1, ConstantTypes DEF CopyAt
<1>3. vectors[work.to] \in Tables
  BY <1>2, TableParts
<1>4. vectors[work.to].slots \in Seq(Cells)
  BY <1>3 DEF Tables
<1> QED
  BY <1>1, <1>2, <1>3, <1>4, LenProperties DEF LockAt, InhibitsAt, OpAt, AtWork

(* The growth hashes an entry for the new vector.                          *)
LEMMA StepCopySlot == ASSUME Structure, NEW t \in Threads, CopySlot(t) PROVE Structure'
<1> PICK new, tb : new = work.to /\ tb = vectors[work.to]
  OBVIOUS
<1> DEFINE slot == Slots[work.index]
<1> DEFINE to == Probe(tb.slots, address[slot.key], {Free, Deleted})
<1>1. /\ pc[t] = "copy" /\ work.index <= Len(Slots)
      /\ UNCHANGED <<vector, vectors, threshold, lock, inhibited, address, my, request>>
  BY DEF CopySlot, Keep, tableVars, threadVars
<1>2. /\ lock.writer = t /\ new \in Vectors \ {vector} /\ ~HeldBy(new, Threads) /\ tb \in Tables
      /\ work.index \in 1..Len(Slots) /\ Len(tb.slots) > 0 /\ Len(tb.slots) \in Nat /\ slot \in Cells
      /\ work.hand = Empty
  BY <1>1, CopyParts, TableParts DEF CopyAt
<1>3. vectors' = [vectors EXCEPT ![new] = tb] /\ ~HeldBy(new, Threads)' /\ Slots' = Slots /\ vectors'[new] = tb
  BY <1>1, <1>2, TableParts DEF HeldBy, Slots, Vector
<1>4. CASE slot.key \in Keys
  <2> DEFINE hand == [key |-> slot.key, value |-> slot.value, from |-> work.index, to |-> to]
  <2> DEFINE w == [work EXCEPT !.hand = hand]
  <2>1. work' = w /\ Goto(t, "place")
    BY <1>4 DEF CopySlot
  <2>2. to \in Nat
    <3>1. address[slot.key] \in Int
      BY <1>4, WorkParts
    <3>2. to \in 0..Len(tb.slots)
      BY <1>2, <3>1, ProbeIs
    <3> QED
      BY <1>2, <3>2
  <2>3. hand \in Hands /\ hand.key \in Keys
    <3> HIDE DEF to
    <3> QED
      BY <1>2, <1>4, <2>2 DEF Hands, Cells
  <2> HIDE DEF hand
  <2>4. w \in Works /\ w.to = new /\ w.index = work.index /\ w.hand = hand
    BY <2>3, WorkParts DEF Works
  <2> HIDE DEF w
  <2>5. CopyAt(t)'
    <3>1. pc'[t] = "place"
      BY <2>1 DEF Goto, Structure, Shape
    <3> QED
      BY <1>1, <1>2, <1>3, <2>1, <2>3, <2>4, <3>1, TableParts DEF CopyAt
  <2>6. pc[t] \in {"grow", "copy", "place"} /\ work.to \in {0, new} /\ "place" \in {"copy", "place"}
    BY <1>1
  <2> HIDE DEF slot, to
  <2> QED
    BY ZenonT(60), <1>1, <1>2, <1>3, <2>1, <2>4, <2>5, <2>6, GrowthStep
<1>5. CASE slot.key \notin Keys
  <2> DEFINE w == [work EXCEPT !.index = @ + 1]
  <2>1. work' = w /\ Goto(t, "copy")
    BY <1>1, <1>5 DEF CopySlot, Goto, Structure, Shape
  <2>2. w \in Works /\ w.to = new /\ w.index = work.index + 1 /\ w.hand = Empty
    BY SMTT(30), <1>2, WorkParts DEF Works
  <2> HIDE DEF w
  <2>3. CopyAt(t)'
    <3>1. pc'[t] = "copy"
      BY <2>1 DEF Goto, Structure, Shape
    <3> QED
      BY <1>1, <1>2, <1>3, <2>1, <2>2, <3>1, TableParts DEF CopyAt
  <2> QED
    BY <1>1, <1>2, <1>3, <2>1, <2>2, <2>3, GrowthStep
<1> QED
  BY <1>4, <1>5

(* The growth stores the entry it has hashed.                              *)
LEMMA StepPlaceEntry == ASSUME Structure, NEW t \in Threads, PlaceEntry(t) PROVE Structure'
<1> PICK new, was : new = work.to /\ was = vectors[work.to]
  OBVIOUS
<1> DEFINE c == Slot(work.hand.key, work.hand.value)
<1> DEFINE s == [was.slots EXCEPT ![work.hand.to] = c]
<1> DEFINE tb == [was EXCEPT !.slots = s]
<1> DEFINE w == [work EXCEPT !.hand = Empty, !.index = @ + 1]
<1>1. /\ pc[t] = "place" /\ work' = w /\ Goto(t, "copy")
      /\ UNCHANGED <<vector, threshold, lock, inhibited, address, my, request>>
  BY DEF PlaceEntry, Keep, threadVars
<1>2. /\ lock.writer = t /\ new \in Vectors \ {vector} /\ ~HeldBy(new, Threads) /\ was \in Tables
      /\ work.index \in 1..Len(Slots) /\ Len(was.slots) > 0 /\ was.slots \in Seq(Cells)
      /\ work.hand.key \in Keys
  BY <1>1, CopyParts, TableParts DEF CopyAt
<1>3. vectors' = [vectors EXCEPT ![new] = tb]
  <2>1. vectors' = [vectors EXCEPT ![work.to].slots[work.hand.to] = c]
    BY DEF PlaceEntry
  <2> HIDE DEF c
  <2> QED
    BY <1>2, <2>1, TableParts DEF Tables
<1>4. c \in Cells
  BY <1>2, WorkParts DEF Slot, Cells, Hands
<1>5. s \in Seq(Cells) /\ Len(s) = Len(was.slots)
  BY <1>2, <1>4, CellStored
<1>6. tb \in Tables /\ tb.slots = s
  <2> HIDE DEF s
  <2> QED
    BY <1>2, <1>5, TableStored
<1>7. w \in Works /\ w.to = new /\ w.index = work.index + 1 /\ w.hand = Empty
  <2>1. Empty \in Hands /\ work.index + 1 \in Nat
    BY WorkParts DEF Empty, Hands, Words
  <2> QED
    BY <1>2, <2>1, WorkParts DEF Works
<1> HIDE DEF w, tb, s, c
<1>8. CopyAt(t)'
  <2>1. pc'[t] = "copy" /\ vectors'[new] = tb /\ Slots' = Slots /\ ~HeldBy(new, Threads)'
    BY <1>1, <1>2, <1>3 DEF Goto, Structure, Shape, Slots, Vector, HeldBy
  <2> QED
    BY <1>1, <1>2, <1>5, <1>6, <1>7, <2>1, TableParts DEF CopyAt
<1> QED
  BY <1>1, <1>2, <1>3, <1>6, <1>7, <1>8, GrowthStep

(* %init-misc leaves no key in the vector.                                 *)
LEMMA ZeroedIs ==
  ASSUME Structure, NEW v \in Vectors
  PROVE  LET tb == Zeroed(v) IN
         /\ tb \in Tables /\ Len(tb.slots) = Len(vectors[v].slots) /\ tb.moved = FALSE
         /\ \A i \in DOMAIN tb.slots : tb.slots[i].key = Zero
<1> DEFINE old == vectors[v].slots
<1> DEFINE c == Slot(Zero, Zero)
<1> DEFINE s == [i \in DOMAIN old |-> c]
<1>1. old \in Seq(Cells) /\ c \in Cells /\ c.key = Zero
  BY TableParts DEF Tables, Slot, Cells, Words
<1> HIDE DEF old, c
<1>2. s \in Seq(Cells) /\ Len(s) = Len(old) /\ \A i \in DOMAIN s : s[i] = c
  BY <1>1
<1>3. Unused \in Tables /\ Unused.moved = FALSE
  BY DEF Tables, Unused, NoCache, Words, Cells
<1>4. Zeroed(v) = [Unused EXCEPT !.slots = s]
  BY DEF Zeroed, old, c
<1> HIDE DEF s
<1>5. Zeroed(v) \in Tables /\ Zeroed(v).slots = s /\ Zeroed(v).moved = FALSE
  BY <1>2, <1>3, <1>4, TableStored
<1> QED
  BY <1>1, <1>2, <1>5 DEF old

(* The new vector is the table; the old one is zeroed, if it is held.      *)
LEMMA StepInstall == ASSUME Structure, NEW t \in Threads, Install(t) PROVE Structure'
<1> PICK new, old : new = work.to /\ old = vector
  OBVIOUS
<1> DEFINE tb == [vectors[new] EXCEPT !.count = Vector.count]
<1> DEFINE rest == IF HeldBy(old, Threads) THEN Zeroed(old) ELSE Unused
<1>1. /\ pc[t] = "copy" /\ work' = NoWork /\ Goto(t, "inhibit") /\ vector' = new
      /\ threshold' = NewSize(Vector.count) - Vector.count
      /\ UNCHANGED <<lock, inhibited, address, my, request>>
  BY DEF Install, Keep, threadVars
<1>2. /\ lock.writer = t /\ new \in Vectors \ {old} /\ ~HeldBy(new, Threads) /\ vectors[new] \in Tables
      /\ Len(vectors[new].slots) > 0 /\ old \in Vectors /\ new # 0 /\ t # None
      /\ my[t].inhibits = 0 /\ request[t].op = "put"
  BY <1>1, CopyParts, TableParts
<1>3. Vector.count \in Int /\ NewSize(Vector.count) \in Int
  BY TableParts, NewSizeIs DEF Tables
<1>4. tb \in Tables /\ tb.slots = vectors[new].slots /\ tb.moved = vectors[new].moved
  BY <1>2, <1>3 DEF Tables
<1>5. rest \in Tables /\ (HeldBy(old, Threads) =>
          /\ Len(rest.slots) > 0 /\ ~rest.moved
          /\ \A i \in DOMAIN rest.slots : rest.slots[i].key = Zero)
      /\ (~HeldBy(old, Threads) => rest = Unused)
  <2>1. Unused \in Tables
    BY DEF Tables, Unused, NoCache, Words, Cells
  <2>2. Len(vectors[old].slots) > 0
    BY TableParts DEF Slots, Vector
  <2> QED
    BY <1>2, <2>1, <2>2, ZeroedIs
<1>6. /\ vectors' \in [Vectors -> Tables] /\ vectors'[new] = tb /\ vectors'[old] = rest
      /\ \A v \in Vectors \ {new, old} : vectors'[v] = vectors[v]
  <2>1. vectors' = [vectors EXCEPT ![new].count = Vector.count, ![old] = rest]
    BY DEF Install
  <2>2. vectors' = [vectors EXCEPT ![new] = tb, ![old] = rest]
    <3> HIDE DEF rest
    <3> QED
      BY <1>2, <2>1, TableParts
  <2> HIDE DEF tb, rest
  <2> QED
    BY <1>2, <1>4, <1>5, <2>2, TableParts
<1> HIDE DEF tb, rest
<1>7. /\ pc' \in [Threads -> Points] /\ pc'[t] = "inhibit"
      /\ \A u \in Threads \ {t} : pc'[u] = pc[u]
  BY <1>1 DEF Goto, Structure, Shape, Points
<1>8. Shape'
  <2>1. work' \in Works
    BY <1>1 DEF Works, NoWork, Empty, Hands, Words
  <2> QED
    BY <1>1, <1>2, <1>3, <1>6, <1>7, <2>1 DEF Structure, Shape, Calls
<1>9. Balanced'
  BY <1>1, SameBalance DEF Structure
<1>10. \A u \in Threads \ {t} : lock.writer # u /\ pc[u] \notin AtWork /\ pc[u] \notin AtTable
  BY <1>2, NobodyElse DEF AtTable
<1>11. ThreadInv'
  <2> SUFFICES ASSUME NEW u \in Threads PROVE (OpAt(u) /\ InhibitsAt(u) /\ UnmovedAt(u))'
    BY DEF ThreadInv
  <2>1. OpAt(u) /\ InhibitsAt(u) /\ UnmovedAt(u)
    BY OfThread
  <2>2. CASE u = t
    BY <1>1, <1>2, <1>7, <2>1, <2>2 DEF OpAt, InhibitsAt, UnmovedAt
  <2>3. CASE u # t
    BY <1>1, <1>7, <1>10, <2>1, <2>3 DEF OpAt, InhibitsAt, UnmovedAt, AtWork
  <2> QED
    BY <2>2, <2>3
<1>12. LockInv'
  <2> SUFFICES ASSUME NEW u \in Threads PROVE LockAt(u)'
    BY <1>1 DEF LockInv, Structure
  <2>1. LockAt(u)
    BY OfThread
  <2>2. CASE u = t
    BY <1>1, <1>2, <1>7, <2>1, <2>2 DEF LockAt, AtWork
  <2>3. CASE u # t
    BY <1>1, <1>7, <2>1, <2>3 DEF LockAt
  <2> QED
    BY <2>2, <2>3
<1>13. WorkInv'
  BY <1>1, <1>7, <1>10 DEF WorkInv, RehashAt, CopyAt, AtTable
<1>14. HeldInv'
  <2>1. Len(Slots') > 0
    BY <1>1, <1>2, <1>4, <1>6 DEF Slots, Vector
  <2>2. \A v \in Vectors : HeldBy(v, Threads)' <=> HeldBy(v, Threads)
    BY <1>1 DEF HeldBy
  <2>3. ASSUME NEW v \in Vectors \ {old, new}
        PROVE  IF HeldBy(v, Threads)
                 THEN /\ Len(vectors[v].slots) > 0 /\ ~vectors[v].moved
                      /\ \A i \in DOMAIN vectors[v].slots : vectors[v].slots[i].key = Zero
                 ELSE vectors[v] = Unused
    BY DEF HeldInv, Structure
  <2>4. ASSUME NEW v \in Vectors \ {vector', work'.to}
        PROVE  IF HeldBy(v, Threads)'
                 THEN /\ Len(vectors'[v].slots) > 0 /\ ~vectors'[v].moved
                      /\ \A i \in DOMAIN vectors'[v].slots : vectors'[v].slots[i].key = Zero
                 ELSE vectors'[v] = Unused
    <3>1. CASE v = old
      BY <1>2, <1>5, <1>6, <2>2, <3>1
    <3>2. CASE v # old
      <4>1. v \in Vectors \ {old, new}
        BY <1>1, <3>2
      <4> QED
        BY <1>6, <2>2, <2>3, <4>1
    <3> QED
      BY <3>1, <3>2
  <2> QED
    BY <2>1, <2>4 DEF HeldInv
<1> QED
  BY <1>8, <1>9, <1>11, <1>12, <1>13, <1>14 DEF Structure

(* The operation returns and lets go of the lock and its vector.           *)
LEMMA StepUnlock == ASSUME Structure, NEW t \in Threads, Unlock(t) PROVE Structure'
<1> PICK v : v = my[t].vector
  OBVIOUS
<1> DEFINE drop == ~(v \in {0, vector} \/ HeldBy(v, Threads \ {t}))
<1>1. /\ pc[t] = "unlock"
      /\ lock' = [readers |-> lock.readers \ {t},
                  writer |-> IF lock.writer = t THEN None ELSE lock.writer]
      /\ vectors' = (IF drop THEN [vectors EXCEPT ![v] = Unused] ELSE vectors)
      /\ my' = [my EXCEPT ![t] = NoLocals] /\ request' = [request EXCEPT ![t] = Idle]
      /\ Goto(t, "idle") /\ UNCHANGED <<vector, threshold, inhibited, work, address>>
  BY DEF Unlock
<1>2. /\ OpAt(t) /\ LockAt(t) /\ t # None /\ v \in {0} \cup Vectors /\ my[t].inhibits = 0
      /\ lock \in Locks
  BY <1>1, OfThread DEF Locals, InhibitsAt
<1>3. /\ pc' \in [Threads -> Points] /\ pc'[t] = "idle" /\ my' \in [Threads -> Locals]
      /\ my'[t] = NoLocals /\ request'[t] = Idle
      /\ \A u \in Threads \ {t} : pc'[u] = pc[u] /\ my'[u] = my[u] /\ request'[u] = request[u]
  <2>1. NoLocals \in Locals
    BY DEF NoLocals, Locals, Words
  <2> QED
    BY <1>1, <2>1 DEF Goto, Structure, Shape, Points
<1>4. vectors' \in [Vectors -> Tables] /\ Vector' = Vector /\ Slots' = Slots
      /\ \A x \in Vectors : vectors'[x] = IF drop /\ x = v THEN Unused ELSE vectors[x]
  <2>1. Unused \in Tables
    BY DEF Tables, Unused, NoCache, Words, Cells
  <2> QED
    BY <1>1, <1>2, <2>1, TableParts DEF Vector, Slots
<1>5. lock' \in Locks
  BY <1>1, <1>2 DEF Locks
<1>6. Shape'
  <2>1. /\ request' \in [Threads -> {Idle} \cup UNION {Calls(u) : u \in Threads}]
        /\ \A u \in Threads : request'[u] \in {Idle} \cup Calls(u)
    BY <1>1, <1>3 DEF Structure, Shape
  <2> QED
    BY <1>1, <1>3, <1>4, <1>5, <2>1 DEF Structure, Shape, Calls
<1>7. Balanced'
  BY <1>1, <1>2, <1>3, SameBalance DEF Structure, NoLocals
<1>8. \A x \in Vectors : HeldBy(x, Threads)' <=> HeldBy(x, Threads \ {t})
  BY <1>3, ConstantTypes DEF HeldBy, NoLocals
<1>9. ThreadInv'
  <2> SUFFICES ASSUME NEW u \in Threads PROVE (OpAt(u) /\ InhibitsAt(u) /\ UnmovedAt(u))'
    BY DEF ThreadInv
  <2>1. OpAt(u) /\ InhibitsAt(u) /\ UnmovedAt(u) /\ my[u] \in Locals
    BY OfThread
  <2>2. CASE u = t
    BY <1>3, <2>2 DEF OpAt, InhibitsAt, UnmovedAt, NoLocals, Idle
  <2>3. CASE u # t
    <3>5. OpAt(u)'
      BY <1>1, <1>3, <2>1, <2>3 DEF OpAt, AfterTest
    <3>6. lock'.writer = u <=> lock.writer = u
      BY <1>1, <1>2, <2>3, ConstantTypes
    <3>7. InhibitsAt(u)'
      BY <1>1, <1>3, <2>1, <2>3, <3>6 DEF InhibitsAt
    <3>1. OpAt(u)' /\ InhibitsAt(u)'
      BY <3>5, <3>7
    <3>2. pc[u] = "find" => my[u].vector \in Vectors /\ (drop => my[u].vector # v)
      BY <2>1, <2>3 DEF OpAt, Locals, HeldBy
    <3>3. lock'.writer = u <=> lock.writer = u
      BY <1>1, <1>2, <2>3, ConstantTypes
    <3>4. UnmovedAt(u)'
      <4> HIDE DEF drop
      <4> QED
        BY <1>1, <1>3, <1>4, <2>1, <2>3, <3>2, <3>3 DEF UnmovedAt
    <3> QED
      BY <3>1, <3>4
  <2> QED
    BY <2>2, <2>3
<1>10. LockInv'
  <2>1. lock'.writer # None => lock'.readers = {}
    BY <1>1 DEF LockInv, Structure
  <2> SUFFICES ASSUME NEW u \in Threads PROVE LockAt(u)'
    BY <2>1 DEF LockInv
  <2>2. LockAt(u) /\ u # None
    BY OfThread
  <2>3. CASE u = t
    BY <1>1, <1>2, <1>3, <2>2, <2>3 DEF LockAt, AtWork
  <2>4. CASE u # t
    BY <1>1, <1>2, <1>3, <2>2, <2>4 DEF LockAt
  <2> QED
    BY <2>3, <2>4
<1>11. WorkInv'
  <2>1. (\A u \in Threads : pc'[u] \notin AtTable) => work' = NoWork
    BY <1>1, <1>3 DEF Structure, WorkInv, AtTable
  <2>2. ASSUME NEW u \in Threads PROVE RehashAt(u)' /\ CopyAt(u)'
    <3>1. RehashAt(u) /\ CopyAt(u)
      BY OfThread
    <3>2. CASE u = t
      BY <1>3, <3>2 DEF RehashAt, CopyAt
    <3>3. CASE u # t
      <4>1. RehashAt(u)'
        BY <1>1, <1>3, <1>4, <3>1, <3>3 DEF RehashAt, Entries
      <4>2. CopyAt(u)'
        <5> SUFFICES ASSUME pc[u] \in {"copy", "place"} PROVE CopyAt(u)'
          BY <1>3, <3>3 DEF CopyAt
        <5>1. work.to \in Vectors /\ ~HeldBy(work.to, Threads) /\ work.to # 0
          BY CopyParts
        <5>2. work.to # v /\ ~HeldBy(work.to, Threads)'
          BY <1>1, <1>8, <5>1 DEF HeldBy
        <5> HIDE DEF drop
        <5> QED
          BY <1>1, <1>3, <1>4, <3>1, <3>3, <5>1, <5>2 DEF CopyAt
      <4> QED
        BY <4>1, <4>2
    <3> QED
      BY <3>2, <3>3
  <2> QED
    BY <2>1, <2>2 DEF WorkInv, AtTable
<1>12. HeldInv'
  <2>1. Len(Slots') > 0
    BY <1>4, TableParts
  <2>2. ASSUME NEW x \in Vectors \ {vector, work.to}
        PROVE  IF HeldBy(x, Threads)'
                 THEN /\ Len(vectors'[x].slots) > 0 /\ ~vectors'[x].moved
                      /\ \A i \in DOMAIN vectors'[x].slots : vectors'[x].slots[i].key = Zero
                 ELSE vectors'[x] = Unused
    <3>1. IF HeldBy(x, Threads)
            THEN /\ Len(vectors[x].slots) > 0 /\ ~vectors[x].moved
                 /\ \A i \in DOMAIN vectors[x].slots : vectors[x].slots[i].key = Zero
            ELSE vectors[x] = Unused
      BY DEF Structure, HeldInv
    <3>2. CASE x = v
      <4>1. HeldBy(x, Threads) /\ v \notin {0, vector}
        BY <3>2, ConstantTypes DEF HeldBy
      <4>2. drop <=> ~HeldBy(x, Threads)'
        BY <1>8, <3>2, <4>1
      <4> QED
        BY <1>4, <3>1, <3>2, <4>1, <4>2
    <3>3. CASE x # v
      <4>1. HeldBy(x, Threads)' <=> HeldBy(x, Threads)
        BY <1>8, <3>3 DEF HeldBy
      <4> QED
        BY <1>4, <3>1, <3>3, <4>1
    <3> QED
      BY <3>2, <3>3
  <2> QED
    BY <1>1, <2>1, <2>2 DEF HeldInv
<1> QED
  BY <1>6, <1>7, <1>9, <1>10, <1>11, <1>12 DEF Structure

(* A collection moves keys; nobody who relies on a flag is disturbed.      *)
LEMMA StepCollect == ASSUME Structure, Collect PROVE Structure'
<1>1. PICK new \in [Keys -> 1..MaxAddress] :
         /\ address' = new
         /\ vectors' = [v \in Vectors |-> [vectors[v] EXCEPT !.moved =
                  @ \/ \E i \in Entries(vectors[v].slots) :
                           LET key == vectors[v].slots[i].key IN new[key] # address[key]]]
  BY DEF Collect
<1>2. inhibited = 0 /\ UNCHANGED <<vector, threshold, lock, inhibited, work, pc, my, request>>
  BY DEF Collect, Keep, threadVars
<1> DEFINE moved(v) == vectors[v].moved \/ \E i \in Entries(vectors[v].slots) :
                           LET key == vectors[v].slots[i].key IN new[key] # address[key]
<1>3. ASSUME NEW v \in Vectors
      PROVE  /\ vectors'[v] = [vectors[v] EXCEPT !.moved = moved(v)]
             /\ vectors'[v] \in Tables /\ vectors'[v].slots = vectors[v].slots
             /\ vectors'[v].moved = moved(v) /\ moved(v) \in BOOLEAN
  <2>1. vectors[v] \in Tables
    BY TableParts
  <2>2. moved(v) \in BOOLEAN
    BY <2>1 DEF Tables
  <2>3. vectors'[v] = [vectors[v] EXCEPT !.moved = moved(v)]
    BY <1>1, <2>1 DEF Tables
  <2> HIDE DEF moved
  <2> QED
    BY <2>1, <2>2, <2>3 DEF Tables
<1>4. vectors' \in [Vectors -> Tables] /\ Slots' = Slots
  <2>1. DOMAIN vectors' = Vectors
    BY <1>1
  <2>2. vectors' = [v \in Vectors |-> vectors'[v]]
    BY <1>1
  <2>3. Slots' = Slots
    BY <1>2, <1>3, TableParts DEF Slots, Vector
  <2> QED
    BY <1>3, <2>2, <2>3
<1>5. address' \in [Keys -> Int]
  BY <1>1, SizesAssumption
<1>6. \A t \in Threads : my[t].inhibits = 0
  <2> SUFFICES ASSUME NEW t \in Threads PROVE my[t].inhibits = 0
    OBVIOUS
  <2>1. my[t].inhibits \in 0..1
    BY OfThread DEF Locals
  <2> QED
    BY <1>2, <2>1, CountTaken DEF Structure
<1>7. Shape'
  BY <1>2, <1>4, <1>5 DEF Structure, Shape, Calls
<1>8. Balanced'
  BY <1>2, SameBalance DEF Structure
<1>9. ThreadInv'
  <2> SUFFICES ASSUME NEW t \in Threads PROVE (OpAt(t) /\ InhibitsAt(t) /\ UnmovedAt(t))'
    BY DEF ThreadInv
  <2>1. OpAt(t) /\ InhibitsAt(t) /\ my[t].inhibits = 0
    BY <1>6, OfThread
  <2> QED
    BY <1>2, <2>1 DEF OpAt, InhibitsAt, UnmovedAt, AfterTest
<1>10. LockInv'
  BY <1>2 DEF LockInv, LockAt, Structure
<1>11. \A v \in Vectors : HeldBy(v, Threads)' <=> HeldBy(v, Threads)
  BY <1>2 DEF HeldBy
<1>12. WorkInv'
  <2> SUFFICES ASSUME NEW t \in Threads PROVE RehashAt(t)' /\ CopyAt(t)'
    BY <1>2 DEF WorkInv, Structure
  <2>1. RehashAt(t) /\ CopyAt(t)
    BY OfThread
  <2>2. RehashAt(t)'
    BY <1>2, <1>4, <2>1 DEF RehashAt, Entries
  <2>3. CopyAt(t)'
    <3> SUFFICES ASSUME pc[t] \in {"copy", "place"} PROVE CopyAt(t)'
      BY <1>2 DEF CopyAt
    <3>1. work.to \in Vectors
      BY CopyParts
    <3> QED
      BY <1>2, <1>3, <1>4, <1>11, <2>1, <3>1 DEF CopyAt
  <2> QED
    BY <2>2, <2>3
<1>13. HeldInv'
  <2> SUFFICES ASSUME NEW v \in Vectors \ {vector, work.to}
               PROVE  IF HeldBy(v, Threads)
                        THEN /\ Len(vectors'[v].slots) > 0 /\ ~vectors'[v].moved
                             /\ \A i \in DOMAIN vectors'[v].slots : vectors'[v].slots[i].key = Zero
                        ELSE vectors'[v] = Unused
    BY <1>2, <1>4, <1>11 DEF HeldInv, Structure
  <2>1. IF HeldBy(v, Threads)
          THEN /\ Len(vectors[v].slots) > 0 /\ ~vectors[v].moved
               /\ \A i \in DOMAIN vectors[v].slots : vectors[v].slots[i].key = Zero
          ELSE vectors[v] = Unused
    BY DEF HeldInv, Structure
  <2>2. Entries(vectors[v].slots) = {} /\ vectors[v].moved = FALSE
    <3>1. vectors[v].moved \in BOOLEAN
      BY TableParts DEF Tables
    <3>2. CASE HeldBy(v, Threads)
      BY <2>1, <3>1, <3>2, KeysAssumption DEF Entries
    <3>3. CASE ~HeldBy(v, Threads)
      BY <2>1, <3>3 DEF Entries, Unused
    <3> QED
      BY <3>2, <3>3
  <2>3. moved(v) = FALSE
    BY <2>2
  <2>4. vectors[v] = Unused => vectors'[v] = Unused
    <3>1. \A r \in Tables : r.moved = FALSE => [r EXCEPT !.moved = FALSE] = r
      BY DEF Tables
    <3> HIDE DEF moved
    <3> QED
      BY <1>3, <2>2, <2>3, <3>1, TableParts
  <2> HIDE DEF moved
  <2> QED
    BY <1>3, <2>1, <2>3, <2>4
<1> QED
  BY <1>7, <1>8, <1>9, <1>10, <1>12, <1>13 DEF Structure

(* The structure of the first state.                                       *)
LEMMA InitStructure == ASSUME Init PROVE Structure
<1>1. PICK slots \in [1..MinSize + Slack -> {Slot(Free, Free)} \cup {Slot(k, SomeValue) : k \in Keys}] :
           /\ vectors = [v \in Vectors |->
                  IF v # 1 THEN Unused
                  ELSE [Unused EXCEPT !.slots = slots, !.count = Cardinality(Entries(slots))]]
           /\ threshold = MinSize - Cardinality(Entries(slots))
  BY DEF Init
<1>2. /\ vector = 1 /\ lock = [readers |-> {}, writer |-> None] /\ inhibited = 0 /\ work = NoWork
      /\ pc = [t \in Threads |-> "idle"] /\ my = [t \in Threads |-> NoLocals]
      /\ request = [t \in Threads |-> Idle]
  BY DEF Init
<1> DEFINE c == Cardinality(Entries(slots))
<1>3. MinSize + Slack \in Nat /\ MinSize + Slack > 0 /\ MinSize \in Nat
  BY SizesAssumption
<1>4. slots \in Seq(Cells) /\ Len(slots) = MinSize + Slack /\ DOMAIN slots = 1..MinSize + Slack
  <2>1. SomeValue \in Values
    BY KeysAssumption DEF SomeValue
  <2>2. {Slot(Free, Free)} \cup {Slot(k, SomeValue) : k \in Keys} \subseteq Cells
    BY <2>1 DEF Slot, Cells, Words
  <2>3. slots \in [1..MinSize + Slack -> Cells]
    BY <2>2
  <2> QED
    BY <1>3, <2>3
<1>5. c \in Nat
  <2>1. Entries(slots) \subseteq 1..MinSize + Slack
    BY <1>4 DEF Entries
  <2>2. IsFiniteSet(Entries(slots))
    <3>2. \A n \in Nat : IsFiniteSet(1..n)
      BY FS_Interval
    <3>1. IsFiniteSet(1..MinSize + Slack)
      BY <1>3, <3>2
    <3> QED
      BY <2>1, <3>1, FS_Subset
  <2> QED
    BY <2>2, FS_CardinalityType
<1>6. Unused \in Tables /\ 1 \in Vectors
  BY ConstantTypes DEF Tables, Unused, NoCache, Words, Cells
<1> DEFINE first == [Unused EXCEPT !.slots = slots, !.count = c]
<1>7. first \in Tables /\ first.slots = slots
  <2>1. c \in Int
    BY <1>5
  <2>2. PICK tb \in Tables, s \in Seq(Cells), k \in Int : tb = Unused /\ s = slots /\ k = c
    BY <1>4, <1>6, <2>1
  <2>3. first = [tb EXCEPT !.slots = s, !.count = k]
    BY <2>2
  <2> HIDE DEF first
  <2>4. first \in Tables /\ first.slots = s
    BY <2>3 DEF Tables
  <2> QED
    BY <2>2, <2>4
<1>8. vectors = [v \in Vectors |-> IF v # 1 THEN Unused ELSE first]
  BY <1>1
<1> HIDE DEF first, c
<1>9. vectors \in [Vectors -> Tables] /\ vectors[1] = first /\ Slots = slots
  BY <1>2, <1>6, <1>7, <1>8 DEF Slots, Vector
<1>10. address \in [Keys -> Int]
  <2> DEFINE P(a) == \A j, k \in Keys : j # k => a[j] # a[k]
  <2>1. address = CHOOSE a \in [Keys -> Consed] : P(a)
    BY DEF Init
  <2>2. \E a \in [Keys -> Consed] : P(a)
    BY KeysAssumption
  <2>3. address \in [Keys -> Consed]
    <3> HIDE DEF P
    <3> QED
      BY <2>1, <2>2
  <2>4. Consed \subseteq Int
    BY KeysAssumption, FS_CardinalityType, SizesAssumption DEF Consed
  <2> QED
    BY <2>3, <2>4
<1>11. Shape
  <2>1. work \in Works /\ lock \in Locks
    BY <1>2 DEF Works, NoWork, Empty, Hands, Words, Locks
  <2>2. pc \in [Threads -> Points] /\ my \in [Threads -> Locals]
    BY <1>2 DEF Points, NoLocals, Locals, Words
  <2>3. threshold \in Int
    BY <1>1, <1>3, <1>5 DEF c
  <2>4. /\ request \in [Threads -> {Idle} \cup UNION {Calls(t) : t \in Threads}]
        /\ \A t \in Threads : request[t] \in {Idle} \cup Calls(t)
    BY <1>2
  <2> QED
    BY <1>2, <1>6, <1>9, <1>10, <2>1, <2>2, <2>3, <2>4 DEF Shape
<1>12. ThreadInv
  BY <1>2 DEF ThreadInv, OpAt, InhibitsAt, UnmovedAt, NoLocals, Idle
<1>13. LockInv
  BY <1>2, ConstantTypes DEF LockInv, LockAt, AtWork
<1>14. WorkInv
  BY <1>2 DEF WorkInv, RehashAt, CopyAt
<1>15. HeldInv
  <2>1. \A v \in Vectors : ~HeldBy(v, Threads)
    BY <1>2, ConstantTypes DEF HeldBy, NoLocals
  <2> QED
    BY <1>2, <1>3, <1>4, <1>8, <1>9, <2>1 DEF HeldInv
<1>16. Balanced
  <2>1. {t \in Threads : my[t].inhibits = 1} = {}
    BY <1>2 DEF NoLocals
  <2> QED
    BY <1>2, <2>1, FS_EmptySet DEF Balanced
<1> QED
  BY <1>11, <1>12, <1>13, <1>14, <1>15, <1>16 DEF Structure

(* The structure in a step that changes nothing.                           *)
LEMMA SameStructure == ASSUME Structure, UNCHANGED vars PROVE Structure'
<1>1. UNCHANGED <<vector, vectors, threshold, lock, inhibited, work, address, pc, request, my>>
  BY DEF vars, tableVars, threadVars
<1>2. Shape'
  BY <1>1 DEF Structure, Shape, Calls
<1>3. ThreadInv'
  BY <1>1 DEF Structure, ThreadInv, OpAt, InhibitsAt, UnmovedAt, AfterTest, Vector
<1>4. LockInv' /\ Balanced'
  BY <1>1 DEF Structure, LockInv, LockAt, Balanced
<1>5. WorkInv'
  BY <1>1 DEF Structure, WorkInv, RehashAt, CopyAt, HeldBy, Slots, Vector, Entries
<1>6. HeldInv'
  BY <1>1 DEF Structure, HeldInv, HeldBy, Slots, Vector
<1> QED
  BY <1>2, <1>3, <1>4, <1>5, <1>6 DEF Structure

(* The structure is kept by every step, whatever the constants.            *)
LEMMA NextStructure == ASSUME Structure, Next PROVE Structure'
<1>1. CASE Collect
  BY <1>1, StepCollect
<1>2. ASSUME NEW t \in Threads, Call(t) PROVE Structure'
  BY <1>2, StepCall
<1>3. ASSUME NEW t \in Threads, Step(t) PROVE Structure'
  BY <1>3, StepReadLock, StepWriteLock, StepInhibitGC, StepFind, StepPromoteAlone,
     StepReleaseToPromote, StepPromoted, StepTest, StepRehashSlot, StepDisplace, StepEndRehash,
     StepPut, StepRemove, StepClear, StepPutNeedsRoom, StepGrow, StepCopySlot, StepPlaceEntry,
     StepInstall, StepEnableGC, StepUnlock DEF Step
<1> QED
  BY <1>1, <1>2, <1>3 DEF Next

(* The structure of the table, its lock and its threads: who has the lock  *)
(* for what, how often each thread has inhibited the collector, which      *)
(* vectors are live, held or zeroed, where the rehash and the growth are.  *)
THEOREM StructureHolds == Spec => []Structure
<1>1. Init => Structure
  BY InitStructure
<1>2. Structure /\ [Next]_vars => Structure'
  BY NextStructure, SameStructure
<1> QED
  BY <1>1, <1>2, PTL DEF Spec

(* with-lock-context: the count that keeps the collector out is the number *)
(* of operations that have taken it and not given it back, whatever the    *)
(* interleaving of promotions, rehashes, growth and returns (l0-hash.lisp: *)
(* %lock-gc-lock and %unlock-gc-lock).                                     *)
THEOREM Inhibition == Spec => []InhibitionBalanced
<1>1. Structure => InhibitionBalanced
  <2> SUFFICES ASSUME Structure PROVE InhibitionBalanced
    OBVIOUS
  <2>1. \A t \in Threads : my[t].inhibits \in 0..1 /\ (pc[t] = "idle" => my[t].inhibits = 0)
    BY OfThread DEF Locals, InhibitsAt
  <2> QED
    BY <2>1 DEF InhibitionBalanced, Structure, Balanced
<1> QED
  BY <1>1, StructureHolds, PTL


-----------------------------------------------------------------------------
Num(b) == IF b THEN 1 ELSE 0

(* A walk from an address comes to a slot through slots of a set.          *)
Walk(slots, s, a, pass) ==
    \E i \in 0..Len(slots)-1 :
        At(slots, a, i) = s /\ \A j \in 0..i-1 : At(slots, a, j) \in pass

(* Slots by what they hold, a store, and their numbers.                    *)
Of(slots, key) == {i \in DOMAIN slots : slots[i].key = key}
Write(slots, i, cell) == [slots EXCEPT ![i] = cell]
Slotted(slots, key) == Cardinality(Of(slots, key))
Filled(slots) == Cardinality(Entries(slots))
Taken(slots) == {i \in DOMAIN slots : slots[i].key # Free}

(* From its key's address a walk comes to each entry before a free slot.   *)
OneWay(slots) == \A i \in Entries(slots) : Walk(slots, i, address[slots[i].key], Taken(slots))

(* What is in use holds keys and marks, each key once.                     *)
Kinds(slots) ==
    \A i \in DOMAIN slots :
        /\ slots[i].key \in Keys \cup {Free, Deleted}
        /\ slots[i].key \in Keys => slots[i].value \in Values
Unique(slots) == \A i, j \in Entries(slots) : slots[i].key = slots[j].key => i = j

(* An entry is in the hand of the rehasher only; its rehashed entries.     *)
Aloft == work.to = 0 /\ work.hand.key \in Keys /\ work.hand.from # work.index
Was == work.done \ {work.hand.to}

(* The cached pair is in the slot that was cached.                         *)
CacheInv ==
    LET c == Vector.cached IN
    c.key \in Keys => c.slot \in DOMAIN Slots /\ Slots[c.slot] = Slot(c.key, c.value)

(* The counts are those of the slots; an entry in the air has left one.    *)
CountInv ==
    /\ Vector.count = Filled(Slots) + Num(Aloft)
    /\ Vector.deleted = Slotted(Slots, Deleted)
    /\ threshold >= 0 /\ threshold + Slack + Num(Aloft) = Slotted(Slots, Free)

(* At rest a vector that is not flagged is in order.                       *)
RestInv == work = NoWork /\ ~Vector.moved => OneWay(Slots)

(* The rehash has left no entry behind it that is not rehashed, and those  *)
(* that are rehashed are found over rehashed slots only, so whatever the   *)
(* rehash takes away later is not on their ways.                           *)
RehashInv ==
    work.back # "none" =>
        /\ Vector.cached = NoCache
        /\ \A s \in Entries(Slots) : s < work.index => s \in Was
        /\ ~Vector.moved => \A s \in Was : Walk(Slots, s, address[Slots[s].key], Was)

(* The entry in hand is going where its walk over rehashed slots ends.     *)
HandInv ==
    LET hand == work.hand IN
    work.back # "none" /\ hand.key \in Keys =>
        /\ hand.value \in Values
        /\ ~Vector.moved => Walk(Slots, hand.to, address[hand.key], Was)
        /\ IF hand.from = work.index THEN Slots[hand.from] = Slot(hand.key, hand.value)
           ELSE hand.from \in Was /\ \A s \in Entries(Slots) : Slots[s].key # hand.key

Grown == vectors[work.to]
Below == {i \in Entries(Slots) : i < work.index}

(* The vector to be is in order, and holds what has been copied.           *)
CopyInv ==
    work.to # 0 =>
        /\ work.back = "none"
        /\ Len(Grown.slots) = NewSize(Vector.count) + Slack
        /\ Grown.deleted = 0 /\ Grown.cached = NoCache
        /\ Kinds(Grown.slots) /\ Of(Grown.slots, Deleted) = {} /\ Unique(Grown.slots)
        /\ {Grown.slots[i] : i \in Entries(Grown.slots)} = {Slots[i] : i \in Below}
        /\ Filled(Grown.slots) = Cardinality(Below)
        /\ ~Grown.moved => OneWay(Grown.slots)

(* The entry to be placed is still going where its walk ends.              *)
PlaceInv ==
    LET hand == work.hand IN
    work.to # 0 /\ hand.key \in Keys =>
        /\ Slots[work.index] = Slot(hand.key, hand.value)
        /\ hand.to \in Of(Grown.slots, Free)
        /\ Walk(Grown.slots, hand.to, address[hand.key], Taken(Grown.slots))

(* The inductive invariant, on top of Structure.                           *)
Order ==
    /\ Kinds(Slots) /\ Unique(Slots) /\ CacheInv /\ CountInv
    /\ RestInv /\ RehashInv /\ HandInv /\ CopyInv /\ PlaceInv

-----------------------------------------------------------------------------
(* Walks go through vectors of the same length alike.                      *)
LEMMA WalkStays ==
  ASSUME NEW s1, NEW s2, Len(s1) = Len(s2), NEW s, NEW a, NEW pass, NEW more,
         pass \subseteq more, Walk(s1, s, a, pass)
  PROVE  Walk(s2, s, a, more)
<1>1. \A i : At(s1, a, i) = At(s2, a, i)
  BY DEF At
<1>2. PICK i \in 0..Len(s1)-1 : At(s1, a, i) = s /\ \A j \in 0..i-1 : At(s1, a, j) \in pass
  BY DEF Walk
<1>3. i \in 0..Len(s2)-1 /\ At(s2, a, i) = s /\ \A j \in 0..i-1 : At(s2, a, j) \in more
  BY <1>1, <1>2
<1> QED
  BY <1>3 DEF Walk

(* A vector whose entries are all on their ways is in order, and a vector  *)
(* in order holds a key once, where the walk ends.                         *)
LEMMA InOrderIs ==
  ASSUME NEW slots \in Seq(Cells), address \in [Keys -> Int], Unique(slots), OneWay(slots)
  PROVE  InOrder(slots)
<1> SUFFICES ASSUME NEW e \in Entries(slots)
             PROVE  Probe(slots, address[slots[e].key], {Free, slots[e].key}) = e
  BY DEF InOrder
<1> DEFINE key == slots[e].key
<1> DEFINE a == address[key]
<1> DEFINE s == Probe(slots, a, {Free, key})
<1>1. /\ e \in 1..Len(slots) /\ key \in Keys /\ a \in Int /\ Len(slots) \in Nat /\ DOMAIN slots = 1..Len(slots)
  BY DEF Entries
<1> DEFINE hits == {i \in 0..Len(slots) - 1 : slots[At(slots, a, i)].key \in {Free, key}}
<1>2. PICK w \in 0..Len(slots)-1 : At(slots, a, w) = e /\ \A j \in 0..w-1 : At(slots, a, j) \in Taken(slots)
  BY DEF OneWay, Walk
<1>3. w \in hits /\ hits \subseteq Nat
  BY <1>2
<1> DEFINE m == Min(hits)
<1>4. m \in hits /\ m <= w
  <2> HIDE DEF hits
  <2> QED
    BY <1>3, LeastIs
<1>5. s = At(slots, a, m)
  BY <1>3 DEF Probe
<1>9. m \in 0..Len(slots)-1 /\ slots[At(slots, a, m)].key \in {Free, key}
  BY <1>4
<1> HIDE DEF m, hits
<1>6. CASE m = w
  BY <1>2, <1>5, <1>6
<1>7. CASE m < w
  <2>1. m \in 0..w-1 /\ slots[At(slots, a, m)].key \in {Free, key}
    BY <1>7, <1>9
  <2>2. At(slots, a, m) \in Taken(slots)
    BY <1>2, <2>1
  <2>3. slots[At(slots, a, m)].key = key /\ At(slots, a, m) \in Entries(slots)
    BY <1>1, <2>1, <2>2 DEF Taken, Entries
  <2>4. At(slots, a, m) = e
    BY <2>3 DEF Unique
  <2> QED
    BY <1>5, <2>4
<1>8. m < w \/ m = w
  BY <1>2, <1>4, <1>9
<1> QED
  BY <1>6, <1>7, <1>8

(* A vector in order holds a key once, and its entries are on their ways.  *)
LEMMA InOrderGives ==
  ASSUME NEW slots \in Seq(Cells), address \in [Keys -> Int], InOrder(slots)
  PROVE  Unique(slots) /\ OneWay(slots)
<1>1. Unique(slots)
  BY DEF InOrder, Unique
<1>2. ASSUME NEW e \in Entries(slots) PROVE Walk(slots, e, address[slots[e].key], Taken(slots))
  <2> DEFINE key == slots[e].key
  <2> DEFINE a == address[key]
  <2>1. e \in 1..Len(slots) /\ key \in Keys /\ a \in Int /\ Len(slots) \in Nat /\ Len(slots) > 0
    BY DEF Entries
  <2>2. Probe(slots, a, {Free, key}) = e /\ e # 0
    <3>1. Probe(slots, a, {Free, key}) = e
      BY Zenon DEF InOrder
    <3> QED
      BY <2>1, <3>1
  <2>3. PICK i \in 0..Len(slots)-1 :
            e = At(slots, a, i) /\ \A j \in 0..i-1 : slots[At(slots, a, j)].key \notin {Free, key}
    <3> HIDE DEF a, key
    <3> QED
      BY <2>1, <2>2, ProbeIs
  <2>4. \A j \in 0..i-1 : At(slots, a, j) \in 1..Len(slots)
    BY <2>1, AtIsSlot
  <2>5. \A j \in 0..i-1 : At(slots, a, j) \in Taken(slots)
    BY <2>3, <2>4 DEF Taken
  <2> QED
    BY <2>3, <2>5 DEF Walk
<1> QED
  BY <1>1, <1>2 DEF OneWay

-----------------------------------------------------------------------------
(* The cardinality of a set that a member may join or leave.               *)
LEMMA SetStored ==
  ASSUME NEW S, IsFiniteSet(S), NEW x, NEW T, T = S \cup {x} \/ T = S \ {x}
  PROVE  /\ Cardinality(S) \in Nat
         /\ (x \in S <=> x \in T) => Cardinality(T) = Cardinality(S)
         /\ x \notin S /\ x \in T => Cardinality(T) = Cardinality(S) + 1
         /\ x \in S /\ x \notin T => Cardinality(T) = Cardinality(S) - 1
<1>1. Cardinality(S) \in Nat
  BY FS_CardinalityType
<1>2. (x \in S <=> x \in T) => T = S
  OBVIOUS
<1>3. ASSUME x \notin S, x \in T PROVE Cardinality(T) = Cardinality(S) + 1
  <2>1. T = S \cup {x}
    BY <1>3
  <2> QED
    BY <1>3, <2>1, FS_AddElement
<1>4. ASSUME x \in S, x \notin T PROVE Cardinality(T) = Cardinality(S) - 1
  <2>1. T = S \ {x}
    BY <1>4
  <2> QED
    BY <1>4, <2>1, FS_RemoveElement
<1> QED
  BY <1>1, <1>2, <1>3, <1>4

(* The sets of slots of a vector are finite.                               *)
LEMMA FiniteSlots ==
  ASSUME NEW slots \in Seq(Cells)
  PROVE  /\ DOMAIN slots = 1..Len(slots) /\ Len(slots) \in Nat
         /\ Entries(slots) \subseteq 1..Len(slots) /\ IsFiniteSet(Entries(slots))
         /\ \A key : IsFiniteSet(Of(slots, key)) /\ Of(slots, key) \subseteq 1..Len(slots)
<1>1. DOMAIN slots = 1..Len(slots) /\ Len(slots) \in Nat
  OBVIOUS
<1>2. IsFiniteSet(1..Len(slots))
  BY <1>1, FS_Interval
<1>3. Entries(slots) \subseteq 1..Len(slots) /\ \A key : Of(slots, key) \subseteq 1..Len(slots)
  BY <1>1 DEF Entries, Of
<1> QED
  BY <1>1, <1>2, <1>3, FS_Subset

(* What a store into a slot does to the vector.                            *)
LEMMA Stored ==
  ASSUME NEW slots \in Seq(Cells), NEW i \in 1..Len(slots), NEW c \in Cells
  PROVE  LET s == Write(slots, i, c) IN
         /\ s \in Seq(Cells) /\ Len(s) = Len(slots) /\ DOMAIN s = 1..Len(slots)
         /\ s[i] = c /\ \A j \in 1..Len(slots) : j # i => s[j] = slots[j]
BY CellStored DEF Write

(* What a store does to the set of entries and to their number.            *)
LEMMA StoredFilled ==
  ASSUME NEW slots \in Seq(Cells), NEW i \in 1..Len(slots), NEW c \in Cells
  PROVE  LET s == Write(slots, i, c) IN
         /\ (c.key \in Keys <=> slots[i].key \in Keys) => Filled(s) = Filled(slots)
         /\ c.key \in Keys /\ slots[i].key \notin Keys => Filled(s) = Filled(slots) + 1
         /\ c.key \notin Keys /\ slots[i].key \in Keys => Filled(s) = Filled(slots) - 1
         /\ Filled(slots) \in Nat
<1> DEFINE s == Write(slots, i, c)
<1>1. /\ s \in Seq(Cells) /\ Len(s) = Len(slots) /\ DOMAIN s = 1..Len(slots)
      /\ s[i] = c /\ \A j \in 1..Len(slots) : j # i => s[j] = slots[j]
  BY ZenonT(60), Stored
<1> HIDE DEF s
<1>2. DOMAIN slots = 1..Len(slots) /\ IsFiniteSet(Entries(slots))
  BY FiniteSlots
<1>3. Entries(s) = Entries(slots) \cup {i} \/ Entries(s) = Entries(slots) \ {i}
  <2>1. CASE c.key \in Keys
    BY <1>1, <1>2, <2>1 DEF Entries
  <2>2. CASE c.key \notin Keys
    BY <1>1, <1>2, <2>2 DEF Entries
  <2> QED
    BY <2>1, <2>2
<1>4. (slots[i].key \in Keys <=> i \in Entries(slots)) /\ (c.key \in Keys <=> i \in Entries(s))
  BY <1>1, <1>2 DEF Entries
<1>5. PICK S : S = Entries(slots)
  OBVIOUS
<1>6. PICK T : T = Entries(s)
  OBVIOUS
<1>7. IsFiniteSet(S) /\ (T = S \cup {i} \/ T = S \ {i})
  BY <1>2, <1>3, <1>5, <1>6
<1>8. Cardinality(S) \in Nat
  BY <1>7, SetStored
<1>9. (i \in S <=> i \in T) => Cardinality(T) = Cardinality(S)
  BY <1>7, SetStored
<1>10. i \notin S /\ i \in T => Cardinality(T) = Cardinality(S) + 1
  BY <1>7, SetStored
<1>11. i \in S /\ i \notin T => Cardinality(T) = Cardinality(S) - 1
  BY <1>7, SetStored
<1> QED
  BY <1>4, <1>5, <1>6, <1>8, <1>9, <1>10, <1>11 DEF Filled, s

(* The same of the slots with a key or with a mark.                        *)
LEMMA StoredOf ==
  ASSUME NEW slots \in Seq(Cells), NEW i \in 1..Len(slots), NEW c \in Cells, NEW key
  PROVE  LET s == Write(slots, i, c) IN
         /\ (c.key = key <=> slots[i].key = key) => Slotted(s, key) = Slotted(slots, key)
         /\ c.key = key /\ slots[i].key # key => Slotted(s, key) = Slotted(slots, key) + 1
         /\ c.key # key /\ slots[i].key = key => Slotted(s, key) = Slotted(slots, key) - 1
         /\ Slotted(slots, key) \in Nat
<1> DEFINE s == Write(slots, i, c)
<1>1. /\ s \in Seq(Cells) /\ Len(s) = Len(slots) /\ DOMAIN s = 1..Len(slots)
      /\ s[i] = c /\ \A j \in 1..Len(slots) : j # i => s[j] = slots[j]
  BY ZenonT(60), Stored
<1> HIDE DEF s
<1>2. DOMAIN slots = 1..Len(slots) /\ IsFiniteSet(Of(slots, key))
  BY FiniteSlots
<1>3. Of(s, key) = Of(slots, key) \cup {i} \/ Of(s, key) = Of(slots, key) \ {i}
  <2>1. CASE c.key = key
    BY <1>1, <1>2, <2>1 DEF Of
  <2>2. CASE c.key # key
    BY <1>1, <1>2, <2>2 DEF Of
  <2> QED
    BY <2>1, <2>2
<1>4. (slots[i].key = key <=> i \in Of(slots, key)) /\ (c.key = key <=> i \in Of(s, key))
  BY <1>1, <1>2 DEF Of
<1>5. PICK S : S = Of(slots, key)
  OBVIOUS
<1>6. PICK T : T = Of(s, key)
  OBVIOUS
<1>7. IsFiniteSet(S) /\ (T = S \cup {i} \/ T = S \ {i})
  BY <1>2, <1>3, <1>5, <1>6
<1>8. Cardinality(S) \in Nat
  BY <1>7, SetStored
<1>9. (i \in S <=> i \in T) => Cardinality(T) = Cardinality(S)
  BY <1>7, SetStored
<1>10. i \notin S /\ i \in T => Cardinality(T) = Cardinality(S) + 1
  BY <1>7, SetStored
<1>11. i \in S /\ i \notin T => Cardinality(T) = Cardinality(S) - 1
  BY <1>7, SetStored
<1> QED
  BY <1>4, <1>5, <1>6, <1>8, <1>9, <1>10, <1>11 DEF Slotted, s

(* Nothing in hand.                                                        *)
LEMMA EmptyHand ==
  ASSUME work.hand = Empty
  PROVE  work.hand.key \notin Keys /\ ~Aloft /\ Num(Aloft) = 0
<1>1. work.hand.key \notin Keys
  BY KeysAssumption DEF Empty
<1> QED
  BY <1>1 DEF Aloft, Num

(* Nobody rehashes or grows.                                               *)
LEMMA AtRest ==
  ASSUME work = NoWork
  PROVE  /\ work.hand = Empty /\ work.to = 0 /\ work.back = "none" /\ work.index = 0 /\ work.done = {}
         /\ work.hand.key \notin Keys /\ ~Aloft /\ Num(Aloft) = 0
<1>1. work.hand = Empty /\ work.to = 0 /\ work.back = "none" /\ work.index = 0 /\ work.done = {}
  BY DEF NoWork
<1> QED
  BY <1>1, EmptyHand

(* A step that leaves the order alone.                                     *)
LEMMA SameOrder ==
  ASSUME Order, UNCHANGED <<vector, threshold, work, address>>, Vector' = Vector,
         work.to # 0 => Grown' = Grown
  PROVE  Order'
<1>1. Slots' = Slots /\ Entries(Slots)' = Entries(Slots) /\ Aloft' = Aloft /\ Was' = Was /\ Below' = Below
  BY DEF Slots, Entries, Aloft, Was, Below
<1>2. Kinds(Slots)' /\ Unique(Slots)' /\ CacheInv' /\ CountInv'
  BY <1>1 DEF Order, Kinds, Unique, CacheInv, CountInv, Filled, Slotted, Of, Num
<1>3. RestInv' /\ RehashInv' /\ HandInv'
  BY <1>1 DEF Order, RestInv, RehashInv, HandInv, OneWay, Taken, Walk
<1>4. CopyInv'
  <2> SUFFICES ASSUME work.to # 0 PROVE CopyInv'
    BY DEF CopyInv
  <2>1. Grown' = Grown /\ CopyInv
    BY DEF Order
  <2>2. /\ Kinds(Grown.slots)' = Kinds(Grown.slots) /\ Unique(Grown.slots)' = Unique(Grown.slots)
        /\ Of(Grown.slots, Deleted)' = Of(Grown.slots, Deleted)
        /\ Entries(Grown.slots)' = Entries(Grown.slots)
    BY <2>1 DEF Kinds, Unique, Of, Entries
  <2>3. OneWay(Grown.slots)' = OneWay(Grown.slots)
    BY <2>1 DEF OneWay, Taken, Walk, Entries
  <2>4. {Grown.slots[i] : i \in Entries(Grown.slots)}' = {Grown.slots[i] : i \in Entries(Grown.slots)}
        /\ {Slots[i] : i \in Below}' = {Slots[i] : i \in Below}
    BY <1>1, <2>1, <2>2
  <2> QED
    BY <1>1, <2>1, <2>2, <2>3, <2>4 DEF CopyInv, Filled
<1>5. PlaceInv'
  BY <1>1 DEF Order, PlaceInv, Of, Taken, Walk
<1> QED
  BY <1>2, <1>3, <1>4, <1>5 DEF Order

(* The order while no vector is filled.                                    *)
LEMMA NotCopying ==
  ASSUME work.to = 0
  PROVE  CopyInv /\ PlaceInv
BY DEF CopyInv, PlaceInv

(* The order while nobody rehashes.                                        *)
LEMMA NotRehashing ==
  ASSUME work.back = "none"
  PROVE  RehashInv /\ HandInv
BY DEF RehashInv, HandInv

(* The rehash begins: nothing is in its place yet.                         *)
LEMMA StartOrder ==
  ASSUME Structure, Order, work = NoWork, NEW t, NEW back \in {"find", "put", "rem", "inhibit"},
         StartRehash(t, back)
  PROVE  Order'
<1>1. /\ vectors' = [vectors EXCEPT ![vector] = [Vector EXCEPT !.moved = FALSE, !.cached = NoCache]]
      /\ work' = [NoWork EXCEPT !.index = 1, !.back = back]
      /\ UNCHANGED <<vector, threshold, address>>
  BY DEF StartRehash, Update, Keep
<1>2. Vector' = [Vector EXCEPT !.moved = FALSE, !.cached = NoCache]
  BY <1>1, TableParts DEF Vector
<1>3. /\ Vector'.slots = Vector.slots /\ Vector'.cached = NoCache
      /\ Vector'.count = Vector.count /\ Vector'.deleted = Vector.deleted
  BY <1>2, TableParts DEF Tables
<1>4. Slots' = Slots
  BY <1>3 DEF Slots
<1>5. /\ work'.hand = Empty /\ work'.to = 0 /\ work'.back # "none" /\ work'.index = 1 /\ work'.done = {}
      /\ work' # NoWork
  BY <1>1 DEF NoWork
<1>6. work'.hand.key \notin Keys /\ ~Aloft' /\ Num(Aloft)' = 0 /\ Num(Aloft) = 0
  <2>1. work'.hand.key \notin Keys
    BY <1>5, KeysAssumption DEF Empty
  <2> QED
    BY <2>1, AtRest DEF Aloft, Num
<1>7. Kinds(Slots)' /\ Unique(Slots)'
  BY <1>4 DEF Order, Kinds, Unique, Entries
<1>8. CacheInv'
  BY <1>3, KeysAssumption DEF CacheInv, NoCache
<1>9. CountInv'
  BY <1>1, <1>3, <1>4, <1>6 DEF Order, CountInv, Filled, Slotted, Of, Entries
<1>10. RehashInv'
  <2>1. Was' = {}
    BY <1>5 DEF Was
  <2>2. \A s \in Entries(Slots) : ~(s < 1)
    BY TableParts DEF Entries
  <2> QED
    BY <1>3, <1>4, <1>5, <2>1, <2>2 DEF RehashInv, Entries
<1>11. RestInv' /\ HandInv'
  BY <1>5, <1>6 DEF RestInv, HandInv
<1>12. CopyInv' /\ PlaceInv'
  BY <1>5 DEF CopyInv, PlaceInv
<1> QED
  BY <1>7, <1>8, <1>9, <1>10, <1>11, <1>12 DEF Order

(* What the thread that rehashes knows.                                    *)
LEMMA RehashParts ==
  ASSUME Structure, NEW t \in Threads, pc[t] \in {"rehash", "displace"}
  PROVE  /\ RehashAt(t) /\ work.to = 0 /\ work.back # "none" /\ work # NoWork /\ work.index \in 1..Len(Slots) + 1
         /\ pc[t] = "rehash" => work.hand = Empty /\ Was = work.done /\ work.done \subseteq Entries(Slots)
         /\ Was \subseteq Entries(Slots)
<1>1. RehashAt(t) /\ OpAt(t) /\ work.to = 0 /\ work.index \in 1..Len(Slots) + 1
  BY OfThread DEF RehashAt
<1>2. work.back # "none"
  <2>1. request[t] \in {Idle} \cup Calls(t) /\ request[t] # Idle
    BY <1>1 DEF OpAt, Structure, Shape
  <2>2. request[t].op \in {"get", "rem", "put", "clr"}
    BY <2>1, CallParts
  <2> QED
    BY <1>1, <2>2 DEF OpAt, AfterTest
<1>3. pc[t] = "rehash" => work.hand = Empty /\ Was = work.done /\ work.done \subseteq Entries(Slots)
  <2> SUFFICES ASSUME pc[t] = "rehash"
               PROVE  work.hand = Empty /\ Was = work.done /\ work.done \subseteq Entries(Slots)
    OBVIOUS
  <2>1. work.hand = Empty /\ work.done \subseteq Entries(Slots)
    BY <1>1 DEF RehashAt
  <2>2. 0 \notin work.done
    BY <2>1, TableParts DEF Entries
  <2> QED
    BY <2>1, <2>2 DEF Was, Empty
<1>4. Was \subseteq Entries(Slots)
  BY <1>1, <1>3 DEF RehashAt, Was
<1> QED
  BY <1>1, <1>2, <1>3, <1>4 DEF NoWork

(* The slot that a key in hand gets has no rehashed entry.                 *)
LEMMA ProbeIsNew ==
  ASSUME NEW slots \in Seq(Cells), Unique(slots), NEW key \in Keys, address[key] \in Int,
         NEW done \in SUBSET Entries(slots), NEW free \in 1..Len(slots), free \notin done,
         slots[free].key = key \/ \A s \in Entries(slots) : slots[s].key # key
  PROVE  LET to == RehashProbe(slots, key, done) IN
         /\ to \in 1..Len(slots) /\ to \notin done
         /\ Walk(slots, to, address[key], done)
<1> DEFINE to == RehashProbe(slots, key, done)
<1>1. PICK i \in 0..Len(slots)-1 :
             /\ to = At(slots, address[key], i) /\ to \in 1..Len(slots)
             /\ to \notin done \/ slots[to].key = key
             /\ \A j \in 0..i-1 : LET r == At(slots, address[key], j) IN
                    r \in done /\ r \in 1..Len(slots) /\ slots[r].key # key
  BY RehashProbeIs
<1>2. to \notin done
  <2> SUFFICES ASSUME to \in done, slots[to].key = key PROVE FALSE
    BY <1>1
  <2>1. to \in Entries(slots) /\ (slots[free].key = key => free \in Entries(slots))
    BY DEF Entries
  <2> HIDE DEF to
  <2> QED
    BY <2>1 DEF Unique
<1> HIDE DEF to
<1>3. Walk(slots, to, address[key], done)
  BY <1>1 DEF Walk
<1> QED
  BY <1>1, <1>2, <1>3 DEF to

(* The vector after a step of its owner.                                   *)
LEMMA Updated ==
  ASSUME Structure, NEW t, NEW tb, NEW p, Update(t, tb, p)
  PROVE  /\ Vector' = tb /\ Slots' = tb.slots
         /\ UNCHANGED <<vector, lock, inhibited, address, request, calls, my>>
<1>1. vectors' = [vectors EXCEPT ![vector] = tb]
      /\ UNCHANGED <<vector, lock, inhibited, address, request, calls, my>>
  BY DEF Update, Keep
<1> QED
  BY <1>1, TableParts DEF Vector, Slots

(* A record of two fields.                                                 *)
LEMMA CellIs == ASSUME NEW c \in Cells PROVE c = Slot(c.key, c.value)
  BY DEF Cells, Slot

(* The rehash takes up an entry that is not where it hashes to.            *)
LEMMA OrderRehashSlot ==
  ASSUME Structure, Order, NEW t \in Threads, RehashSlot(t)
  PROVE  Order'
<1> DEFINE i == work.index
<1> DEFINE key == Slots[i].key
<1> DEFINE hand == InHand(Slots, i, work.done)
<1>1. /\ pc[t] = "rehash" /\ i \in 1..Len(Slots) /\ work.to = 0 /\ work.hand = Empty
      /\ work.done \subseteq Entries(Slots) /\ Was = work.done /\ work.back # "none"
  BY RehashParts, TableParts DEF RehashSlot
<1>2. /\ Vector \in Tables /\ Slots \in Seq(Cells) /\ Slots[i] \in Cells /\ DOMAIN Slots = 1..Len(Slots)
      /\ work \in Works /\ address \in [Keys -> Int] /\ Len(Slots) \in Nat
  BY <1>1, TableParts, WorkParts
<1>3. /\ Kinds(Slots) /\ Unique(Slots) /\ RehashInv /\ CountInv /\ ~Aloft /\ Num(Aloft) = 0
      /\ Vector.cached = NoCache
  BY <1>1, EmptyHand DEF Order, RehashInv
<1>4. CASE key \in Keys /\ i \notin work.done
  <2>1. /\ work' = [work EXCEPT !.hand = hand, !.done = @ \cup {hand.to}] /\ UNCHANGED threshold
        /\ Vector' = Vector /\ Slots' = Slots /\ UNCHANGED <<vector, address>>
    <3>1. Update(t, Vector, "displace") /\ UNCHANGED threshold
          /\ work' = [work EXCEPT !.hand = hand, !.done = @ \cup {hand.to}]
      BY <1>4 DEF RehashSlot
    <3> QED
      BY <3>1, Updated DEF Slots
  <2>2. hand.key = key /\ hand.value = Slots[i].value /\ hand.from = i
        /\ hand.to = RehashProbe(Slots, key, work.done)
    BY DEF InHand
  <2> HIDE DEF hand
  <2>3. work'.hand = hand /\ work'.done = work.done \cup {hand.to} /\ work'.index = i /\ work'.to = 0
        /\ work'.back = work.back
    BY <1>1, <1>2, <2>1 DEF Works
  <2>4. hand.to \notin work.done /\ Walk(Slots, hand.to, address[key], work.done)
    <3>1. address[key] \in Int /\ key \in Keys /\ i \notin work.done
      BY <1>2, <1>4
    <3> QED
      BY <1>1, <1>2, <1>3, <2>2, <3>1, ProbeIsNew
  <2>5. Was' = Was
    BY <1>1, <2>3, <2>4 DEF Was
  <2>6. ~Aloft' /\ Num(Aloft)' = 0
    BY <2>2, <2>3 DEF Aloft, Num
  <2>7. Kinds(Slots)' /\ Unique(Slots)' /\ CacheInv'
    BY <1>3, <2>1, KeysAssumption DEF Kinds, Unique, Entries, CacheInv, NoCache
  <2>8. CountInv'
    BY <1>3, <2>1, <2>6 DEF CountInv, Filled, Slotted, Of, Entries
  <2>9. RehashInv'
    BY <1>1, <1>3, <2>1, <2>3, <2>5 DEF RehashInv, Entries, Walk
  <2>10. HandInv'
    <3>1. Slots[i].value \in Values
      BY <1>1, <1>2, <1>3, <1>4 DEF Kinds
    <3>2. Slots[i] = Slot(key, Slots[i].value)
      BY <1>2, CellIs
    <3>3. Walk(Slots, hand.to, address[key], Was)
      BY <1>1, <2>4
    <3> QED
      BY <2>1, <2>2, <2>3, <2>5, <3>1, <3>2, <3>3 DEF HandInv, Walk
  <2>11. RestInv' /\ CopyInv' /\ PlaceInv'
    BY <1>1, <2>3 DEF RestInv, CopyInv, PlaceInv, NoWork
  <2> QED
    BY <2>7, <2>8, <2>9, <2>10, <2>11 DEF Order
<1>5. CASE ~(key \in Keys /\ i \notin work.done)
  <2> DEFINE deleted == key = Deleted /\ i \notin work.done
  <2> DEFINE cell == [Slots[i] EXCEPT !.key = Free]
  <2> DEFINE s == IF deleted THEN [Slots EXCEPT ![i] = cell] ELSE Slots
  <2> DEFINE tb == IF ~deleted THEN Vector
                   ELSE [Vector EXCEPT !.deleted = @ - 1, !.slots[i].key = Free]
  <2>1. /\ work' = [work EXCEPT !.index = @ + 1]
        /\ threshold' = threshold + (IF deleted THEN 1 ELSE 0)
        /\ Vector' = tb /\ Slots' = tb.slots /\ UNCHANGED <<vector, address>>
    <3>1. /\ Update(t, tb, "rehash") /\ work' = [work EXCEPT !.index = @ + 1]
          /\ threshold' = threshold + (IF deleted THEN 1 ELSE 0)
      BY <1>5 DEF RehashSlot
    <3> HIDE DEF tb
    <3> QED
      BY <3>1, Updated
  <2>2. tb.slots = s /\ tb.moved = Vector.moved /\ tb.count = Vector.count /\ tb.cached = Vector.cached
        /\ tb.deleted = Vector.deleted - (IF deleted THEN 1 ELSE 0)
    <3>1. CASE ~deleted
      BY <1>2, <3>1 DEF Slots, Tables
    <3>2. CASE deleted
      BY <1>2, <3>2 DEF Slots, Tables
    <3> QED
      BY <3>1, <3>2
  <2>3. work'.index = i + 1 /\ work'.hand = work.hand /\ work'.done = work.done /\ work'.to = 0
        /\ work'.back = work.back
    BY <1>1, <1>2, <2>1 DEF Works
  <2>4. Was' = Was /\ ~Aloft' /\ Num(Aloft)' = 0
    BY <1>1, <2>3, EmptyHand, KeysAssumption DEF Was, Aloft, Num, Empty
  <2>5. cell \in Cells /\ cell.key = Free
    BY <1>2 DEF Cells
  <2> HIDE DEF cell, tb
  <2>6. /\ Len(s) = Len(Slots) /\ DOMAIN s = 1..Len(Slots) /\ Entries(s) = Entries(Slots)
        /\ \A j \in 1..Len(Slots) : (~deleted \/ j # i) => s[j] = Slots[j]
        /\ deleted => s[i] = cell
        /\ Slotted(s, Free) = Slotted(Slots, Free) + (IF deleted THEN 1 ELSE 0)
        /\ Slotted(s, Deleted) = Slotted(Slots, Deleted) - (IF deleted THEN 1 ELSE 0)
    <3>1. Slotted(Slots, Deleted) \in Nat /\ Slotted(Slots, Free) \in Nat
      BY <1>2, FiniteSlots, FS_CardinalityType DEF Slotted
    <3>2. CASE ~deleted
      BY <1>2, <3>1, <3>2
    <3>3. CASE deleted
      <4>1. s = Write(Slots, i, cell)
        BY <3>3 DEF Write
      <4> HIDE DEF s
      <4>2. cell.key \notin Keys /\ cell.key = Free /\ cell.key # Deleted /\ Slots[i].key = Deleted
        BY <2>5, <3>3, KeysAssumption
      <4>a. Slots \in Seq(Cells) /\ i \in 1..Len(Slots) /\ cell \in Cells
        BY <1>1, <1>2, <2>5
      <4>3. /\ Len(s) = Len(Slots) /\ DOMAIN s = 1..Len(Slots) /\ s[i] = cell
            /\ \A j \in 1..Len(Slots) : j # i => s[j] = Slots[j]
        BY ZenonT(60), <4>1, <4>a, Stored
      <4>4. Entries(s) = Entries(Slots)
        BY <1>1, <1>2, <4>2, <4>3, KeysAssumption DEF Entries
      <4>5. Slotted(s, Free) = Slotted(Slots, Free) + 1
        BY <1>1, <1>2, <2>5, <4>1, <4>2, StoredOf
      <4>6. Slotted(s, Deleted) = Slotted(Slots, Deleted) - 1
        BY <1>1, <1>2, <2>5, <4>1, <4>2, StoredOf
      <4> QED
        BY <3>1, <3>3, <4>3, <4>4, <4>5, <4>6
    <3> QED
      BY <3>2, <3>3
  <2> HIDE DEF s
  <2>7. i \in Entries(Slots) => i \in work.done
    BY <1>2, <1>5 DEF Entries
  <2>8. \A j \in Entries(Slots) : s[j] = Slots[j]
    BY <1>2, <2>6, KeysAssumption DEF Entries
  <2>9. Kinds(Slots)'
    BY <1>2, <1>3, <2>1, <2>2, <2>5, <2>6, KeysAssumption DEF Kinds
  <2>10. Unique(Slots)'
    BY <1>3, <2>1, <2>2, <2>6, <2>8 DEF Unique, Entries
  <2>11. CacheInv'
    BY <1>3, <2>1, <2>2, KeysAssumption DEF CacheInv, NoCache
  <2>12. CountInv'
    <3>1. Entries(Slots)' = Entries(Slots)
      BY <2>1, <2>2, <2>6 DEF Entries
    <3>2. threshold \in Int /\ Vector.deleted \in Int /\ Slack \in Int
      BY <1>2, WorkParts, SizesAssumption DEF Tables
    <3>3. Slotted(Slots, Free)' = Slotted(s, Free) /\ Slotted(Slots, Deleted)' = Slotted(s, Deleted)
      BY <2>1, <2>2 DEF Slotted, Of
    <3>4. PICK d \in 0..1 : d = IF deleted THEN 1 ELSE 0
      OBVIOUS
    <3> HIDE DEF deleted
    <3>5. /\ threshold' = threshold + d /\ Vector'.deleted = Vector.deleted - d
          /\ Vector'.count = Vector.count
          /\ Slotted(s, Free) = Slotted(Slots, Free) + d
          /\ Slotted(s, Deleted) = Slotted(Slots, Deleted) - d
      BY <2>1, <2>2, <2>6, <3>4
    <3>6. /\ Vector.count = Filled(Slots) + Num(Aloft)
          /\ Vector.deleted = Slotted(Slots, Deleted)
          /\ threshold >= 0 /\ threshold + Slack + Num(Aloft) = Slotted(Slots, Free)
      BY <1>3 DEF CountInv
    <3>7. Vector'.count = Filled(Slots)' + Num(Aloft)'
      BY <1>3, <2>4, <3>1, <3>5, <3>6 DEF Filled
    <3>8. Vector'.deleted = Slotted(Slots, Deleted)'
      BY <3>3, <3>5, <3>6
    <3>9. threshold' >= 0 /\ threshold' + Slack + Num(Aloft)' = Slotted(Slots, Free)'
      BY <1>3, <2>4, <3>2, <3>3, <3>5, <3>6
    <3> QED
      BY <3>7, <3>8, <3>9 DEF CountInv
  <2>13. RehashInv'
    <3>1. \A e \in Entries(s) : e < work'.index => e \in Was'
      BY <1>1, <1>2, <1>3, <2>3, <2>4, <2>6, <2>7 DEF RehashInv, Entries
    <3>2. ~Vector.moved => \A e \in Was : Walk(s, e, address[s[e].key], Was)
      <4> SUFFICES ASSUME ~Vector.moved, NEW e \in Was PROVE Walk(s, e, address[s[e].key], Was)
        OBVIOUS
      <4>1. Walk(Slots, e, address[Slots[e].key], Was) /\ s[e] = Slots[e]
        BY <1>1, <1>3, <2>8 DEF RehashInv
      <4> QED
        BY <2>6, <4>1, WalkStays
    <3> QED
      BY <1>3, <2>1, <2>2, <2>4, <3>1, <3>2 DEF RehashInv, Entries, Walk
  <2>14. RestInv' /\ CopyInv' /\ PlaceInv' /\ HandInv'
    BY <1>1, <2>3, EmptyHand DEF RestInv, CopyInv, PlaceInv, HandInv, NoWork
  <2> QED
    BY <2>9, <2>10, <2>11, <2>12, <2>13, <2>14 DEF Order
<1> QED
  BY <1>4, <1>5

(* Every entry has been rehashed: the vector is in order again.            *)
LEMMA OrderEndRehash ==
  ASSUME Structure, Order, NEW t \in Threads, EndRehash(t)
  PROVE  Order'
<1>1. /\ pc[t] = "rehash" /\ work.index > Len(Slots) /\ work' = NoWork
      /\ UNCHANGED <<vector, vectors, threshold, address>>
  BY DEF EndRehash, Keep, tableVars
<1>2. /\ work.to = 0 /\ work.hand = Empty /\ work.back # "none"
      /\ work.done \subseteq Entries(Slots) /\ Was = work.done
  BY <1>1, RehashParts
<1>3. Vector' = Vector /\ Slots' = Slots
  BY <1>1 DEF Vector, Slots
<1>4. ~Aloft /\ Num(Aloft) = 0 /\ ~Aloft' /\ Num(Aloft)' = 0
  BY <1>1, <1>2, EmptyHand, KeysAssumption DEF Aloft, Num, NoWork, Empty
<1>5. Kinds(Slots)' /\ Unique(Slots)' /\ CacheInv' /\ CountInv'
  BY <1>1, <1>3, <1>4 DEF Order, Kinds, Unique, CacheInv, CountInv, Filled, Slotted, Of, Entries
<1>6. RestInv'
  <2> SUFFICES ASSUME ~Vector.moved PROVE OneWay(Slots)'
    BY <1>3 DEF RestInv
  <2> SUFFICES ASSUME NEW e \in Entries(Slots)
               PROVE  Walk(Slots, e, address[Slots[e].key], Taken(Slots))
    BY <1>1, <1>3 DEF OneWay, Walk, Taken, Entries
  <2>1. e \in Was /\ Walk(Slots, e, address[Slots[e].key], Was)
    <3>1. e < work.index
      BY <1>1, TableParts, WorkParts DEF Entries
    <3> QED
      BY <1>2, <3>1 DEF Order, RehashInv
  <2>2. Was \subseteq Taken(Slots)
    BY <1>2, KeysAssumption DEF Entries, Taken
  <2> QED
    BY <2>1, <2>2, WalkStays
<1>7. RehashInv' /\ HandInv' /\ CopyInv' /\ PlaceInv'
  BY <1>1 DEF RehashInv, HandInv, CopyInv, PlaceInv, NoWork
<1> QED
  BY <1>5, <1>6, <1>7 DEF Order

(* The slots without the entry in hand, which is nowhere else.             *)
LEMMA LeftParts ==
  ASSUME Structure, Order, NEW t \in Threads, pc[t] = "displace"
  PROVE  /\ Left \in Seq(Cells) /\ Len(Left) = Len(Slots) /\ DOMAIN Left = 1..Len(Slots)
         /\ work.index \in 1..Len(Slots) /\ Left[work.index].key = Free
         /\ \A j \in 1..Len(Slots) : j # work.index => Left[j] = Slots[j]
         /\ work.hand.from # work.index => Left = Slots
         /\ \A s \in Was : s # work.index
         /\ \A j \in 1..Len(Slots) : Left[j].key # work.hand.key
         /\ work.hand.from = work.index => Slots[work.index] = Slot(work.hand.key, work.hand.value)
         /\ work.hand.from # work.index => work.hand.from \in Was
         /\ Vector.count = Filled(Left) + 1 /\ Filled(Left) \in Nat
         /\ Vector.deleted = Slotted(Left, Deleted)
         /\ threshold + Slack + 1 = Slotted(Left, Free)
<1> DEFINE i == work.index
<1> DEFINE hand == work.hand
<1>1. /\ i \in 1..Len(Slots) /\ hand.key \in Keys /\ hand.from \in Entries(Slots)
      /\ IF hand.from = i THEN i \notin Was ELSE Slots[i].key = Free
      /\ work.to = 0 /\ work.back # "none" /\ Was \subseteq Entries(Slots)
  BY RehashParts DEF RehashAt, Was
<1>2. /\ Slots \in Seq(Cells) /\ DOMAIN Slots = 1..Len(Slots)
      /\ Kinds(Slots) /\ Unique(Slots) /\ CountInv /\ HandInv
  BY TableParts DEF Order
<1>3. IF hand.from = i THEN Slots[i] = Slot(hand.key, hand.value)
      ELSE hand.from \in Was /\ \A s \in Entries(Slots) : Slots[s].key # hand.key
  BY <1>1, <1>2 DEF HandInv
<1>4. /\ Vector.count = Filled(Slots) + Num(Aloft) /\ Vector.deleted = Slotted(Slots, Deleted)
      /\ threshold + Slack + Num(Aloft) = Slotted(Slots, Free)
      /\ Vector.count \in Int /\ threshold \in Int /\ Slack \in Int
  BY <1>2, TableParts, WorkParts, SizesAssumption DEF CountInv, Tables
<1>5. CASE hand.from = i
  <2> DEFINE cell == Slot(Free, Free)
  <2>1. Left = Write(Slots, i, cell)
    BY <1>5 DEF Left, Write
  <2>2. cell \in Cells /\ cell.key = Free /\ cell.key \notin Keys /\ cell.key # Deleted
    BY KeysAssumption DEF Slot, Cells, Words
  <2>3. Slots[i].key = hand.key /\ Slots[i].key \in Keys /\ Slots[i].key # Free /\ Slots[i].key # Deleted
    BY <1>1, <1>3, <1>5, KeysAssumption DEF Slot
  <2> HIDE DEF cell
  <2>a. Slots \in Seq(Cells) /\ i \in 1..Len(Slots) /\ cell \in Cells
    BY <1>1, <1>2, <2>2
  <2>4. /\ Left \in Seq(Cells) /\ Len(Left) = Len(Slots) /\ DOMAIN Left = 1..Len(Slots)
        /\ Left[i] = cell /\ \A j \in 1..Len(Slots) : j # i => Left[j] = Slots[j]
    BY ZenonT(60), <2>1, <2>a, Stored
  <2>5. Filled(Left) = Filled(Slots) - 1 /\ Filled(Slots) \in Nat
    BY <1>1, <1>2, <2>1, <2>2, <2>3, StoredFilled
  <2>6. Slotted(Left, Deleted) = Slotted(Slots, Deleted)
    BY <1>1, <1>2, <2>1, <2>2, <2>3, StoredOf
  <2>7. Slotted(Left, Free) = Slotted(Slots, Free) + 1 /\ Slotted(Slots, Free) \in Nat
    BY <1>1, <1>2, <2>1, <2>2, <2>3, StoredOf
  <2>8. \A j \in 1..Len(Slots) : Left[j].key # hand.key
    BY <1>1, <1>2, <2>2, <2>3, <2>4 DEF Unique, Entries
  <2>9. \A s \in Was : s # i
    BY <1>1, <1>5
  <2>10. Num(Aloft) = 0
    BY <1>5 DEF Aloft, Num
  <2>11. IsFiniteSet(Entries(Left))
    BY <2>4, FiniteSlots
  <2>12. Filled(Left) \in Nat
    BY <2>11, FS_CardinalityType DEF Filled
  <2>13. /\ Vector.count = Filled(Left) + 1 /\ Vector.deleted = Slotted(Left, Deleted)
         /\ threshold + Slack + 1 = Slotted(Left, Free)
    BY <1>4, <2>5, <2>6, <2>7, <2>10
  <2> HIDE DEF hand
  <2> QED
    BY <1>1, <1>3, <1>5, <2>2, <2>4, <2>8, <2>9, <2>12, <2>13 DEF hand
<1>6. CASE hand.from # i
  <2>1. Left = Slots
    BY <1>6 DEF Left
  <2>2. \A j \in 1..Len(Slots) : Slots[j].key # hand.key
    BY <1>1, <1>2, <1>3, <1>6 DEF Entries
  <2>3. \A s \in Was : s # i
    BY <1>1, <1>6, KeysAssumption DEF Entries
  <2>4. Num(Aloft) = 1
    BY <1>1, <1>6 DEF Aloft, Num
  <2>5. Filled(Left) \in Nat
    BY <1>2, <2>1, FiniteSlots, FS_CardinalityType DEF Filled
  <2>6. /\ Vector.count = Filled(Left) + 1 /\ Vector.deleted = Slotted(Left, Deleted)
        /\ threshold + Slack + 1 = Slotted(Left, Free)
    BY <1>4, <2>1, <2>4, <2>5
  <2> HIDE DEF hand
  <2> QED
    BY <1>1, <1>2, <1>3, <1>6, <2>1, <2>2, <2>3, <2>5, <2>6 DEF hand
<1> QED
  BY <1>5, <1>6

(* The slots with the entry in hand in its new place.                      *)
LEMMA LaidParts ==
  ASSUME Structure, Order, NEW t \in Threads, pc[t] = "displace"
  PROVE  LET hand == work.hand
             to == work.hand.to
             was == Left[work.hand.to].key
         IN
         /\ Laid \in Seq(Cells) /\ Len(Laid) = Len(Slots) /\ DOMAIN Laid = 1..Len(Slots)
         /\ hand.key \in Keys /\ hand.value \in Values
         /\ to \in 1..Len(Slots) /\ to \notin Was /\ work.done = Was \cup {to}
         /\ Laid[to] = Slot(hand.key, hand.value) /\ Laid[to].key = hand.key
         /\ \A j \in 1..Len(Slots) : j # to => Laid[j] = Left[j]
         /\ Kinds(Laid) /\ Unique(Laid) /\ work.done \subseteq Entries(Laid)
         /\ was \in Keys \cup {Free, Deleted}
         /\ Filled(Laid) = Filled(Left) + (IF was \in Keys THEN 0 ELSE 1)
         /\ Slotted(Laid, Free) = Slotted(Left, Free) - (IF was = Free THEN 1 ELSE 0)
         /\ Slotted(Laid, Deleted) = Slotted(Left, Deleted) - (IF was = Deleted THEN 1 ELSE 0)
<1> DEFINE hand == work.hand
<1> DEFINE to == work.hand.to
<1> DEFINE cell == Slot(hand.key, hand.value)
<1>1. /\ hand.key \in Keys /\ to \in 1..Len(Slots) /\ to \in work.done
      /\ work.back # "none" /\ Was \subseteq Entries(Slots)
  BY RehashParts DEF RehashAt, Was
<1>2. hand.value \in Values
  BY <1>1 DEF Order, HandInv
<1>3. /\ Slots \in Seq(Cells) /\ DOMAIN Slots = 1..Len(Slots) /\ Kinds(Slots) /\ Unique(Slots)
  BY TableParts DEF Order
<1>4. /\ Left \in Seq(Cells) /\ Len(Left) = Len(Slots) /\ DOMAIN Left = 1..Len(Slots)
      /\ work.index \in 1..Len(Slots) /\ Left[work.index].key = Free
      /\ \A j \in 1..Len(Slots) : j # work.index => Left[j] = Slots[j]
      /\ \A j \in 1..Len(Slots) : Left[j].key # hand.key
  BY LeftParts
<1>5. cell \in Cells /\ cell.key = hand.key /\ cell.value = hand.value
  BY <1>1, <1>2 DEF Slot, Cells, Words
<1>6. Laid = Write(Left, to, cell)
  BY DEF Laid, Write
<1>7. Left \in Seq(Cells) /\ to \in 1..Len(Left) /\ cell \in Cells
  BY <1>1, <1>4, <1>5
<1> HIDE DEF cell, to
<1>8. /\ Laid \in Seq(Cells) /\ Len(Laid) = Len(Left) /\ DOMAIN Laid = 1..Len(Left)
      /\ Laid[to] = cell /\ \A j \in 1..Len(Left) : j # to => Laid[j] = Left[j]
  BY ZenonT(60), <1>6, <1>7, Stored
<1>9. \A j \in 1..Len(Slots) : /\ Left[j].key \in Keys \cup {Free, Deleted}
                               /\ Left[j].key \in Keys => Left[j].value \in Values
  BY <1>3, <1>4, KeysAssumption DEF Kinds
<1>10. Kinds(Laid)
  BY <1>1, <1>2, <1>4, <1>5, <1>8, <1>9 DEF Kinds
<1>11. Unique(Laid)
  <2> SUFFICES ASSUME NEW j \in Entries(Laid), NEW k \in Entries(Laid), Laid[j].key = Laid[k].key
               PROVE  j = k
    BY DEF Unique
  <2>1. j \in 1..Len(Slots) /\ k \in 1..Len(Slots) /\ Laid[j].key \in Keys
    BY <1>4, <1>8 DEF Entries
  <2>2. j = to <=> k = to
    BY <1>4, <1>5, <1>8, <2>1
  <2>3. CASE j # to
    <3>1. Left[j].key = Left[k].key /\ Left[j].key \in Keys
      BY <1>4, <1>8, <2>1, <2>2, <2>3
    <3>2. j # work.index /\ k # work.index
      BY <1>4, <3>1, KeysAssumption
    <3>3. Slots[j].key = Slots[k].key /\ j \in Entries(Slots) /\ k \in Entries(Slots)
      BY <1>3, <1>4, <2>1, <3>1, <3>2 DEF Entries
    <3> QED
      BY <1>3, <3>3 DEF Unique
  <2> QED
    BY <2>2, <2>3
<1>12. /\ Left[to].key \in Keys => Filled(Laid) = Filled(Left)
       /\ Left[to].key \notin Keys => Filled(Laid) = Filled(Left) + 1
  BY <1>1, <1>4, <1>5, <1>6, <1>7, StoredFilled
<1>13. cell.key # Free /\ cell.key # Deleted
  BY <1>1, <1>5, KeysAssumption
<1>14. /\ Left[to].key # Free => Slotted(Laid, Free) = Slotted(Left, Free)
       /\ Left[to].key = Free => Slotted(Laid, Free) = Slotted(Left, Free) - 1
       /\ Slotted(Left, Free) \in Nat
  BY <1>4, <1>5, <1>6, <1>7, <1>13, StoredOf
<1>15. /\ Left[to].key # Deleted => Slotted(Laid, Deleted) = Slotted(Left, Deleted)
       /\ Left[to].key = Deleted => Slotted(Laid, Deleted) = Slotted(Left, Deleted) - 1
       /\ Slotted(Left, Deleted) \in Nat
  BY <1>4, <1>5, <1>6, <1>7, <1>13, StoredOf
<1>16. to \notin Was /\ work.done = Was \cup {to}
  BY <1>1 DEF Was, to
<1>17. work.done \subseteq Entries(Laid)
  <2>1. Was \subseteq Entries(Laid) /\ to \in Entries(Laid)
    BY SlotsLaid DEF Was, to
  <2> QED
    BY <1>16, <2>1
<1>18. Filled(Left) \in Nat
  BY LeftParts
<1>19. /\ Left[to].key \in Keys \cup {Free, Deleted}
       /\ Filled(Laid) = Filled(Left) + (IF Left[to].key \in Keys THEN 0 ELSE 1)
       /\ Slotted(Laid, Free) = Slotted(Left, Free) - (IF Left[to].key = Free THEN 1 ELSE 0)
       /\ Slotted(Laid, Deleted) = Slotted(Left, Deleted) - (IF Left[to].key = Deleted THEN 1 ELSE 0)
  BY <1>4, <1>7, <1>9, <1>12, <1>14, <1>15, <1>18
<1> QED
  BY <1>1, <1>2, <1>4, <1>5, <1>8, <1>10, <1>11, <1>16, <1>17, <1>19 DEF cell, to

(* An entry is laid down where it hashes to; the displaced one, if any, is *)
(* in hand, and the rehashed ones are still on their ways.                 *)
LEMMA OrderDisplace ==
  ASSUME Structure, Order, NEW t \in Threads, Displace(t)
  PROVE  Order'
<1> DEFINE hand == work.hand
<1> DEFINE to == hand.to
<1> DEFINE other == Slots[to]
<1> DEFINE reused == IF other.key = Deleted THEN 1 ELSE 0
<1>1. pc[t] = "displace"
  BY DEF Displace
<1>2. /\ Left \in Seq(Cells) /\ Len(Left) = Len(Slots) /\ DOMAIN Left = 1..Len(Slots)
      /\ work.index \in 1..Len(Slots) /\ Left[work.index].key = Free
      /\ \A j \in 1..Len(Slots) : j # work.index => Left[j] = Slots[j]
      /\ hand.from # work.index => Left = Slots
      /\ \A s \in Was : s # work.index
      /\ \A j \in 1..Len(Slots) : Left[j].key # hand.key
      /\ hand.from = work.index => Slots[work.index] = Slot(hand.key, hand.value)
      /\ hand.from # work.index => hand.from \in Was
      /\ Vector.count = Filled(Left) + 1 /\ Filled(Left) \in Nat
      /\ Vector.deleted = Slotted(Left, Deleted)
      /\ threshold + Slack + 1 = Slotted(Left, Free)
  BY <1>1, LeftParts
<1>3. /\ Laid \in Seq(Cells) /\ Len(Laid) = Len(Slots) /\ DOMAIN Laid = 1..Len(Slots)
      /\ hand.key \in Keys /\ hand.value \in Values
      /\ to \in 1..Len(Slots) /\ to \notin Was /\ work.done = Was \cup {to}
      /\ Laid[to] = Slot(hand.key, hand.value) /\ Laid[to].key = hand.key
      /\ \A j \in 1..Len(Slots) : j # to => Laid[j] = Left[j]
      /\ Kinds(Laid) /\ Unique(Laid) /\ work.done \subseteq Entries(Laid)
      /\ Left[to].key \in Keys \cup {Free, Deleted}
      /\ Filled(Laid) = Filled(Left) + (IF Left[to].key \in Keys THEN 0 ELSE 1)
      /\ Slotted(Laid, Free) = Slotted(Left, Free) - (IF Left[to].key = Free THEN 1 ELSE 0)
      /\ Slotted(Laid, Deleted) = Slotted(Left, Deleted) - (IF Left[to].key = Deleted THEN 1 ELSE 0)
  BY <1>1, LaidParts
<1>4. /\ Slots \in Seq(Cells) /\ DOMAIN Slots = 1..Len(Slots) /\ Vector \in Tables /\ Slots = Vector.slots
      /\ work \in Works /\ address \in [Keys -> Int] /\ threshold \in Int /\ Slack \in Int
      /\ work.to = 0 /\ work.back # "none" /\ Was \subseteq Entries(Slots)
      /\ Kinds(Slots) /\ Unique(Slots) /\ RehashInv /\ HandInv /\ threshold >= 0
      /\ Vector.cached = NoCache /\ Vector.count \in Int /\ Vector.deleted \in Int
  BY <1>1, TableParts, WorkParts, RehashParts, SizesAssumption
     DEF Order, RehashInv, CountInv, Tables, Slots
(* Who stays where it was has been rehashed, and the others of done are on their ways. *)
<1>5. \A s \in Entries(Laid) : s <= work.index => s \in work.done
  <2> SUFFICES ASSUME NEW s \in Entries(Laid), s <= work.index, s # to PROVE s \in Was
    BY <1>3
  <2>1. s \in 1..Len(Slots) /\ Laid[s] = Left[s] /\ Left[s].key \in Keys
    BY <1>3 DEF Entries
  <2>2. s # work.index
    BY <1>2, <2>1, KeysAssumption
  <2>3. s \in Entries(Slots) /\ s < work.index
    BY SMTT(60), <1>2, <1>4, <2>1, <2>2 DEF Entries
  <2> QED
    BY <1>4, <2>3 DEF RehashInv
<1>6. ~Vector.moved => \A s \in work.done : Walk(Laid, s, address[Laid[s].key], work.done)
  <2> SUFFICES ASSUME ~Vector.moved, NEW s \in work.done
               PROVE  Walk(Laid, s, address[Laid[s].key], work.done)
    OBVIOUS
  <2>1. Walk(Slots, s, address[Laid[s].key], Was)
    <3>1. CASE s = to
      BY <1>3, <1>4, <3>1 DEF HandInv
    <3>2. CASE s # to
      <4>1. s \in Was /\ s \in 1..Len(Slots) /\ Laid[s] = Slots[s]
        BY SMTT(60), <1>2, <1>3, <1>4, <3>2 DEF Entries
      <4> QED
        BY <1>4, <4>1 DEF RehashInv
    <3> QED
      BY <3>1, <3>2
  <2>2. Was \subseteq work.done /\ Len(Slots) = Len(Laid)
    BY <1>3
  <2> QED
    BY <2>1, <2>2, WalkStays
<1>7. to # hand.from => Left[to] = other
  BY <1>2, <1>3
<1>8. CASE to # hand.from /\ other.key \in Keys
  <2> DEFINE next == [InHand(Slots, to, work.done) EXCEPT !.to = RehashProbe(Laid, other.key, work.done)]
  <2>1. /\ work' = [work EXCEPT !.hand = next, !.done = @ \cup {next.to}] /\ threshold' = threshold
        /\ Update(t, [Vector EXCEPT !.slots = Laid], "displace")
    BY <1>8 DEF Displace, Laid, Left
  <2>2. /\ Vector' = [Vector EXCEPT !.slots = Laid] /\ UNCHANGED address
    BY <2>1, Updated
  <2>3. /\ Slots' = Laid /\ Vector'.moved = Vector.moved /\ Vector'.cached = NoCache
        /\ Vector'.count = Vector.count /\ Vector'.deleted = Vector.deleted
    BY <1>3, <1>4, <2>2, TableStored DEF Slots
  <2>4. next.key = other.key /\ next.value = other.value /\ next.from = to
        /\ next.to = RehashProbe(Laid, other.key, work.done)
    BY DEF InHand
  <2> HIDE DEF next
  <2>5. /\ work'.hand = next /\ work'.done = work.done \cup {next.to} /\ work'.index = work.index
        /\ work'.to = 0 /\ work'.back = work.back
    BY <1>4, <2>1 DEF Works
  <2>6. to # work.index
    BY <1>2, <1>4, <1>8, KeysAssumption
  <2>7. Left[to] = other /\ other.key # hand.key
    BY <1>2, <1>3, <1>7, <1>8
  <2>8. \A e \in Entries(Laid) : Laid[e].key # other.key
    <3> SUFFICES ASSUME NEW e \in Entries(Laid), Laid[e].key = other.key PROVE FALSE
      OBVIOUS
    <3>1. e \in 1..Len(Slots) /\ e # to /\ Left[e].key = other.key
      BY <1>3, <2>7 DEF Entries
    <3>2. e # work.index
      BY <1>2, <1>8, <3>1, KeysAssumption
    <3>3. e \in Entries(Slots) /\ Slots[e].key = other.key /\ to \in Entries(Slots)
      BY <1>2, <1>3, <1>4, <1>8, <3>1, <3>2 DEF Entries
    <3> QED
      BY <1>4, <3>1, <3>3 DEF Unique
  <2>9. next.to \notin work.done /\ Walk(Laid, next.to, address[other.key], work.done)
    <3>1. work.index \in 1..Len(Laid) /\ work.index \notin work.done
      BY <1>2, <1>3, <2>6
    <3>2. address[other.key] \in Int
      BY <1>4, <1>8
    <3>3. PICK k : k = other.key
      OBVIOUS
    <3>4. /\ Laid \in Seq(Cells) /\ Unique(Laid) /\ k \in Keys /\ address[k] \in Int
          /\ work.done \in SUBSET Entries(Laid)
          /\ \A e \in Entries(Laid) : Laid[e].key # k
      BY <1>3, <1>8, <2>8, <3>2, <3>3
    <3>5. LET next_to == RehashProbe(Laid, k, work.done) IN
          next_to \notin work.done /\ Walk(Laid, next_to, address[k], work.done)
      <4> HIDE DEF other
      <4> QED
        BY <3>1, <3>4, ProbeIsNew
    <3> QED
      BY <2>4, <3>3, <3>5
  <2>10. Was' = work.done
    BY <2>5, <2>9 DEF Was
  <2>11. Aloft' /\ Num(Aloft)' = 1
    BY <1>8, <2>4, <2>5, <2>6 DEF Aloft, Num
  <2>12. Kinds(Slots)' /\ Unique(Slots)' /\ CacheInv'
    BY <1>3, <2>3, KeysAssumption DEF Kinds, Unique, Entries, CacheInv, NoCache
  <2>13. CountInv'
    <3>1. Filled(Laid) = Filled(Left) /\ Slotted(Laid, Free) = threshold + Slack + 1
          /\ Slotted(Laid, Deleted) = Vector.deleted
      BY <1>2, <1>3, <1>4, <1>8, <2>7, KeysAssumption
    <3>2. Filled(Slots)' = Filled(Laid) /\ Slotted(Slots, Free)' = Slotted(Laid, Free)
          /\ Slotted(Slots, Deleted)' = Slotted(Laid, Deleted)
      BY <2>3 DEF Filled, Slotted, Entries, Of
    <3> QED
      BY <1>2, <1>4, <2>1, <2>3, <2>11, <3>1, <3>2 DEF CountInv
  <2>14. RehashInv'
    <3>1. \A s \in Entries(Laid) : s < work.index => s \in work.done
      BY <1>2, <1>3, <1>5 DEF Entries
    <3> QED
      BY <1>6, <2>2, <2>3, <2>5, <2>10, <3>1 DEF RehashInv, Entries, Walk
  <2>15. HandInv'
    <3>1. other.value \in Values
      BY <1>3, <1>4, <1>8 DEF Kinds
    <3>2. work'.hand.from # work'.index /\ work'.hand.from \in Was'
      BY <1>3, <2>4, <2>5, <2>6, <2>10
    <3>3. \A e \in Entries(Slots)' : Slots'[e].key # work'.hand.key
      BY <2>3, <2>4, <2>5, <2>8 DEF Entries
    <3>4. ~Vector'.moved => Walk(Slots, work.hand.to, address[work.hand.key], Was)'
      <4>1. Walk(Slots, work.hand.to, address[work.hand.key], Was)'
              <=> Walk(Laid, next.to, address[other.key], work.done)
        BY <2>2, <2>3, <2>4, <2>5, <2>10 DEF Walk
      <4> QED
        BY <2>9, <4>1
    <3> QED
      BY <2>4, <2>5, <3>1, <3>2, <3>3, <3>4 DEF HandInv
  <2>16. RestInv' /\ CopyInv' /\ PlaceInv'
    BY <1>4, <2>5 DEF RestInv, CopyInv, PlaceInv, NoWork
  <2> QED
    BY <2>12, <2>13, <2>14, <2>15, <2>16 DEF Order
<1>9. CASE ~(to # hand.from /\ other.key \in Keys)
  <2> DEFINE tb == IF to = hand.from THEN Vector
                   ELSE [Vector EXCEPT !.slots = Laid, !.deleted = @ - reused]
  <2>1. /\ work' = [work EXCEPT !.hand = Empty, !.index = @ + 1] /\ threshold' = threshold + reused
        /\ Update(t, tb, "rehash")
    BY <1>9 DEF Displace, Laid, Left
  <2>2. Vector' = tb /\ UNCHANGED address
    <3> HIDE DEF tb
    <3> QED
      BY <2>1, Updated
  <2>3. to = hand.from => /\ to = work.index /\ Laid = Slots /\ reused = 0 /\ Left[to].key = Free
    <3> SUFFICES ASSUME to = hand.from
                 PROVE  to = work.index /\ Laid = Slots /\ reused = 0 /\ Left[to].key = Free
      OBVIOUS
    <3>1. to = work.index
      BY <1>2, <1>3
    <3>2. \A j \in 1..Len(Slots) : Laid[j] = Slots[j]
      BY <1>2, <1>3, <3>1
    <3>3. Laid = Slots
      BY SMTT(60), <1>3, <1>4, <3>2
    <3>4. reused = 0
      BY <1>3, <3>3, KeysAssumption
    <3> QED
      BY <1>2, <3>1, <3>3, <3>4
  <2>4. Left[to].key \in {Free, Deleted} /\ reused = IF Left[to].key = Deleted THEN 1 ELSE 0
    <3>1. CASE to = hand.from
      BY <2>3, <3>1, KeysAssumption
    <3>2. CASE to # hand.from
      BY <1>3, <1>7, <1>9, <3>2
    <3> QED
      BY <3>1, <3>2
  <2>5. /\ tb.slots = Laid /\ tb.moved = Vector.moved /\ tb.cached = NoCache
        /\ tb.count = Vector.count /\ tb.deleted = Vector.deleted - reused
    <3>1. reused \in Int
      OBVIOUS
    <3>2. CASE to = hand.from
      BY <1>4, <2>3, <3>2
    <3>3. CASE to # hand.from
      <4>1. tb = [Vector EXCEPT !.slots = Laid, !.deleted = @ - reused]
        BY <3>3
      <4> HIDE DEF reused, tb
      <4> QED
        BY <1>3, <1>4, <3>1, <4>1 DEF Tables
    <3> QED
      BY <3>2, <3>3
  <2> HIDE DEF tb
  <2>6. /\ Slots' = Laid /\ Vector'.moved = Vector.moved /\ Vector'.cached = NoCache
        /\ Vector'.count = Vector.count /\ Vector'.deleted = Vector.deleted - reused
    BY <2>2, <2>5 DEF Slots
  <2>7. /\ work'.hand = Empty /\ work'.done = work.done /\ work'.index = work.index + 1
        /\ work'.to = 0 /\ work'.back = work.back
    BY <1>4, <2>1 DEF Works
  <2>8. Was' = work.done
    BY <1>3, <2>7 DEF Was, Empty, Entries
  <2>9. ~Aloft' /\ Num(Aloft)' = 0 /\ work'.hand.key \notin Keys
    BY <2>7, KeysAssumption DEF Aloft, Num, Empty
  <2>10. Kinds(Slots)' /\ Unique(Slots)' /\ CacheInv'
    BY <1>3, <2>6, KeysAssumption DEF Kinds, Unique, Entries, CacheInv, NoCache
  <2>11. CountInv'
    <3>1. /\ Filled(Laid) = Filled(Left) + 1 /\ Slotted(Laid, Free) = threshold + reused + Slack
          /\ Slotted(Laid, Deleted) = Vector.deleted - reused /\ reused \in 0..1
      BY <1>2, <1>3, <1>4, <2>4, KeysAssumption
    <3>2. Filled(Slots)' = Filled(Laid) /\ Slotted(Slots, Free)' = Slotted(Laid, Free)
          /\ Slotted(Slots, Deleted)' = Slotted(Laid, Deleted)
      BY <2>6 DEF Filled, Slotted, Entries, Of
    <3> HIDE DEF reused
    <3>3. Vector'.count = Filled(Slots)' + Num(Aloft)'
      BY <1>2, <1>4, <2>6, <2>9, <3>1, <3>2
    <3>4. Vector'.deleted = Slotted(Slots, Deleted)'
      BY <2>6, <3>1, <3>2
    <3>5. threshold' >= 0 /\ threshold' + Slack + Num(Aloft)' = Slotted(Slots, Free)'
      BY <1>4, <2>1, <2>9, <3>1, <3>2
    <3> QED
      BY <3>3, <3>4, <3>5 DEF CountInv
  <2>12. RehashInv'
    <3>1. \A s \in Entries(Laid) : s < work'.index => s \in work.done
      BY <1>2, <1>3, <1>5, <2>7 DEF Entries
    <3> QED
      BY <1>6, <2>2, <2>6, <2>7, <2>8, <3>1 DEF RehashInv, Entries, Walk
  <2>13. RestInv' /\ CopyInv' /\ PlaceInv' /\ HandInv'
    BY <1>4, <2>7, <2>9 DEF RestInv, CopyInv, PlaceInv, HandInv, NoWork
  <2> QED
    BY <2>10, <2>11, <2>12, <2>13 DEF Order
<1> QED
  BY <1>8, <1>9

(* Every slot has an entry or a mark.                                      *)
LEMMA SlotsCounted ==
  ASSUME NEW slots \in Seq(Cells), Kinds(slots)
  PROVE  Filled(slots) + Slotted(slots, Deleted) + Slotted(slots, Free) = Len(slots)
<1> DEFINE A == Entries(slots)
<1> DEFINE B == Of(slots, Deleted)
<1> DEFINE C == Of(slots, Free)
<1>1. /\ IsFiniteSet(A) /\ IsFiniteSet(B) /\ IsFiniteSet(C)
      /\ DOMAIN slots = 1..Len(slots) /\ Len(slots) \in Nat
  BY FiniteSlots
<1>2. A \cap B = {} /\ (A \cup B) \cap C = {} /\ (A \cup B) \cup C = 1..Len(slots)
  BY <1>1, KeysAssumption DEF Kinds, Entries, Of
<1> HIDE DEF A, B, C
<1>3. Cardinality(A \cap B) = 0 /\ Cardinality((A \cup B) \cap C) = 0
  BY <1>2, FS_EmptySet, Zenon
<1>4. Cardinality(A) \in Nat /\ Cardinality(B) \in Nat /\ Cardinality(C) \in Nat
  BY <1>1, FS_CardinalityType
<1>5. IsFiniteSet(A \cup B) /\ Cardinality(A \cup B) = Cardinality(A) + Cardinality(B)
  <2>1. /\ IsFiniteSet(A \cup B)
        /\ Cardinality(A \cup B) = Cardinality(A) + Cardinality(B) - Cardinality(A \cap B)
    BY <1>1, FS_Union, Zenon
  <2> QED
    BY <1>3, <1>4, <2>1
<1>6. Cardinality((A \cup B) \cup C) = Cardinality(A) + Cardinality(B) + Cardinality(C)
  <2>1. Cardinality((A \cup B) \cup C) =
            Cardinality(A \cup B) + Cardinality(C) - Cardinality((A \cup B) \cap C)
    BY <1>1, <1>5, FS_Union, Zenon
  <2> QED
    BY <1>3, <1>4, <1>5, <2>1
<1>7. Cardinality(1..Len(slots)) = Len(slots)
  BY SMTT(60), <1>1, FS_Interval
<1> QED
  BY <1>2, <1>6, <1>7 DEF A, B, C, Filled, Slotted

(* A key is stored on its way, or its entry is deleted: no walk is cut.    *)
LEMMA StoreKeepsOrder ==
  ASSUME NEW slots \in Seq(Cells), Kinds(slots), Unique(slots),
         NEW i \in 1..Len(slots), NEW c \in Cells, NEW s, s = Write(slots, i, c),
         c.key \in Keys \cup {Deleted},
         c.key \in Keys =>
             /\ c.value \in Values /\ Walk(slots, i, address[c.key], Taken(slots))
             /\ \A j \in 1..Len(slots) : j # i => slots[j].key # c.key
  PROVE  /\ s \in Seq(Cells) /\ Len(s) = Len(slots) /\ Kinds(s) /\ Unique(s) /\ s[i] = c
         /\ OneWay(slots) => OneWay(s)
<1>1. /\ s \in Seq(Cells) /\ Len(s) = Len(slots) /\ DOMAIN s = 1..Len(slots)
      /\ s[i] = c /\ \A j \in 1..Len(slots) : j # i => s[j] = slots[j]
  <2>1. LET w == Write(slots, i, c) IN
        /\ w \in Seq(Cells) /\ Len(w) = Len(slots) /\ DOMAIN w = 1..Len(slots)
        /\ w[i] = c /\ \A j \in 1..Len(slots) : j # i => w[j] = slots[j]
    BY ZenonT(60), Stored
  <2> QED
    BY <2>1
<1>2. DOMAIN slots = 1..Len(slots)
  OBVIOUS
<1>3. Kinds(s)
  BY <1>1, <1>2 DEF Kinds
<1>4. Unique(s)
  BY <1>1, <1>2 DEF Unique, Entries
<1>5. Taken(slots) \subseteq Taken(s)
  BY <1>1, <1>2, KeysAssumption DEF Taken
<1>6. OneWay(slots) => OneWay(s)
  <2> SUFFICES ASSUME OneWay(slots), NEW e \in Entries(s) PROVE Walk(s, e, address[s[e].key], Taken(s))
    BY DEF OneWay
  <2>1. Walk(slots, e, address[s[e].key], Taken(slots))
    <3>1. CASE e = i
      BY <1>1, <1>2, <3>1 DEF Entries
    <3>2. CASE e # i
      BY <1>1, <1>2, <3>2 DEF Entries, OneWay
    <3> QED
      BY <3>1, <3>2
  <2> QED
    BY <1>1, <1>5, <2>1, WalkStays
<1> QED
  BY <1>1, <1>3, <1>4, <1>6

(* Where nobody is at the table, and nothing has moved.                    *)
LEMMA OwnerAtRest ==
  ASSUME Structure, Order, NEW t \in Threads, pc[t] \in {"put", "rem"}
  PROVE  /\ work = NoWork /\ ~Vector.moved /\ OneWay(Slots) /\ InOrder(Slots)
         /\ request[t].key \in Keys /\ request[t] \in Calls(t) /\ request[t].op = pc[t]
<1>1. LockAt(t) /\ UnmovedAt(t) /\ OpAt(t)
  BY OfThread
<1>2. lock.writer = t /\ ~Vector.moved
  BY <1>1 DEF LockAt, UnmovedAt, AtWork
<1>3. work = NoWork
  BY <1>2, NobodyElse DEF AtTable
<1>4. OneWay(Slots) /\ Unique(Slots)
  BY <1>2, <1>3 DEF Order, RestInv
<1>5. InOrder(Slots)
  BY <1>4, InOrderIs, TableParts, WorkParts
<1>6. request[t] \in Calls(t) /\ request[t].op = pc[t]
  BY <1>1 DEF OpAt, Structure, Shape
<1>7. request[t].key \in Keys
  BY <1>6, CallParts
<1> QED
  BY <1>2, <1>3, <1>4, <1>5, <1>6, <1>7

(* Where puthash stores: at the key's entry, or on the way of a key that   *)
(* has none.                                                               *)
LEMMA PutSlotIs ==
  ASSUME Structure, Order, OneWay(Slots), InOrder(Slots), NEW key \in Keys, PutSlot(key) # 0
  PROVE  LET slot == PutSlot(key) IN
         /\ slot \in 1..Len(Slots) /\ Slots[slot].key \in {key, Free, Deleted}
         /\ Walk(Slots, slot, address[key], Taken(Slots))
         /\ \A j \in 1..Len(Slots) : j # slot => Slots[j].key # key
<1> DEFINE slot == PutSlot(key)
<1> DEFINE a == address[key]
<1> DEFINE end == Probe(Slots, a, {Free, key})
<1> DEFINE new == Probe(Slots, a, {Free, Deleted})
<1>1. /\ Slots \in Seq(Cells) /\ DOMAIN Slots = 1..Len(Slots) /\ Len(Slots) \in Nat /\ Len(Slots) > 0
      /\ a \in Int /\ Unique(Slots) /\ CacheInv
  BY TableParts, WorkParts DEF Order
<1>2. ASSUME slot \in 1..Len(Slots), Slots[slot].key = key
      PROVE  /\ Walk(Slots, slot, a, Taken(Slots))
             /\ \A j \in 1..Len(Slots) : j # slot => Slots[j].key # key
  <2> HIDE DEF slot
  <2>1. slot \in Entries(Slots)
    BY <1>1, <1>2 DEF Entries
  <2> QED
    BY <1>1, <1>2, <2>1 DEF OneWay, Unique, Entries
<1>3. CASE Vector.cached.key = key
  <2>1. slot = Vector.cached.slot
    BY <1>3 DEF PutSlot
  <2>2. slot \in 1..Len(Slots) /\ Slots[slot].key = key
    BY <1>1, <1>3, <2>1 DEF CacheInv, Slot
  <2> HIDE DEF slot
  <2> QED
    BY <1>2, <2>2 DEF slot
<1>4. CASE Vector.cached.key # key /\ end # 0 /\ Slots[end].key = key
  <2>1. slot = end
    BY <1>4 DEF PutSlot, FindNew
  <2>2. end \in 0..Len(Slots)
    BY <1>1, ProbeIs
  <2> HIDE DEF slot, end
  <2>3. slot \in 1..Len(Slots) /\ Slots[slot].key = key
    BY <1>1, <1>4, <2>1, <2>2
  <2> QED
    BY <1>2, <2>3 DEF slot
<1>5. CASE Vector.cached.key # key /\ ~(end # 0 /\ Slots[end].key = key)
  <2>1. slot = new
    BY <1>5 DEF PutSlot, FindNew
  <2>2. \A e \in Entries(Slots) : Slots[e].key # key
    <3> SUFFICES ASSUME NEW e \in Entries(Slots), Slots[e].key = key PROVE FALSE
      OBVIOUS
    <3>1. end = e
      BY Zenon DEF InOrder
    <3> HIDE DEF end
    <3> QED
      BY <1>1, <1>5, <3>1 DEF Entries
  <2>3. PICK i \in 0..Len(Slots)-1 :
            /\ slot = At(Slots, a, i) /\ slot \in 1..Len(Slots) /\ Slots[slot].key \in {Free, Deleted}
            /\ \A j \in 0..i-1 : Slots[At(Slots, a, j)].key \notin {Free, Deleted}
    <3> HIDE DEF a
    <3> QED
      BY SMTT(60), <1>1, <2>1, ProbeIs
  <2>4. \A j \in 0..i-1 : At(Slots, a, j) \in 1..Len(Slots)
    BY <1>1, AtIsSlot
  <2> HIDE DEF slot, a
  <2>5. \A j \in 0..i-1 : At(Slots, a, j) \in Taken(Slots)
    BY <1>1, <2>3, <2>4 DEF Taken
  <2>6. Walk(Slots, slot, a, Taken(Slots))
    BY <2>3, <2>5 DEF Walk
  <2>7. \A j \in 1..Len(Slots) : Slots[j].key # key
    BY <1>1, <2>2 DEF Entries
  <2> QED
    BY <2>3, <2>6, <2>7 DEF slot, a
<1> QED
  BY <1>3, <1>4, <1>5

(* What holds of a table at rest holds of the whole.                       *)
LEMMA RestOrder ==
  ASSUME work = NoWork, Kinds(Slots), Unique(Slots), CacheInv, ~Vector.moved => OneWay(Slots),
         Vector.count = Filled(Slots), Vector.deleted = Slotted(Slots, Deleted),
         threshold >= 0, threshold + Slack = Slotted(Slots, Free), threshold \in Int,
         Vector.count \in Int
  PROVE  Order
<1>1. /\ work.to = 0 /\ work.back = "none" /\ ~Aloft /\ Num(Aloft) = 0
  BY AtRest
<1>2. Slack \in Int
  BY SizesAssumption
<1>3. CountInv
  BY <1>1, <1>2 DEF CountInv
<1> QED
  BY <1>1, <1>3, NotCopying, NotRehashing DEF Order, RestInv

(* The same in the next state.                                             *)
LEMMA RestOrderNext ==
  ASSUME work' = NoWork, Kinds(Slots)', Unique(Slots)', CacheInv', ~Vector'.moved => OneWay(Slots)',
         Vector'.count = Filled(Slots)', Vector'.deleted = Slotted(Slots, Deleted)',
         threshold' >= 0, threshold' + Slack = Slotted(Slots, Free)', threshold' \in Int,
         Vector'.count \in Int
  PROVE  Order'
<1>1. work'.to = 0 /\ work'.back = "none" /\ work'.hand = Empty
  BY DEF NoWork
<1>2. ~Aloft' /\ Num(Aloft)' = 0 /\ Slack \in Int
  BY <1>1, KeysAssumption, SizesAssumption DEF Aloft, Num, Empty
<1>3. CountInv'
  BY <1>1, <1>2 DEF CountInv
<1>4. CopyInv' /\ PlaceInv' /\ RehashInv' /\ HandInv'
  BY <1>1 DEF CopyInv, PlaceInv, RehashInv, HandInv
<1> QED
  BY <1>3, <1>4 DEF Order, RestInv

(* The counts of a table at rest.                                          *)
LEMMA RestCounts ==
  ASSUME Structure, Order, work = NoWork
  PROVE  /\ Vector.count = Filled(Slots) /\ Vector.deleted = Slotted(Slots, Deleted)
         /\ threshold >= 0 /\ threshold + Slack = Slotted(Slots, Free)
         /\ Filled(Slots) \in Nat /\ Slotted(Slots, Deleted) \in Nat /\ Slotted(Slots, Free) \in Nat
         /\ Filled(Slots) + Slotted(Slots, Deleted) + Slotted(Slots, Free) = Len(Slots)
         /\ threshold \in Int /\ Slack \in Int
<1>1. Slots \in Seq(Cells) /\ Kinds(Slots) /\ threshold \in Int /\ Slack \in Int
  BY TableParts, WorkParts, SizesAssumption DEF Order
<1>2. Filled(Slots) \in Nat /\ Slotted(Slots, Deleted) \in Nat /\ Slotted(Slots, Free) \in Nat
  BY <1>1, FiniteSlots, FS_CardinalityType DEF Filled, Slotted
<1>3. Filled(Slots) + Slotted(Slots, Deleted) + Slotted(Slots, Free) = Len(Slots)
  BY <1>1, SlotsCounted
<1>4. Num(Aloft) = 0
  BY AtRest
<1>5. CountInv
  BY DEF Order
<1> QED
  BY <1>1, <1>2, <1>3, <1>4, <1>5 DEF CountInv

(* puthash stores a pair where its key's walk ends, and counts it.         *)
LEMMA OrderPut ==
  ASSUME Structure, Order, NEW t \in Threads, Put(t)
  PROVE  Order'
<1> DEFINE key == request[t].key
<1> DEFINE value == request[t].value
<1> DEFINE slot == PutSlot(key)
<1> DEFINE was == Slots[slot].key
<1> DEFINE cell == Slot(key, value)
<1> DEFINE tb == [Vector EXCEPT
                     !.slots[slot] = Slot(key, value),
                     !.count = @ + IF was = key THEN 0 ELSE 1,
                     !.deleted = @ - IF was = Deleted THEN 1 ELSE 0,
                     !.cached = [key |-> key, value |-> value, slot |-> slot]]
<1>1. /\ pc[t] = "put" /\ slot # 0 /\ HasRoom(slot)
      /\ threshold' = threshold - (IF was = Free THEN 1 ELSE 0)
      /\ Update(t, tb, "enable") /\ UNCHANGED work
  BY DEF Put
<1>2. /\ work = NoWork /\ ~Vector.moved /\ OneWay(Slots) /\ InOrder(Slots)
      /\ key \in Keys /\ request[t] \in Calls(t) /\ request[t].op = "put"
  BY <1>1, OwnerAtRest
<1>3. value \in Values
  BY <1>2, CallParts
<1>4. /\ Vector \in Tables /\ Slots \in Seq(Cells) /\ Slots = Vector.slots /\ Vector.count \in Int
      /\ Vector.deleted \in Int /\ threshold \in Int /\ Slack \in Int
      /\ Kinds(Slots) /\ Unique(Slots)
  BY TableParts, WorkParts, SizesAssumption DEF Tables, Order, Slots
<1>5. /\ slot \in 1..Len(Slots) /\ was \in {key, Free, Deleted}
      /\ Walk(Slots, slot, address[key], Taken(Slots))
      /\ \A j \in 1..Len(Slots) : j # slot => Slots[j].key # key
  <2> HIDE DEF key
  <2> QED
    BY <1>1, <1>2, PutSlotIs
<1>6. cell \in Cells /\ cell.key = key /\ cell.value = value
  BY <1>2, <1>3 DEF Slot, Cells, Words
<1>7. Vector' = tb /\ Slots' = tb.slots /\ UNCHANGED address
  <2> HIDE DEF tb
  <2> QED
    BY <1>1, Updated
<1> DEFINE d == IF was = key THEN 0 ELSE 1
<1> DEFINE e == IF was = Deleted THEN 1 ELSE 0
<1> DEFINE f == IF was = Free THEN 1 ELSE 0
<1> DEFINE c == [key |-> key, value |-> value, slot |-> slot]
<1>8. /\ tb.slots = Write(Slots, slot, cell) /\ tb.moved = Vector.moved
      /\ tb.count = Vector.count + d /\ tb.deleted = Vector.deleted - e /\ tb.cached = c
  <2>1. d \in Int /\ e \in Int
    OBVIOUS
  <2>2. tb = [Vector EXCEPT !.slots[slot] = cell, !.count = @ + d, !.deleted = @ - e, !.cached = c]
    OBVIOUS
  <2> HIDE DEF tb, slot, cell, d, e, c
  <2> QED
    BY <1>4, <2>1, <2>2 DEF Tables, Write
<1> HIDE DEF tb, slot
<1> DEFINE s == Write(Slots, slot, cell)
<1>9. s \in Seq(Cells) /\ Len(s) = Len(Slots) /\ Kinds(s) /\ Unique(s) /\ OneWay(s) /\ s[slot] = cell
  <2>1. Slots \in Seq(Cells) /\ slot \in 1..Len(Slots) /\ cell \in Cells
    BY <1>4, <1>5, <1>6
  <2>2. /\ cell.key \in Keys /\ cell.value \in Values /\ Walk(Slots, slot, address[cell.key], Taken(Slots))
        /\ \A j \in 1..Len(Slots) : j # slot => Slots[j].key # cell.key
    BY <1>2, <1>3, <1>5, <1>6
  <2> HIDE DEF cell
  <2> QED
    BY <1>2, <1>4, <2>1, <2>2, StoreKeepsOrder
<1>10. s = Slots'
  BY <1>7, <1>8
<1>11. Filled(s) = Filled(Slots) + d /\ Slotted(s, Free) = Slotted(Slots, Free) - f
       /\ Slotted(s, Deleted) = Slotted(Slots, Deleted) - e
  <2>1. Slots \in Seq(Cells) /\ slot \in 1..Len(Slots) /\ cell \in Cells
    BY <1>4, <1>5, <1>6
  <2>2. cell.key \in Keys /\ cell.key # Free /\ cell.key # Deleted /\ Free \notin Keys
        /\ Deleted \notin Keys /\ Free # Deleted
    BY <1>2, <1>6, KeysAssumption
  <2> HIDE DEF cell
  <2>3. /\ was \in Keys => Filled(s) = Filled(Slots)
        /\ was \notin Keys => Filled(s) = Filled(Slots) + 1
        /\ Filled(Slots) \in Nat
    BY <2>1, <2>2, StoredFilled
  <2>4. /\ was # Free => Slotted(s, Free) = Slotted(Slots, Free)
        /\ was = Free => Slotted(s, Free) = Slotted(Slots, Free) - 1
        /\ Slotted(Slots, Free) \in Nat
    BY <2>1, <2>2, StoredOf
  <2>5. /\ was # Deleted => Slotted(s, Deleted) = Slotted(Slots, Deleted)
        /\ was = Deleted => Slotted(s, Deleted) = Slotted(Slots, Deleted) - 1
        /\ Slotted(Slots, Deleted) \in Nat
    BY <2>1, <2>2, StoredOf
  <2> HIDE DEF s
  <2> QED
    BY <1>2, <1>5, <2>2, <2>3, <2>4, <2>5
<1>12. /\ Vector.count = Filled(Slots) /\ Vector.deleted = Slotted(Slots, Deleted)
       /\ threshold >= 0 /\ threshold + Slack = Slotted(Slots, Free)
  BY <1>2, RestCounts
<1>13. f \in 0..1 /\ (f = 1 => threshold > 0) /\ d \in 0..1 /\ e \in 0..1
  BY <1>1 DEF HasRoom
<1>14. CacheInv'
  <2>1. Slots'[slot] = Slot(key, value) /\ slot \in DOMAIN Slots'
    <3> HIDE DEF s
    <3> QED
      BY <1>4, <1>5, <1>9, <1>10
  <2>2. Vector'.cached.key = key /\ Vector'.cached.value = value /\ Vector'.cached.slot = slot
    BY <1>7, <1>8
  <2> HIDE DEF key, value
  <2> QED
    BY <2>1, <2>2 DEF CacheInv
<1> HIDE DEF s, d, e, f, was, cell
<1>15. Kinds(Slots)' /\ Unique(Slots)' /\ OneWay(Slots)'
  BY <1>7, <1>9, <1>10 DEF Kinds, Unique, OneWay, Entries, Walk, Taken
<1>16. Filled(Slots)' = Filled(s) /\ Slotted(Slots, Deleted)' = Slotted(s, Deleted)
       /\ Slotted(Slots, Free)' = Slotted(s, Free)
  BY <1>10 DEF Filled, Slotted, Entries, Of
<1>17. Vector'.count = Filled(Slots)' /\ Vector'.count \in Int
  BY <1>4, <1>7, <1>8, <1>11, <1>12, <1>13, <1>16
<1>18. Vector'.deleted = Slotted(Slots, Deleted)'
  BY <1>7, <1>8, <1>11, <1>12, <1>16
<1>19. threshold' = threshold - f
  BY <1>1 DEF f, was, slot
<1>20. threshold' >= 0 /\ threshold' + Slack = Slotted(Slots, Free)' /\ threshold' \in Int
  BY <1>4, <1>11, <1>12, <1>13, <1>16, <1>19
<1>21. work' = NoWork
  BY <1>1, <1>2
<1> QED
  BY <1>14, <1>15, <1>17, <1>18, <1>20, <1>21, RestOrderNext

(* remhash leaves a mark that walks pass.                                  *)
LEMMA OrderRemove ==
  ASSUME Structure, Order, NEW t \in Threads, Remove(t)
  PROVE  Order'
<1> DEFINE key == request[t].key
<1> DEFINE walk == Probe(Slots, address[key], {Free, key})
<1> DEFINE slot == IF Vector.cached.key = key THEN Vector.cached.slot ELSE walk
<1> DEFINE cell == Slot(Deleted, None)
<1> DEFINE tb == [Vector EXCEPT !.slots[slot] = Slot(Deleted, None),
                                !.count = @ - 1, !.deleted = @ + 1,
                                !.cached = NoCache]
<1>1. pc[t] = "rem" /\ UNCHANGED <<threshold, work>>
  BY DEF Remove
<1>2. /\ work = NoWork /\ ~Vector.moved /\ OneWay(Slots) /\ InOrder(Slots) /\ key \in Keys
  BY <1>1, OwnerAtRest
<1>3. /\ Vector \in Tables /\ Slots \in Seq(Cells) /\ Slots = Vector.slots /\ Vector.count \in Int
      /\ Vector.deleted \in Int /\ Kinds(Slots) /\ Unique(Slots) /\ CacheInv
      /\ DOMAIN Slots = 1..Len(Slots) /\ address[key] \in Int
  BY <1>2, TableParts, WorkParts DEF Tables, Order, Slots
<1>4. CASE ~(slot # 0 /\ Slots[slot].key = key)
  <2>1. Update(t, Vector, "enable")
    BY <1>4 DEF Remove
  <2>2. Vector' = Vector /\ UNCHANGED <<vector, address>>
    BY <2>1, Updated
  <2>3. work.to = 0
    BY <1>2, AtRest
  <2> QED
    BY <1>1, <2>2, <2>3, SameOrder
<1>5. CASE slot # 0 /\ Slots[slot].key = key
  <2>1. Update(t, tb, "enable")
    BY <1>5 DEF Remove
  <2>2. Vector' = tb /\ Slots' = tb.slots /\ UNCHANGED address
    <3> HIDE DEF tb
    <3> QED
      BY <2>1, Updated
  <2>3. slot \in 1..Len(Slots)
    <3>1. CASE Vector.cached.key = key
      <4>1. Vector.cached.slot \in DOMAIN Slots
        BY <1>2, <1>3, <3>1 DEF CacheInv
      <4> QED
        BY <1>3, <3>1, <4>1
    <3>2. CASE Vector.cached.key # key
      <4>1. walk \in 0..Len(Slots)
        BY <1>3, ProbeIs
      <4> HIDE DEF walk
      <4> QED
        BY <1>3, <1>5, <3>2, <4>1
    <3> QED
      BY <3>1, <3>2
  <2>4. cell \in Cells /\ cell.key = Deleted /\ Deleted \notin Keys /\ Deleted # Free /\ key # Free /\ key # Deleted
    BY <1>2, KeysAssumption DEF Slot, Cells, Words
  <2>5. /\ tb.slots = Write(Slots, slot, cell) /\ tb.moved = Vector.moved
        /\ tb.count = Vector.count - 1 /\ tb.deleted = Vector.deleted + 1 /\ tb.cached = NoCache
    <3>1. tb = [Vector EXCEPT !.slots[slot] = cell, !.count = @ - 1, !.deleted = @ + 1, !.cached = NoCache]
      OBVIOUS
    <3> HIDE DEF tb, slot, cell
    <3> QED
      BY <1>3, <3>1 DEF Tables, Write
  <2> DEFINE s == Write(Slots, slot, cell)
  <2>a. Slots \in Seq(Cells) /\ slot \in 1..Len(Slots) /\ cell \in Cells /\ Slots[slot].key = key
    BY <1>3, <1>5, <2>3, <2>4
  <2> HIDE DEF tb, slot, cell
  <2>6. s \in Seq(Cells) /\ Kinds(s) /\ Unique(s) /\ OneWay(s)
    BY <1>2, <1>3, <2>4, <2>a, StoreKeepsOrder
  <2>7. Filled(s) = Filled(Slots) - 1
    BY <1>2, <2>4, <2>a, StoredFilled
  <2>8. Slotted(s, Free) = Slotted(Slots, Free)
    BY <2>4, <2>a, StoredOf
  <2>9. Slotted(s, Deleted) = Slotted(Slots, Deleted) + 1
    BY <2>4, <2>a, StoredOf
  <2>10. /\ Vector.count = Filled(Slots) /\ Vector.deleted = Slotted(Slots, Deleted)
         /\ threshold >= 0 /\ threshold + Slack = Slotted(Slots, Free) /\ threshold \in Int
    BY <1>2, RestCounts
  <2>11. s = Slots'
    BY <2>2, <2>5
  <2> HIDE DEF s
  <2>12. Kinds(Slots)' /\ Unique(Slots)' /\ OneWay(Slots)'
    BY <2>2, <2>6, <2>11 DEF Kinds, Unique, OneWay, Entries, Walk, Taken
  <2>13. Filled(Slots)' = Filled(s) /\ Slotted(Slots, Deleted)' = Slotted(s, Deleted)
         /\ Slotted(Slots, Free)' = Slotted(s, Free)
    BY <2>11 DEF Filled, Slotted, Entries, Of
  <2>14. CacheInv'
    BY <2>2, <2>5, KeysAssumption DEF CacheInv, NoCache
  <2>15. Vector'.count = Filled(Slots)' /\ Vector'.count \in Int /\ Vector'.deleted = Slotted(Slots, Deleted)'
    BY <1>3, <2>2, <2>5, <2>7, <2>9, <2>10, <2>13
  <2>16. threshold' >= 0 /\ threshold' + Slack = Slotted(Slots, Free)' /\ threshold' \in Int
    BY <1>1, <2>8, <2>10, <2>13
  <2>17. work' = NoWork
    BY <1>1, <1>2
  <2> QED
    BY <2>12, <2>14, <2>15, <2>16, <2>17, RestOrderNext
<1> QED
  BY <1>4, <1>5

(* A vector of free slots.                                                 *)
LEMMA AllFree ==
  ASSUME NEW slots \in Seq(Cells), \A i \in 1..Len(slots) : slots[i] = Slot(Free, Free)
  PROVE  /\ Kinds(slots) /\ Unique(slots) /\ OneWay(slots) /\ Entries(slots) = {}
         /\ Of(slots, Deleted) = {} /\ Of(slots, Free) = 1..Len(slots)
         /\ Filled(slots) = 0 /\ Slotted(slots, Deleted) = 0 /\ Slotted(slots, Free) = Len(slots)
<1>1. DOMAIN slots = 1..Len(slots) /\ Len(slots) \in Nat
  OBVIOUS
<1>2. \A i \in 1..Len(slots) : slots[i].key = Free
  BY DEF Slot
<1>3. Entries(slots) = {} /\ Of(slots, Deleted) = {} /\ Of(slots, Free) = 1..Len(slots)
  BY <1>1, <1>2, KeysAssumption DEF Entries, Of
<1>4. Kinds(slots) /\ Unique(slots) /\ OneWay(slots)
  BY <1>1, <1>2, <1>3, KeysAssumption DEF Kinds, Unique, OneWay
<1>5. Filled(slots) = 0
  BY <1>3, FS_EmptySet DEF Filled
<1>6. Slotted(slots, Deleted) = 0
  BY <1>3, FS_EmptySet DEF Slotted
<1>7. Slotted(slots, Free) = Len(slots)
  BY SMTT(60), <1>1, <1>3, FS_Interval DEF Slotted
<1> QED
  BY <1>3, <1>4, <1>5, <1>6, <1>7

(* clrhash leaves nothing to find.                                         *)
LEMMA OrderClear ==
  ASSUME Structure, Order, NEW t \in Threads, Clear(t)
  PROVE  Order'
<1> DEFINE s == [i \in DOMAIN Slots |-> Slot(Free, Free)]
<1> DEFINE tb == [Unused EXCEPT !.slots = s]
<1>1. pc[t] = "clear" /\ threshold' = RoomAfterClear /\ UNCHANGED work /\ Update(t, tb, "enable")
  BY DEF Clear
<1>2. work = NoWork
  <2>1. lock.writer = t
    BY <1>1, OfThread DEF LockAt, AtWork
  <2> QED
    BY <1>1, <2>1, NobodyElse DEF AtTable
<1>3. s \in Seq(Cells) /\ Len(s) = Len(Slots) /\ \A i \in 1..Len(s) : s[i] = Slot(Free, Free)
  <2>1. Slot(Free, Free) \in Cells
    BY DEF Slot, Cells, Words
  <2>2. DOMAIN Slots = 1..Len(Slots) /\ Len(Slots) \in Nat
    BY TableParts
  <2>3. PICK c : c = Slot(Free, Free)
    OBVIOUS
  <2>4. s = [i \in 1..Len(Slots) |-> c]
    BY <2>2, <2>3
  <2> HIDE DEF s
  <2> QED
    BY <2>1, <2>2, <2>3, <2>4
<1> HIDE DEF s
<1>4. tb.slots = s /\ tb.moved = FALSE /\ tb.count = 0 /\ tb.deleted = 0 /\ tb.cached = NoCache
  BY DEF Unused
<1> HIDE DEF tb
<1>5. Vector' = tb /\ Slots' = s
  BY <1>1, <1>4, Updated
<1>6. /\ Kinds(s) /\ Unique(s) /\ OneWay(s)
      /\ Filled(s) = 0 /\ Slotted(s, Deleted) = 0 /\ Slotted(s, Free) = Len(s)
  BY <1>3, AllFree
<1>7. Kinds(Slots)' /\ Unique(Slots)' /\ OneWay(Slots)'
  <2>1. Kinds(Slots)' /\ Unique(Slots)'
    BY <1>5, <1>6 DEF Kinds, Unique, Entries
  <2>2. Entries(s) = {}
    BY <1>3, AllFree
  <2>3. Entries(Slots)' = {}
    BY <1>5, <2>2 DEF Entries
  <2> QED
    BY <2>1, <2>3 DEF OneWay
<1>8. Filled(Slots)' = Filled(s) /\ Slotted(Slots, Deleted)' = Slotted(s, Deleted)
      /\ Slotted(Slots, Free)' = Slotted(s, Free)
  BY <1>5 DEF Filled, Slotted, Entries, Of
<1>9. CacheInv'
  BY <1>4, <1>5, KeysAssumption DEF CacheInv, NoCache
<1>10. threshold' >= 0 /\ threshold' + Slack = Len(Slots) /\ threshold' \in Int
  <2>1. /\ Vector.count = Filled(Slots) /\ Vector.deleted = Slotted(Slots, Deleted)
        /\ threshold >= 0 /\ threshold + Slack = Slotted(Slots, Free)
        /\ Filled(Slots) \in Nat /\ Slotted(Slots, Deleted) \in Nat /\ Slotted(Slots, Free) \in Nat
        /\ Filled(Slots) + Slotted(Slots, Deleted) + Slotted(Slots, Free) = Len(Slots)
        /\ threshold \in Int /\ Slack \in Int
    BY <1>2, RestCounts
  <2>2. threshold' = threshold + Vector.count + Vector.deleted
    BY <1>1 DEF RoomAfterClear
  <2> QED
    BY <2>1, <2>2
<1>11. work' = NoWork /\ Vector'.count = 0 /\ Vector'.deleted = 0
  BY <1>1, <1>2, <1>4, <1>5
<1> QED
  BY <1>3, <1>6, <1>7, <1>8, <1>9, <1>10, <1>11, RestOrderNext

(* The growth begins, with a rehash where the vector is flagged.           *)
LEMMA OrderGrow ==
  ASSUME Structure, Order, NEW t \in Threads, Grow(t)
  PROVE  Order'
<1> DEFINE new == Min({v \in Vectors : vectors[v] = Unused})
<1> DEFINE size == NewSize(Vector.count)
<1>1. pc[t] = "grow"
  BY DEF Grow
<1>2. work = NoWork
  <2>1. lock.writer = t
    BY <1>1, OfThread DEF LockAt, AtWork
  <2> QED
    BY <1>1, <2>1, NobodyElse DEF AtTable
<1>3. CASE GrowInPlace
  <2>1. StartRehash(t, "inhibit")
    BY <1>3 DEF Grow
  <2> QED
    BY <1>2, <2>1, StartOrder
<1>4. CASE ~GrowInPlace
  <2>1. /\ vectors' = [vectors EXCEPT ![new] = NewVector(size)]
        /\ work' = [NoWork EXCEPT !.to = new, !.index = 1]
        /\ UNCHANGED <<vector, threshold, address>>
    BY <1>4 DEF Grow, Keep
  <2>2. new \in Vectors \ {vector} /\ new # 0
    BY <1>2, ChosenUnused, ConstantTypes
  <2>3. size \in Nat
    BY TableParts, NewSizeIs DEF Tables
  <2> HIDE DEF new
  <2>4. work'.to = new /\ work'.index = 1 /\ work'.hand = Empty /\ work'.back = "none" /\ work' # NoWork
    BY <2>1, <2>2 DEF NoWork
  <2>5. Vector' = Vector /\ Slots' = Slots /\ Grown' = NewVector(size)
    BY <2>1, <2>2, <2>4, TableParts DEF Vector, Slots, Grown
  <2> DEFINE tb == NewVector(size)
  <2>6. /\ tb \in Tables /\ Len(tb.slots) = size + Slack
        /\ tb.slots \in Seq(Cells) /\ \A i \in 1..Len(tb.slots) : tb.slots[i] = Slot(Free, Free)
        /\ tb.moved = FALSE /\ tb.count = 0 /\ tb.deleted = 0 /\ tb.cached = NoCache
    <3> HIDE DEF size
    <3> QED
      BY <2>3, NewVectorIs
  <2> HIDE DEF tb
  <2>7. /\ Kinds(tb.slots) /\ Unique(tb.slots) /\ OneWay(tb.slots) /\ Entries(tb.slots) = {}
        /\ Of(tb.slots, Deleted) = {} /\ Filled(tb.slots) = 0
    BY <2>6, AllFree
  <2>8. ~Aloft' /\ Num(Aloft)' = 0 /\ Num(Aloft) = 0 /\ work'.hand.key \notin Keys
    <3>1. work'.hand.key \notin Keys
      BY <2>4, KeysAssumption DEF Empty
    <3> QED
      BY <1>2, <3>1, AtRest DEF Aloft, Num
  <2>9. Kinds(Slots)' /\ Unique(Slots)' /\ CacheInv' /\ CountInv'
    BY <2>1, <2>5, <2>8 DEF Order, Kinds, Unique, CacheInv, CountInv, Filled, Slotted, Of, Entries
  <2>10. RestInv' /\ RehashInv' /\ HandInv' /\ PlaceInv'
    BY <2>4, <2>8 DEF RestInv, RehashInv, HandInv, PlaceInv
  <2>11. CopyInv'
    <3>1. Below' = {}
      <4>1. \A i \in Entries(Slots)' : ~(i < 1)
        BY <2>5, TableParts DEF Entries
      <4> QED
        BY <2>4, <4>1 DEF Below
    <3>2. Cardinality(Below') = 0
      BY <3>1, FS_EmptySet
    <3>3. Grown' = tb
      BY <2>5 DEF tb
    <3>4. /\ Kinds(Grown.slots)' /\ Unique(Grown.slots)' /\ Of(Grown.slots, Deleted)' = {}
          /\ Entries(Grown.slots)' = {}
      BY <2>7, <3>3 DEF Kinds, Unique, Of, Entries
    <3>5. OneWay(Grown.slots)'
      BY <3>4 DEF OneWay
    <3>6. Filled(Grown.slots)' = Cardinality(Below')
      BY <3>2, <3>4, FS_EmptySet DEF Filled
    <3>7. {Grown.slots[i] : i \in Entries(Grown.slots)}' = {Slots[i] : i \in Below}'
      BY <3>1, <3>4
    <3>8. Len(Grown.slots)' = NewSize(Vector.count)' + Slack
      <4>1. Len(Grown.slots)' = size + Slack
        BY <2>6, <3>3
      <4> QED
        BY <2>5, <4>1 DEF NewSize
    <3> QED
      BY <2>4, <2>6, <3>3, <3>4, <3>5, <3>6, <3>7, <3>8 DEF CopyInv
  <2> QED
    BY <2>9, <2>10, <2>11 DEF Order
<1> QED
  BY <1>3, <1>4

(* The growth in the order, and the room that the new vector has.          *)
LEMMA CopyOrder ==
  ASSUME Structure, Order, NEW t \in Threads, pc[t] \in {"copy", "place"}
  PROVE  /\ work.to # 0 /\ work.to # vector /\ work # NoWork /\ work.back = "none"
         /\ Kinds(Slots) /\ Unique(Slots) /\ Num(Aloft) = 0 /\ ~Aloft
         /\ Grown \in Tables /\ Grown.slots \in Seq(Cells)
         /\ Len(Grown.slots) = NewSize(Vector.count) + Slack
         /\ Grown.deleted = 0 /\ Grown.cached = NoCache
         /\ Kinds(Grown.slots) /\ Of(Grown.slots, Deleted) = {} /\ Unique(Grown.slots)
         /\ {Grown.slots[i] : i \in Entries(Grown.slots)} = {Slots[i] : i \in Below}
         /\ Filled(Grown.slots) = Cardinality(Below)
         /\ ~Grown.moved => OneWay(Grown.slots)
         /\ Vector.count = Filled(Slots) /\ Filled(Slots) \in Nat /\ threshold >= 0
         /\ Below \subseteq Entries(Slots) /\ IsFiniteSet(Below) /\ Cardinality(Below) \in Nat
         /\ Slotted(Grown.slots, Free) = Len(Grown.slots) - Cardinality(Below)
         /\ Slotted(Grown.slots, Deleted) = 0 /\ Slotted(Grown.slots, Free) > 0
<1>1. work.to # 0 /\ work.to # vector /\ Grown \in Tables /\ Grown.slots \in Seq(Cells)
  BY CopyParts DEF Grown
<1>2. CopyInv /\ CountInv /\ Kinds(Slots) /\ Unique(Slots)
  BY DEF Order
<1>3. /\ work.back = "none"
      /\ Len(Grown.slots) = NewSize(Vector.count) + Slack
      /\ Grown.deleted = 0 /\ Grown.cached = NoCache
      /\ Kinds(Grown.slots) /\ Of(Grown.slots, Deleted) = {} /\ Unique(Grown.slots)
      /\ {Grown.slots[i] : i \in Entries(Grown.slots)} = {Slots[i] : i \in Below}
      /\ Filled(Grown.slots) = Cardinality(Below)
      /\ ~Grown.moved => OneWay(Grown.slots)
  BY <1>1, <1>2 DEF CopyInv
<1>4. ~Aloft /\ Num(Aloft) = 0
  BY <1>1 DEF Aloft, Num
<1>5. Slots \in Seq(Cells) /\ IsFiniteSet(Entries(Slots))
  BY TableParts, FiniteSlots
<1>6. Filled(Slots) \in Nat /\ Vector.count = Filled(Slots) /\ threshold >= 0
  <2>1. Filled(Slots) \in Nat
    BY <1>5, FS_CardinalityType DEF Filled
  <2> QED
    BY <1>2, <1>4, <2>1 DEF CountInv
<1>7. Below \subseteq Entries(Slots)
  BY DEF Below
<1>8. IsFiniteSet(Below) /\ Cardinality(Below) \in Nat /\ Cardinality(Below) <= Filled(Slots)
  BY <1>5, <1>7, FS_Subset, FS_CardinalityType DEF Filled
<1>9. Slotted(Grown.slots, Deleted) = 0
  BY <1>3, FS_EmptySet DEF Slotted
<1>10. Filled(Grown.slots) + Slotted(Grown.slots, Deleted) + Slotted(Grown.slots, Free) = Len(Grown.slots)
  BY <1>1, <1>3, SlotsCounted
<1>11. Slotted(Grown.slots, Free) \in Nat /\ Len(Grown.slots) \in Nat
  BY <1>1, FiniteSlots, FS_CardinalityType DEF Slotted
<1>12. Slotted(Grown.slots, Free) = Len(Grown.slots) - Cardinality(Below)
  BY <1>3, <1>8, <1>9, <1>10, <1>11
<1>13. Slotted(Grown.slots, Free) > 0
  <2>1. NewSize(Vector.count) \in Nat /\ NewSize(Vector.count) > Vector.count /\ Slack \in Nat
    BY <1>6, NewSizeIs, SizesAssumption
  <2> QED
    BY <1>3, <1>6, <1>8, <1>11, <1>12, <2>1
<1>14. work # NoWork
  BY <1>1 DEF NoWork
<1> QED
  BY <1>1, <1>2, <1>3, <1>4, <1>6, <1>7, <1>8, <1>9, <1>12, <1>13, <1>14, Zenon

(* A step of the growth that places no entry.                              *)
LEMMA SameCopy ==
  ASSUME CopyInv, work'.to = work.to, work'.back = work.back, Vector' = Vector, address' = address,
         Grown' = Grown, Below' = Below
  PROVE  CopyInv'
<1> SUFFICES ASSUME work.to # 0 PROVE CopyInv'
  BY DEF CopyInv
<1>1. Slots' = Slots
  BY DEF Slots
<1>2. /\ Kinds(Grown.slots)' = Kinds(Grown.slots) /\ Unique(Grown.slots)' = Unique(Grown.slots)
      /\ Of(Grown.slots, Deleted)' = Of(Grown.slots, Deleted)
      /\ Entries(Grown.slots)' = Entries(Grown.slots)
  BY DEF Kinds, Unique, Of, Entries
<1>3. OneWay(Grown.slots)' = OneWay(Grown.slots)
  BY DEF OneWay, Taken, Walk, Entries
<1>4. {Grown.slots[i] : i \in Entries(Grown.slots)}' = {Grown.slots[i] : i \in Entries(Grown.slots)}
      /\ {Slots[i] : i \in Below}' = {Slots[i] : i \in Below}
  BY <1>1, <1>2
<1> QED
  BY <1>2, <1>3, <1>4 DEF CopyInv, Filled

(* An entry is hashed for the new vector; a deleted slot is left behind.   *)
LEMMA OrderCopySlot ==
  ASSUME Structure, Order, NEW t \in Threads, CopySlot(t)
  PROVE  Order'
<1> DEFINE slot == Slots[work.index]
<1> DEFINE to == Probe(Grown.slots, address[slot.key], {Free, Deleted})
<1> DEFINE hand == [key |-> slot.key, value |-> slot.value, from |-> work.index, to |-> to]
<1>1. /\ pc[t] = "copy" /\ work.index <= Len(Slots) /\ UNCHANGED <<vector, vectors, threshold, address>>
  BY DEF CopySlot, Keep, tableVars
<1>2. /\ work.to # 0 /\ work.back = "none" /\ Kinds(Slots) /\ ~Aloft /\ Num(Aloft) = 0
      /\ Grown.slots \in Seq(Cells) /\ Of(Grown.slots, Deleted) = {} /\ Slotted(Grown.slots, Free) > 0
  BY <1>1, CopyOrder
<1>3. /\ Slots \in Seq(Cells) /\ DOMAIN Slots = 1..Len(Slots) /\ work \in Works /\ address \in [Keys -> Int]
      /\ work.index \in 1..Len(Slots) /\ slot \in Cells
  BY <1>1, CopyParts, TableParts, WorkParts
<1>4. Vector' = Vector /\ Slots' = Slots
  BY <1>1 DEF Vector, Slots
<1>5. CASE slot.key \in Keys
  <2>1. work' = [work EXCEPT !.hand = hand]
    BY <1>5 DEF CopySlot, Grown
  <2>2. hand.key = slot.key /\ hand.value = slot.value /\ hand.from = work.index /\ hand.to = to
    OBVIOUS
  <2> HIDE DEF hand
  <2>3. work'.hand = hand /\ work'.to = work.to /\ work'.index = work.index /\ work'.back = "none"
        /\ work'.done = work.done
    BY <1>2, <1>3, <2>1 DEF Works
  <2>4. Grown' = Grown
    BY <1>1, <2>3 DEF Grown
  <2>5. ~Aloft' /\ Num(Aloft)' = 0
    BY <1>2, <2>3 DEF Aloft, Num
  <2>6. Kinds(Slots)' /\ Unique(Slots)' /\ CacheInv' /\ CountInv'
    BY <1>1, <1>2, <1>4, <2>5 DEF Order, Kinds, Unique, CacheInv, CountInv, Filled, Slotted, Of, Entries
  <2>7. RestInv' /\ RehashInv' /\ HandInv'
    BY <1>2, <2>3 DEF RestInv, RehashInv, HandInv, NoWork
  <2>8. CopyInv'
    <3>1. CopyInv /\ Below' = Below
      BY <1>4, <2>3 DEF Order, Below, Entries
    <3> QED
      BY <1>1, <1>2, <1>4, <2>3, <2>4, <3>1, SameCopy
  <2>9. to \in Of(Grown.slots, Free) /\ Walk(Grown.slots, to, address[slot.key], Taken(Grown.slots))
    <3> DEFINE new == Grown.slots
    <3> DEFINE a == address[slot.key]
    <3>1. a \in Int
      BY <1>3, <1>5
    <3>2. new \in Seq(Cells) /\ Len(new) \in Nat /\ DOMAIN new = 1..Len(new)
      BY <1>2
    <3>3. \E r \in 1..Len(new) : new[r].key = Free
      <4>1. Of(new, Free) # {}
        <5> SUFFICES ASSUME Of(new, Free) = {} PROVE FALSE
          OBVIOUS
        <5>1. Slotted(new, Free) = 0
          BY FS_EmptySet DEF Slotted
        <5> QED
          BY <1>2, <5>1
      <4> QED
        BY <3>2, <4>1 DEF Of
    <3>4. \A r \in 1..Len(new) : new[r].key # Deleted
      BY <1>2, <3>2 DEF Of
    <3> HIDE DEF a, new
    <3>5. /\ to \in 0..Len(new)
          /\ to # 0 => \E i \in 0..Len(new)-1 :
                /\ to = At(new, a, i) /\ to \in 1..Len(new) /\ new[to].key \in {Free, Deleted}
                /\ \A j \in 0..i-1 : new[At(new, a, j)].key \notin {Free, Deleted}
          /\ to = 0 => \A r \in 1..Len(new) : new[r].key \notin {Free, Deleted}
      <4>1. PICK table, place : table = new /\ place = a
        OBVIOUS
      <4>2. table \in Seq(Cells) /\ Len(table) \in Nat /\ place \in Int
        BY <3>1, <3>2, <4>1
      <4>3. LET p == Probe(table, place, {Free, Deleted}) IN
            /\ p \in 0..Len(table)
            /\ p # 0 => \E i \in 0..Len(table)-1 :
                  /\ p = At(table, place, i) /\ p \in 1..Len(table) /\ table[p].key \in {Free, Deleted}
                  /\ \A j \in 0..i-1 : table[At(table, place, j)].key \notin {Free, Deleted}
            /\ p = 0 => \A r \in 1..Len(table) : table[r].key \notin {Free, Deleted}
        BY <4>2, ProbeIs
      <4>4. to = Probe(table, place, {Free, Deleted})
        BY <4>1 DEF to, a, new
      <4> QED
        BY <4>1, <4>3, <4>4
    <3>6. to # 0
      BY <3>3, <3>5
    <3>7. PICK i \in 0..Len(new)-1 :
                /\ to = At(new, a, i) /\ to \in 1..Len(new) /\ new[to].key \in {Free, Deleted}
                /\ \A j \in 0..i-1 : new[At(new, a, j)].key \notin {Free, Deleted}
      BY <3>5, <3>6
    <3>8. to \in Of(new, Free)
      BY <3>2, <3>4, <3>7 DEF Of
    <3>9. \A j \in 0..i-1 : At(new, a, j) \in 1..Len(new)
      BY <3>1, <3>2, <3>7, AtIsSlot
    <3>10. \A j \in 0..i-1 : At(new, a, j) \in Taken(new)
      BY <3>2, <3>7, <3>9 DEF Taken
    <3>11. Walk(new, to, a, Taken(new))
      BY <3>7, <3>10 DEF Walk
    <3> QED
      BY <3>8, <3>11 DEF new, a
  <2>10. PlaceInv'
    <3>1. Slots[work.index] = Slot(slot.key, slot.value)
      BY <1>3, CellIs
    <3> HIDE DEF to
    <3> QED
      BY <1>1, <1>4, <2>2, <2>3, <2>4, <2>9, <3>1 DEF PlaceInv, Of, Walk, Taken
  <2> QED
    BY <2>6, <2>7, <2>8, <2>10 DEF Order
<1>6. CASE slot.key \notin Keys
  <2>1. work' = [work EXCEPT !.index = @ + 1]
    BY <1>6 DEF CopySlot
  <2>2. work'.hand = work.hand /\ work'.to = work.to /\ work'.index = work.index + 1 /\ work'.back = "none"
    BY <1>2, <1>3, <2>1 DEF Works
  <2>3. Grown' = Grown
    BY <1>1, <2>2 DEF Grown
  <2>4. work.hand = Empty /\ work'.hand.key \notin Keys
    BY <1>1, <2>2, CopyParts, KeysAssumption DEF CopyAt, Empty
  <2>5. ~Aloft' /\ Num(Aloft)' = 0
    BY <1>2, <2>2 DEF Aloft, Num
  <2>6. Kinds(Slots)' /\ Unique(Slots)' /\ CacheInv' /\ CountInv'
    BY <1>1, <1>2, <1>4, <2>5 DEF Order, Kinds, Unique, CacheInv, CountInv, Filled, Slotted, Of, Entries
  <2>7. RestInv' /\ RehashInv' /\ HandInv'
    BY <1>2, <2>2 DEF RestInv, RehashInv, HandInv, NoWork
  <2>8. CopyInv'
    <3>1. CopyInv
      BY DEF Order
    <3>2. Below' = Below
      <4>1. work.index \notin Entries(Slots)
        BY <1>6 DEF Entries
      <4>2. Entries(Slots)' = Entries(Slots)
        BY <1>4 DEF Entries
      <4>3. \A i \in Entries(Slots) : i < work.index + 1 <=> i < work.index
        BY <1>3, <4>1 DEF Entries
      <4> QED
        BY <2>2, <4>2, <4>3 DEF Below
    <3> QED
      BY <1>1, <1>2, <1>4, <2>2, <2>3, <3>1, <3>2, SameCopy
  <2>9. PlaceInv'
    BY <2>4 DEF PlaceInv
  <2> QED
    BY <2>6, <2>7, <2>8, <2>9 DEF Order
<1> QED
  BY <1>5, <1>6

(* The entry is stored where it was hashed to, its key not moved since:    *)
(* the collector has not run in that window.                               *)
LEMMA OrderPlaceEntry ==
  ASSUME Structure, Order, NEW t \in Threads, PlaceEntry(t)
  PROVE  Order'
<1> DEFINE hand == work.hand
<1> DEFINE to == hand.to
<1> DEFINE cell == Slot(hand.key, hand.value)
<1> DEFINE old == Grown.slots
<1> DEFINE new == Write(old, to, cell)
<1>1. /\ pc[t] = "place" /\ UNCHANGED <<vector, threshold, address>>
      /\ vectors' = [vectors EXCEPT ![work.to].slots[to] = cell]
      /\ work' = [work EXCEPT !.hand = Empty, !.index = @ + 1]
  BY DEF PlaceEntry, Keep
<1>2. /\ work.to # 0 /\ work.to # vector /\ work # NoWork /\ work.back = "none"
      /\ Kinds(Slots) /\ Unique(Slots) /\ Num(Aloft) = 0 /\ ~Aloft
      /\ Grown \in Tables /\ old \in Seq(Cells) /\ Len(old) = NewSize(Vector.count) + Slack
      /\ Grown.deleted = 0 /\ Grown.cached = NoCache
      /\ Kinds(old) /\ Of(old, Deleted) = {} /\ Unique(old)
      /\ {old[i] : i \in Entries(old)} = {Slots[i] : i \in Below}
      /\ Filled(old) = Cardinality(Below)
      /\ ~Grown.moved => OneWay(old)
      /\ Below \subseteq Entries(Slots) /\ IsFiniteSet(Below) /\ Cardinality(Below) \in Nat
  BY <1>1, CopyOrder, Zenon
<1>3. /\ hand.key \in Keys /\ work.index \in 1..Len(Slots) /\ work \in Works
      /\ work.to \in Vectors /\ vector \in Vectors /\ vectors \in [Vectors -> Tables]
      /\ DOMAIN Slots = 1..Len(Slots) /\ DOMAIN old = 1..Len(old)
  <2>1. CopyAt(t) /\ work.to \in Vectors /\ work.index \in 1..Len(Slots) + 1
    BY <1>1, CopyParts
  <2> QED
    BY <1>1, <1>2, <2>1, TableParts, WorkParts DEF CopyAt
<1>4. /\ Slots[work.index] = cell /\ to \in Of(old, Free)
      /\ Walk(old, to, address[hand.key], Taken(old))
  BY <1>2, <1>3 DEF Order, PlaceInv
<1>5. to \in 1..Len(old) /\ old[to].key = Free /\ to \notin Entries(old)
  BY <1>3, <1>4, KeysAssumption DEF Of, Entries
<1>6. /\ cell \in Cells /\ cell.key = hand.key /\ cell.value \in Values
      /\ work.index \in Entries(Slots) /\ work.index \notin Below
  <2>1. cell \in Cells /\ cell.key = hand.key
    BY <1>3, <1>4, TableParts DEF Slot
  <2>2. work.index \in Entries(Slots)
    BY <1>3, <1>4, <2>1 DEF Entries
  <2>3. cell.value \in Values
    BY <1>2, <1>3, <1>4, <2>2 DEF Kinds, Entries
  <2>4. work.index \notin Below
    BY <1>3 DEF Below
  <2> QED
    BY <2>1, <2>2, <2>3, <2>4
<1> HIDE DEF cell, to, hand
<1>7. \A j \in 1..Len(old) : old[j].key # cell.key
  <2> SUFFICES ASSUME NEW j \in 1..Len(old), old[j].key = cell.key PROVE FALSE
    OBVIOUS
  <2>1. j \in Entries(old)
    BY <1>3, <1>6 DEF Entries
  <2>2. PICK b \in Below : Slots[b] = old[j]
    BY <1>2, <2>1
  <2>3. b \in Entries(Slots) /\ Slots[b].key = Slots[work.index].key
    BY <1>2, <1>4, <2>2
  <2>4. b = work.index
    BY <1>2, <1>6, <2>3 DEF Unique
  <2> QED
    BY <1>6, <2>4
<1>8. /\ new \in Seq(Cells) /\ Len(new) = Len(old) /\ Kinds(new) /\ Unique(new) /\ new[to] = cell
      /\ OneWay(old) => OneWay(new)
  <2>1. old \in Seq(Cells) /\ Kinds(old) /\ Unique(old) /\ to \in 1..Len(old) /\ cell \in Cells
        /\ cell.key \in Keys /\ cell.value \in Values /\ Walk(old, to, address[cell.key], Taken(old))
    BY <1>2, <1>3, <1>4, <1>5, <1>6
  <2> HIDE DEF old
  <2> QED
    BY <1>7, <2>1, StoreKeepsOrder
<1>9. Filled(new) = Filled(old) + 1
  <2>1. old \in Seq(Cells) /\ to \in 1..Len(old) /\ cell \in Cells /\ cell.key \in Keys /\ old[to].key \notin Keys
    BY <1>2, <1>3, <1>5, <1>6, KeysAssumption
  <2> HIDE DEF old
  <2> QED
    BY <2>1, StoredFilled
<1>10. /\ Entries(new) = Entries(old) \cup {to} /\ \A j \in Entries(old) : new[j] = old[j]
       /\ Of(new, Deleted) = {}
  <2>1. old \in Seq(Cells) /\ to \in 1..Len(old) /\ cell \in Cells
    BY <1>2, <1>5, <1>6
  <2>2. /\ new \in Seq(Cells) /\ Len(new) = Len(old) /\ DOMAIN new = 1..Len(old)
        /\ new[to] = cell /\ \A j \in 1..Len(old) : j # to => new[j] = old[j]
    <3> HIDE DEF old
    <3> QED
      BY ZenonT(60), <2>1, Stored
  <2>3. cell.key \in Keys /\ Deleted \notin Keys
    BY <1>3, <1>6, KeysAssumption
  <2>4. \A j \in Entries(old) : new[j] = old[j]
    BY <1>3, <1>5, <2>2 DEF Entries
  <2> HIDE DEF new, old
  <2>5. Entries(new) = Entries(old) \cup {to}
    BY <1>3, <1>5, <2>2, <2>3 DEF Entries
  <2>6. Of(new, Deleted) = {}
    BY <1>2, <1>3, <2>2, <2>3 DEF Of, old
  <2> QED
    BY <2>4, <2>5, <2>6
<1>11. work'.hand = Empty /\ work'.to = work.to /\ work'.index = work.index + 1 /\ work'.back = "none"
  BY <1>1, <1>2, <1>3 DEF Works
<1>12. Vector' = Vector /\ Slots' = Slots
  BY <1>1, <1>2, <1>3 DEF Vector, Slots
<1>13. /\ Grown'.slots = new /\ Grown'.moved = Grown.moved /\ Grown'.deleted = 0
       /\ Grown'.cached = NoCache
  <2>1. Grown' = [Grown EXCEPT !.slots = new]
    BY <1>1, <1>3, <1>11 DEF Grown, Write
  <2> HIDE DEF new, old
  <2> QED
    BY <1>2, <1>8, <2>1, TableStored DEF old
<1>14. ~Aloft' /\ Num(Aloft)' = 0 /\ work'.hand.key \notin Keys
  BY <1>2, <1>11, KeysAssumption DEF Aloft, Num, Empty
<1>15. Kinds(Slots)' /\ Unique(Slots)' /\ CacheInv' /\ CountInv'
  BY <1>1, <1>2, <1>12, <1>14 DEF Order, Kinds, Unique, CacheInv, CountInv, Filled, Slotted, Of, Entries
<1>16. RestInv' /\ RehashInv' /\ HandInv' /\ PlaceInv'
  BY <1>2, <1>11, <1>14 DEF RestInv, RehashInv, HandInv, PlaceInv, NoWork
<1>17. CopyInv'
  <2> HIDE DEF new, old
  <2>1. Below' = Below \cup {work.index}
    <3>1. Entries(Slots)' = Entries(Slots)
      BY <1>12 DEF Entries
    <3>2. \A i \in Entries(Slots) : i < work.index + 1 <=> (i < work.index \/ i = work.index)
      BY <1>3 DEF Entries
    <3> QED
      BY <1>6, <1>11, <3>1, <3>2 DEF Below
  <2>2. Cardinality(Below') = Cardinality(Below) + 1
    BY <1>2, <1>6, <2>1, FS_AddElement
  <2>3. Kinds(Grown.slots)' /\ Unique(Grown.slots)' /\ Of(Grown.slots, Deleted)' = {}
    BY <1>8, <1>10, <1>13 DEF Kinds, Unique, Of, Entries
  <2>4. Filled(Grown.slots)' = Cardinality(Below')
    <3>1. Filled(Grown.slots)' = Filled(new)
      BY <1>13 DEF Filled, Entries
    <3>2. Filled(old) = Cardinality(Below)
      BY <1>2 DEF old
    <3> QED
      BY <1>9, <2>2, <3>1, <3>2
  <2>5. {Grown.slots[i] : i \in Entries(Grown.slots)}' = {Slots[i] : i \in Below}'
    <3>1. Entries(Grown.slots)' = Entries(old) \cup {to}
      BY <1>10, <1>13 DEF Entries
    <3>2. {new[i] : i \in Entries(old) \cup {to}} = {old[i] : i \in Entries(old)} \cup {cell}
      BY <1>8, <1>10
    <3>3. {Slots[i] : i \in Below \cup {work.index}} = {Slots[i] : i \in Below} \cup {cell}
      BY <1>4
    <3>4. {old[i] : i \in Entries(old)} = {Slots[i] : i \in Below}
      BY <1>2 DEF old
    <3> QED
      BY <1>12, <1>13, <2>1, <3>1, <3>2, <3>3, <3>4
  <2>6. ~Grown'.moved => OneWay(Grown.slots)'
    <3>1. ~Grown.moved => OneWay(new)
      BY <1>2, <1>8 DEF old
    <3> QED
      BY <1>1, <1>13, <3>1 DEF OneWay, Walk, Taken, Entries
  <2>7. Len(Grown.slots)' = NewSize(Vector.count)' + Slack
    <3>1. Len(new) = NewSize(Vector.count) + Slack
      BY <1>2, <1>8 DEF old
    <3> QED
      BY <1>12, <1>13, <3>1 DEF NewSize
  <2> QED
    BY <1>11, <1>13, <2>3, <2>4, <2>5, <2>6, <2>7 DEF CopyInv
<1> QED
  BY <1>15, <1>16, <1>17 DEF Order

(* The new vector has every entry of the old one, in order.                *)
LEMMA OrderInstall ==
  ASSUME Structure, Order, NEW t \in Threads, Install(t)
  PROVE  Order'
<1> DEFINE old == IF HeldBy(vector, Threads) THEN Zeroed(vector) ELSE Unused
<1>1. /\ pc[t] = "copy" /\ work.index > Len(Slots) /\ vector' = work.to /\ work' = NoWork
      /\ vectors' = [vectors EXCEPT ![work.to].count = Vector.count, ![vector] = old]
      /\ threshold' = NewSize(Vector.count) - Vector.count /\ UNCHANGED address
  BY DEF Install, Keep
<1>2. /\ work.to # 0 /\ work.to # vector /\ Kinds(Slots) /\ Unique(Slots)
      /\ Grown \in Tables /\ Grown.slots \in Seq(Cells)
      /\ Len(Grown.slots) = NewSize(Vector.count) + Slack
      /\ Grown.deleted = 0 /\ Grown.cached = NoCache
      /\ Kinds(Grown.slots) /\ Unique(Grown.slots)
      /\ Filled(Grown.slots) = Cardinality(Below)
      /\ ~Grown.moved => OneWay(Grown.slots)
      /\ Vector.count = Filled(Slots) /\ Filled(Slots) \in Nat
      /\ Slotted(Grown.slots, Free) = Len(Grown.slots) - Cardinality(Below)
      /\ Slotted(Grown.slots, Deleted) = 0
  BY <1>1, CopyOrder, Zenon
<1>3. work.to \in Vectors /\ vector \in Vectors /\ vectors \in [Vectors -> Tables]
  BY <1>1, CopyParts, TableParts
<1>4. Below = Entries(Slots)
  <2>1. \A i \in Entries(Slots) : i < work.index
    BY <1>1, TableParts, WorkParts DEF Entries
  <2> QED
    BY <2>1 DEF Below
<1>5. Cardinality(Below) = Vector.count
  BY <1>2, <1>4 DEF Filled
<1> HIDE DEF old
<1>6. Vector' = [Grown EXCEPT !.count = Vector.count]
  <2>1. PICK n : n = Vector.count
    OBVIOUS
  <2>2. vectors' = [vectors EXCEPT ![work.to].count = n, ![vector] = old]
    BY <1>1, <2>1
  <2>3. vectors'[work.to] = [vectors[work.to] EXCEPT !.count = n]
    BY <1>2, <1>3, <2>2
  <2> QED
    BY <1>1, <2>1, <2>3 DEF Vector, Grown
<1>7. /\ Slots' = Grown.slots /\ Vector'.moved = Grown.moved /\ Vector'.cached = NoCache
      /\ Vector'.deleted = 0 /\ Vector'.count = Vector.count
  BY <1>2, <1>6 DEF Tables, Slots
<1>8. Kinds(Slots)' /\ Unique(Slots)' /\ (~Vector'.moved => OneWay(Slots)')
  BY <1>1, <1>2, <1>7 DEF Kinds, Unique, OneWay, Entries, Walk, Taken
<1>9. Filled(Slots)' = Filled(Grown.slots) /\ Slotted(Slots, Deleted)' = Slotted(Grown.slots, Deleted)
      /\ Slotted(Slots, Free)' = Slotted(Grown.slots, Free)
  BY <1>7 DEF Filled, Slotted, Entries, Of
<1>10. CacheInv'
  BY <1>7, KeysAssumption DEF CacheInv, NoCache
<1>11. NewSize(Vector.count) \in Nat /\ NewSize(Vector.count) > Vector.count /\ Slack \in Nat
  BY <1>2, NewSizeIs, SizesAssumption
<1>12. threshold' >= 0 /\ threshold' + Slack = Slotted(Slots, Free)' /\ threshold' \in Int
  <2>1. PICK n : n = NewSize(Vector.count)
    OBVIOUS
  <2>2. n \in Nat /\ n > Vector.count /\ Vector.count \in Nat /\ threshold' = n - Vector.count
    BY <1>1, <1>2, <1>11, <2>1
  <2>3. Slotted(Slots, Free)' = n + Slack - Vector.count
    <3>1. Len(Grown.slots) = n + Slack
      BY <1>2, <2>1
    <3>2. Slotted(Grown.slots, Free) = Len(Grown.slots) - Cardinality(Below)
      BY <1>2
    <3>3. Slotted(Slots, Free)' = Slotted(Grown.slots, Free)
      BY <1>9
    <3>4. n \in Int /\ Slack \in Int /\ Vector.count \in Int
      BY <1>11, <2>2
    <3> QED
      BY <1>5, <3>1, <3>2, <3>3, <3>4
  <2> QED
    BY <1>11, <2>2, <2>3
<1>13. Vector'.count = Filled(Slots)' /\ Vector'.deleted = Slotted(Slots, Deleted)' /\ Vector'.count \in Int
  BY <1>2, <1>5, <1>7, <1>9
<1> QED
  BY <1>1, <1>8, <1>10, <1>12, <1>13, RestOrderNext

(* Between hashing a key and storing it somebody is at displace or place.  *)
LEMMA NobodyPlaces ==
  ASSUME Structure, \A t \in Threads : pc[t] \notin {"place", "displace"}
  PROVE  work.hand = Empty
<1>1. CASE \A t \in Threads : pc[t] \notin {"rehash", "displace", "copy", "place"}
  BY <1>1 DEF Structure, WorkInv, NoWork
<1>2. CASE \E t \in Threads : pc[t] \in {"rehash", "displace", "copy", "place"}
  <2>1. PICK t \in Threads : pc[t] \in {"rehash", "copy"}
    BY <1>2
  <2> QED
    BY <2>1, OfThread DEF RehashAt, CopyAt
<1> QED
  BY <1>1, <1>2

(* A collection moves keys and flags the vectors that hold them, so no     *)
(* order is promised that the moves have broken.                           *)
LEMMA OrderCollect ==
  ASSUME Structure, Order, Collect, ~CollectInWindow
  PROVE  Order'
<1>1. PICK new \in [Keys -> 1..MaxAddress] :
           /\ address' = new
           /\ vectors' = [v \in Vectors |-> [vectors[v] EXCEPT !.moved =
                  @ \/ \E i \in Entries(vectors[v].slots) :
                           LET key == vectors[v].slots[i].key IN new[key] # address[key]]]
  BY DEF Collect
<1>2. UNCHANGED <<vector, threshold, work, pc>> /\ \A t \in Threads : pc[t] \notin {"place", "displace"}
  BY DEF Collect, Keep
<1>3. work.hand = Empty /\ work.hand.key \notin Keys
  BY <1>2, NobodyPlaces, KeysAssumption DEF Empty
<1>4. /\ vectors \in [Vectors -> Tables] /\ vector \in Vectors /\ work.to \in {0} \cup Vectors
      /\ Slots \in Seq(Cells) /\ DOMAIN Slots = 1..Len(Slots)
  BY TableParts, WorkParts
(* An unflagged vector holds no key that moved, and the rest of it stays.  *)
<1>5. \A v \in Vectors :
          /\ vectors'[v].slots = vectors[v].slots /\ vectors'[v].count = vectors[v].count
          /\ vectors'[v].deleted = vectors[v].deleted /\ vectors'[v].cached = vectors[v].cached
          /\ ~vectors'[v].moved =>
                 /\ ~vectors[v].moved
                 /\ \A i \in Entries(vectors[v].slots) :
                        address'[vectors[v].slots[i].key] = address[vectors[v].slots[i].key]
  <2> TAKE v \in Vectors
  <2>1. PICK m \in BOOLEAN : m = (\/ vectors[v].moved
                                  \/ \E i \in Entries(vectors[v].slots) :
                                        new[vectors[v].slots[i].key] # address[vectors[v].slots[i].key])
    BY <1>4 DEF Tables
  <2>2. vectors'[v] = [vectors[v] EXCEPT !.moved = m]
    BY <1>1, <2>1
  <2>3. vectors[v] \in Tables
    BY <1>4
  <2>4. /\ vectors'[v].slots = vectors[v].slots /\ vectors'[v].count = vectors[v].count
        /\ vectors'[v].deleted = vectors[v].deleted /\ vectors'[v].cached = vectors[v].cached
        /\ vectors'[v].moved = m
    BY <2>2, <2>3 DEF Tables
  <2> QED
    BY <1>1, <2>1, <2>4
<1>6. /\ Slots' = Slots /\ Vector'.count = Vector.count /\ Vector'.deleted = Vector.deleted
      /\ Vector'.cached = Vector.cached
      /\ ~Vector'.moved => ~Vector.moved /\ \A i \in Entries(Slots) : address'[Slots[i].key] = address[Slots[i].key]
  BY <1>2, <1>4, <1>5 DEF Vector, Slots
<1>7. Entries(Slots)' = Entries(Slots) /\ Aloft' = Aloft /\ Was' = Was /\ Below' = Below
  BY <1>2, <1>6 DEF Entries, Aloft, Was, Below
<1>8. Kinds(Slots)' /\ Unique(Slots)' /\ CacheInv' /\ CountInv'
  BY <1>2, <1>6, <1>7 DEF Order, Kinds, Unique, CacheInv, CountInv, Filled, Slotted, Of, Num
<1>9. RestInv'
  <2> SUFFICES ASSUME work = NoWork, ~Vector'.moved PROVE OneWay(Slots)'
    BY <1>2 DEF RestInv
  <2>1. OneWay(Slots)
    BY <1>6 DEF Order, RestInv
  <2> QED
    BY <1>6, <1>7, <2>1 DEF OneWay, Walk, Taken
<1>10. RehashInv'
  <2> SUFFICES ASSUME work.back # "none" PROVE RehashInv'
    BY <1>2 DEF RehashInv
  <2>1. RehashInv
    BY DEF Order
  <2>2. Was \subseteq Entries(Slots)
    <3>1. PICK t \in Threads : pc[t] \in {"rehash", "displace", "copy", "place"}
      BY AtRest DEF Structure, WorkInv
    <3>2. pc[t] \in {"rehash", "copy"}
      BY <1>2, <3>1
    <3>3. pc[t] # "copy"
      BY CopyOrder
    <3> QED
      BY <3>2, <3>3, RehashParts
  <2>3. ~Vector'.moved => \A s \in Was : Walk(Slots', s, address'[Slots'[s].key], Was)
    <3> SUFFICES ASSUME ~Vector'.moved, NEW s \in Was PROVE Walk(Slots', s, address'[Slots'[s].key], Was)
      OBVIOUS
    <3>1. Walk(Slots, s, address[Slots[s].key], Was) /\ address'[Slots[s].key] = address[Slots[s].key]
      BY <1>6, <2>1, <2>2 DEF RehashInv
    <3> QED
      BY <1>6, <3>1
  <2>4. \A s \in Entries(Slots) : s < work.index => s \in Was
    BY <2>1 DEF RehashInv
  <2>5. Vector.cached = NoCache
    BY <2>1 DEF RehashInv
  <2> QED
    BY <1>2, <1>6, <1>7, <2>3, <2>4, <2>5 DEF RehashInv, Walk
<1>11. HandInv' /\ PlaceInv'
  BY <1>2, <1>3 DEF HandInv, PlaceInv
<1>12. CopyInv'
  <2> SUFFICES ASSUME work.to # 0 PROVE CopyInv'
    BY <1>2 DEF CopyInv
  <2>1. CopyInv
    BY DEF Order
  <2>2. /\ Grown'.slots = Grown.slots /\ Grown'.deleted = Grown.deleted /\ Grown'.cached = Grown.cached
        /\ ~Grown'.moved => ~Grown.moved /\ \A i \in Entries(Grown.slots) :
               address'[Grown.slots[i].key] = address[Grown.slots[i].key]
    <3>1. work.to \in Vectors
      BY <1>4
    <3> QED
      BY <1>2, <1>5, <3>1 DEF Grown
  <2>3. /\ Kinds(Grown.slots)' = Kinds(Grown.slots) /\ Unique(Grown.slots)' = Unique(Grown.slots)
        /\ Of(Grown.slots, Deleted)' = Of(Grown.slots, Deleted)
        /\ Entries(Grown.slots)' = Entries(Grown.slots)
    BY <2>2 DEF Kinds, Unique, Of, Entries
  <2>4. ~Grown'.moved => OneWay(Grown.slots)'
    <3> SUFFICES ASSUME ~Grown'.moved PROVE OneWay(Grown.slots)'
      OBVIOUS
    <3>1. OneWay(Grown.slots)
      BY <2>1, <2>2 DEF CopyInv
    <3> QED
      BY <2>2, <2>3, <3>1 DEF OneWay, Walk, Taken
  <2>5. {Grown.slots[i] : i \in Entries(Grown.slots)}' = {Grown.slots[i] : i \in Entries(Grown.slots)}
        /\ {Slots[i] : i \in Below}' = {Slots[i] : i \in Below}
    BY <1>6, <1>7, <2>2, <2>3
  <2>6. NewSize(Vector.count)' = NewSize(Vector.count)
    BY <1>6 DEF NewSize
  <2> QED
    BY <1>2, <1>7, <2>1, <2>2, <2>3, <2>4, <2>5, <2>6 DEF CopyInv, Filled
<1> QED
  BY <1>8, <1>9, <1>10, <1>11, <1>12 DEF Order

(* A step that has nothing to do with the vectors.                         *)
LEMMA OrderApart ==
  ASSUME Structure, Order, UNCHANGED <<vector, threshold, work, address>>,
         vectors' = vectors
  PROVE  Order'
<1>1. Vector' = Vector /\ Grown' = Grown
  BY DEF Vector, Grown
<1> QED
  BY <1>1, SameOrder

(* A return leaves the table alone, and drops zeroed vectors.              *)
LEMMA OrderUnlock ==
  ASSUME Structure, Order, NEW t \in Threads, Unlock(t)
  PROVE  Order'
<1> DEFINE v == my[t].vector
<1>1. /\ UNCHANGED <<vector, threshold, work, address>>
      /\ vectors' = IF v \in {0, vector} \/ HeldBy(v, Threads \ {t}) THEN vectors
                    ELSE [vectors EXCEPT ![v] = Unused]
  BY DEF Unlock
<1>2. CASE v \in {0, vector} \/ HeldBy(v, Threads \ {t})
  BY <1>1, <1>2, OrderApart
<1>3. CASE ~(v \in {0, vector} \/ HeldBy(v, Threads \ {t}))
  <2>1. vectors' = [vectors EXCEPT ![v] = Unused] /\ v # vector
    BY <1>1, <1>3
  <2>2. work.to # 0 => work.to # v
    <3> SUFFICES ASSUME work.to # 0 PROVE work.to # v
      OBVIOUS
    <3>1. PICK u \in Threads : pc[u] \in {"rehash", "displace", "copy", "place"}
      BY AtRest DEF Structure, WorkInv
    <3>2. pc[u] \in {"copy", "place"}
      BY <3>1, OfThread DEF RehashAt
    <3>3. ~HeldBy(work.to, Threads)
      BY <3>2, CopyParts
    <3> QED
      BY <3>3 DEF HeldBy
  <2> HIDE DEF v
  <2>3. vectors \in [Vectors -> Tables] /\ vector \in Vectors /\ work.to \in {0} \cup Vectors
    BY TableParts, WorkParts
  <2>4. Vector' = Vector /\ (work.to # 0 => Grown' = Grown)
    BY <1>1, <2>1, <2>2, <2>3 DEF Vector, Grown
  <2> QED
    BY <1>1, <2>4, SameOrder
<1> QED
  BY <1>2, <1>3

(* The test leaves the table alone, or begins a rehash.                    *)
LEMMA OrderTest ==
  ASSUME Structure, Order, NEW t \in Threads, Test(t)
  PROVE  Order'
<1>1. pc[t] = "test" /\ OpAt(t) /\ LockAt(t)
  BY OfThread DEF Test
<1>2. work = NoWork
  <2>1. lock.writer = t
    BY <1>1 DEF LockAt, AtWork
  <2> QED
    BY <1>1, <2>1, NobodyElse DEF AtTable
<1>3. AfterTest(t) \in {"find", "put", "rem"}
  BY <1>1 DEF OpAt, AfterTest
<1>4. CASE StartRehash(t, AfterTest(t))
  BY <1>2, <1>3, <1>4, StartOrder
<1>5. CASE UNCHANGED <<vector, vectors, threshold, work, address>>
  BY <1>5, OrderApart
<1> QED
  BY <1>4, <1>5 DEF Test, Keep, tableVars

(* The order of the first state.                                           *)
LEMMA InitOrder == ASSUME Init PROVE Order
<1> DEFINE Cell == {Slot(Free, Free)} \cup {Slot(k, SomeValue) : k \in Keys}
<1>1. PICK slots \in [1..MinSize + Slack -> Cell] :
           /\ InOrder(slots) /\ Cardinality(Entries(slots)) <= MinSize
           /\ vectors = [v \in Vectors |->
                  IF v # 1 THEN Unused
                  ELSE [Unused EXCEPT !.slots = slots, !.count = Cardinality(Entries(slots))]]
           /\ threshold = MinSize - Cardinality(Entries(slots))
  BY DEF Init
<1>2. vector = 1 /\ work = NoWork /\ Structure
  BY InitStructure DEF Init
<1> DEFINE c == Cardinality(Entries(slots))
<1>3. MinSize \in Nat /\ Slack \in Nat /\ MinSize + Slack \in Nat
  BY SizesAssumption
<1>4. Vector = [Unused EXCEPT !.slots = slots, !.count = c]
  BY <1>1, <1>2, ConstantTypes DEF Vector
<1>5. Vector.slots = slots /\ Vector.count = c /\ Vector.deleted = 0 /\ Vector.cached = NoCache
  <2> HIDE DEF c
  <2> QED
    BY <1>4 DEF Unused
<1>6. Slots = slots
  BY <1>5 DEF Slots
<1>7. Slots \in Seq(Cells) /\ Len(Slots) = MinSize + Slack /\ DOMAIN slots = 1..MinSize + Slack
  <2>1. Slots \in Seq(Cells) /\ DOMAIN Slots = 1..Len(Slots) /\ Len(Slots) \in Nat
    BY <1>2, TableParts
  <2> QED
    BY <1>3, <1>6, <2>1
<1>8. \A i \in 1..MinSize + Slack :
          slots[i].key \in Keys \cup {Free} /\ (slots[i].key \in Keys => slots[i].value \in Values)
  <2>1. SomeValue \in Values
    BY KeysAssumption DEF SomeValue
  <2> TAKE i \in 1..MinSize + Slack
  <2>2. slots[i] \in Cell
    BY <1>1
  <2> QED
    BY <2>1, <2>2, KeysAssumption DEF Slot
<1>9. Kinds(Slots)
  BY <1>6, <1>7, <1>8 DEF Kinds
<1>10. Unique(Slots) /\ OneWay(Slots)
  BY <1>1, <1>2, <1>6, <1>7, InOrderGives, WorkParts
<1>11. CacheInv
  BY <1>5, KeysAssumption DEF CacheInv, NoCache
<1>12. Of(Slots, Deleted) = {}
  BY <1>6, <1>7, <1>8, KeysAssumption DEF Of
<1>13. Slotted(Slots, Deleted) = 0
  BY <1>12, FS_EmptySet DEF Slotted
<1>14. Filled(Slots) = c /\ c \in Nat /\ Slotted(Slots, Free) \in Nat
  BY <1>6, <1>7, FiniteSlots, FS_CardinalityType DEF Filled, Slotted
<1>15. Filled(Slots) + Slotted(Slots, Deleted) + Slotted(Slots, Free) = Len(Slots)
  BY <1>7, <1>9, SlotsCounted
<1>16. threshold = MinSize - c /\ c <= MinSize
  BY <1>1
<1> HIDE DEF c
<1>17. threshold >= 0 /\ threshold + Slack = Slotted(Slots, Free) /\ threshold \in Int
  <2>1. PICK n \in Nat : n = Slotted(Slots, Free)
    BY <1>14
  <2>2. c + 0 + n = MinSize + Slack
    <3>1. Len(Slots) = MinSize + Slack
      BY <1>7
    <3>2. Filled(Slots) = c
      BY <1>14
    <3> QED
      BY <1>13, <1>15, <2>1, <3>1, <3>2
  <2>3. c \in Nat
    BY <1>14
  <2>4. MinSize - c >= 0 /\ MinSize - c + Slack = n /\ MinSize - c \in Int
    BY <1>3, <1>16, <2>2, <2>3
  <2>5. threshold = MinSize - c
    BY <1>16
  <2> QED
    BY <2>1, <2>4, <2>5
<1>18. Vector.count = Filled(Slots) /\ Vector.deleted = Slotted(Slots, Deleted) /\ Vector.count \in Int
  BY <1>5, <1>13, <1>14
<1> QED
  BY <1>2, <1>9, <1>10, <1>11, <1>17, <1>18, RestOrder

(* The order is kept by every step, if the collector stays out of the      *)
(* window.                                                                 *)
LEMMA NextOrder ==
  ASSUME Structure, Order, Next, ~CollectInWindow
  PROVE  Order'
<1>1. CASE Collect
  BY <1>1, OrderCollect
<1>2. ASSUME NEW t \in Threads, Call(t) PROVE Order'
  BY <1>2, OrderApart DEF Call, Keep, tableVars
<1>3. ASSUME NEW t \in Threads, Step(t) PROVE Order'
  <2>1. CASE ReadLock(t) \/ WriteLock(t) \/ InhibitGC(t) \/ Find(t)
    BY <2>1, OrderApart DEF ReadLock, WriteLock, InhibitGC, Inhibit, Find, Keep, tableVars
  <2>2. CASE PromoteAlone(t) \/ ReleaseToPromote(t) \/ Promoted(t) \/ PutNeedsRoom(t) \/ EnableGC(t)
    BY <2>2, OrderApart DEF PromoteAlone, ReleaseToPromote, Promoted, PutNeedsRoom, EnableGC, Keep, tableVars
  <2> QED
    BY <1>3, <2>1, <2>2, OrderTest, OrderRehashSlot, OrderDisplace, OrderEndRehash, OrderPut,
       OrderRemove, OrderClear, OrderGrow, OrderCopySlot, OrderPlaceEntry, OrderInstall, OrderUnlock
       DEF Step
<1> QED
  BY <1>1, <1>2, <1>3 DEF Next

(* What the invariant says of a table that nobody is changing.             *)
LEMMA OrderIsOrder ==
  ASSUME Structure, Order
  PROVE  TableInOrder
<1>1. EveryKeyFound
  <2> SUFFICES ASSUME work = NoWork, ~Vector.moved PROVE InOrder(Slots)
    BY DEF EveryKeyFound
  <2>1. Unique(Slots) /\ OneWay(Slots)
    BY DEF Order, RestInv
  <2> QED
    BY <2>1, InOrderIs, TableParts, WorkParts
<1>2. RoomIsThere
  <2> SUFFICES ASSUME work = NoWork
               PROVE  /\ Vector.count = Cardinality(Entries(Slots))
                      /\ Vector.deleted = Cardinality(Of(Slots, Deleted))
                      /\ threshold >= 0 /\ threshold + Slack = Cardinality(Of(Slots, Free))
    BY DEF RoomIsThere, Of
  <2> QED
    BY RestCounts DEF Filled, Slotted
<1> QED
  BY <1>1, <1>2 DEF TableInOrder

(* Whenever nobody rehashes or grows the table, a walk from the address of *)
(* a key finds the key's one entry unless the vector is flagged, and the   *)
(* counts of its entries, deleted and free slots are those its vector has. *)
(* The growth is the one place the code leaves open to the collector: it   *)
(* hashes a key and then stores it, and a collection in between may move   *)
(* the key; without that the theorem holds for every number of threads,    *)
(* keys and vectors, whichever reader or putter gets the lock first.       *)
THEOREM InOrderBetweenSteps == ~CollectInWindow => (Spec => []TableInOrder)
<1> SUFFICES ASSUME ~CollectInWindow PROVE Spec => []TableInOrder
  OBVIOUS
<1>1. Init => Structure /\ Order
  BY InitStructure, InitOrder
<1>2. Structure /\ Order /\ [Next]_vars => Structure' /\ Order'
  <2>1. ASSUME Structure, Order, Next PROVE Structure' /\ Order'
    BY <2>1, NextStructure, NextOrder
  <2>2. ASSUME Structure, Order, UNCHANGED vars PROVE Structure' /\ Order'
    BY <2>2, SameStructure, OrderApart DEF vars, tableVars
  <2> QED
    BY <2>1, <2>2
<1>3. Structure /\ Order => TableInOrder
  BY OrderIsOrder
<1> QED
  BY <1>1, <1>2, <1>3, PTL DEF Spec

-----------------------------------------------------------------------------
(* What the table maps a key to: the pairs in its slots and the one in the *)
(* hand of its rehasher.                                                   *)
Maps(k, v) ==
    \/ \E i \in Entries(Slots) : Slots[i].key = k /\ Slots[i].value = v
    \/ work.hand.key = k /\ work.hand.value = v

(* The value that is held, if any is.                                      *)
Chosen(values) == IF values = {} THEN None ELSE CHOOSE v \in values : TRUE

(* The values held for a key, before and after a step.                     *)
LEMMA HeldIs ==
  ASSUME NEW k \in Keys, NEW v
  PROVE  /\ v \in Held(k) <=> v \in Values /\ Maps(k, v)
         /\ v \in Held(k)' <=> v \in Values /\ Maps(k, v)'
<1>1. v \in Held(k) <=> v \in Values /\ \E r \in Reached : r.key = k /\ r.value = v
  BY DEF Held
<1>2. v \in Held(k)' <=> v \in Values /\ \E r \in Reached' : r.key = k /\ r.value = v
  BY DEF Held
<1>3. (\E r \in Reached : r.key = k /\ r.value = v) <=> Maps(k, v)
  <2>1. \A r : r \in Reached <=> (\E i \in DOMAIN Slots : r = Slots[i]) \/ r = Slot(work.hand.key, work.hand.value)
    BY DEF Reached, Range
  <2>2. /\ Slot(work.hand.key, work.hand.value).key = work.hand.key
        /\ Slot(work.hand.key, work.hand.value).value = work.hand.value
    BY DEF Slot
  <2>3. ASSUME NEW r \in Reached, r.key = k, r.value = v PROVE Maps(k, v)
    BY <2>1, <2>2, <2>3 DEF Maps, Entries
  <2>4. ASSUME Maps(k, v) PROVE \E r \in Reached : r.key = k /\ r.value = v
    BY <2>1, <2>2, <2>4 DEF Maps, Entries
  <2> QED
    BY <2>3, <2>4
<1>4. (\E r \in Reached' : r.key = k /\ r.value = v) <=> Maps(k, v)'
  <2>1. \A r : r \in Reached' <=> (\E i \in DOMAIN Slots' : r = Slots'[i]) \/ r = Slot(work'.hand.key, work'.hand.value)
    BY DEF Reached, Range
  <2>2. /\ Slot(work'.hand.key, work'.hand.value).key = work'.hand.key
        /\ Slot(work'.hand.key, work'.hand.value).value = work'.hand.value
    BY DEF Slot
  <2>3. ASSUME NEW r \in Reached', r.key = k, r.value = v PROVE Maps(k, v)'
    BY <2>1, <2>2, <2>3 DEF Maps, Entries
  <2>4. ASSUME Maps(k, v)' PROVE \E r \in Reached' : r.key = k /\ r.value = v
    BY <2>1, <2>2, <2>4 DEF Maps, Entries
  <2> QED
    BY <2>3, <2>4
<1> QED
  BY <1>1, <1>2, <1>3, <1>4

(* The map, before and after a step, key by key.                           *)
LEMMA ContentsAre ==
  /\ Contents = [k \in Keys |-> Chosen(Held(k))]
  /\ Contents' = [k \in Keys |-> Chosen(Held(k)')]
BY DEF Contents, Chosen

(* What is chosen of no value, and of one.                                 *)
LEMMA ChosenIs ==
  ASSUME NEW values \in SUBSET Values
  PROVE  /\ Chosen(values) \in Values \cup {None}
         /\ Chosen(values) = None <=> values = {}
         /\ \A v : values = {v} => Chosen(values) = v
BY KeysAssumption DEF Chosen

(* The contents are a map.                                                 *)
LEMMA ContentsType ==
  Contents \in [Keys -> Values \cup {None}] /\ Contents' \in [Keys -> Values \cup {None}]
<1>1. \A k \in Keys : Held(k) \in SUBSET Values /\ Held(k)' \in SUBSET Values
  BY DEF Held
<1>2. \A k \in Keys : Chosen(Held(k)) \in Values \cup {None} /\ Chosen(Held(k)') \in Values \cup {None}
  BY <1>1, ChosenIs
<1> QED
  BY <1>2, ContentsAre

(* A step that keeps the pairs keeps the map.                              *)
LEMMA SameContents ==
  ASSUME \A k \in Keys, v \in Values : Maps(k, v)' <=> Maps(k, v)
  PROVE  Contents' = Contents
<1>1. ASSUME NEW k \in Keys PROVE Held(k)' = Held(k)
  <2>1. \A v : v \in Held(k)' <=> v \in Held(k)
    BY HeldIs
  <2> QED
    BY <2>1
<1> QED
  BY <1>1, ContentsAre

(* A step that has nothing to do with slots or hand.                       *)
LEMMA ContentsApart ==
  ASSUME Slots' = Slots, work'.hand = work.hand
  PROVE  Contents' = Contents
<1>1. \A k \in Keys, v \in Values : Maps(k, v)' <=> Maps(k, v)
  BY DEF Maps, Entries
<1> QED
  BY <1>1, SameContents

(* What the map has for a key that has an entry, and for one that has none.*)
LEMMA EntryHeld ==
  ASSUME Kinds(Slots), Unique(Slots), work.hand.key \notin Keys, NEW e \in Entries(Slots)
  PROVE  Contents[Slots[e].key] = Slots[e].value
<1> DEFINE k == Slots[e].key
<1> DEFINE v == Slots[e].value
<1>1. k \in Keys /\ v \in Values
  BY DEF Kinds, Entries
<1>2. Held(k) = {v}
  <2>1. \A w : Maps(k, w) <=> w = v
    BY <1>1 DEF Maps, Unique
  <2>2. \A w : w \in Held(k) <=> w = v
    BY <1>1, <2>1, HeldIs
  <2> QED
    BY <2>2
<1>3. Chosen(Held(k)) = v
  BY <1>1, <1>2, ChosenIs
<1> QED
  BY <1>1, <1>3, ContentsAre

(* A key that nothing maps is not in the map.                              *)
LEMMA NoEntryHeld ==
  ASSUME NEW k \in Keys, \A v : ~Maps(k, v)
  PROVE  Contents[k] = None
<1>1. Held(k) = {}
  <2>1. \A v : v \notin Held(k)
    BY HeldIs
  <2> QED
    BY <2>1
<1>2. Chosen(Held(k)) = None
  BY <1>1 DEF Chosen
<1> QED
  BY <1>2, ContentsAre

(* The map after a step that changes what it has for a key.                *)
LEMMA ContentsChanged ==
  ASSUME NEW key \in Keys, NEW new \in Values \cup {None},
         \A k \in Keys \ {key}, v \in Values : Maps(k, v)' <=> Maps(k, v),
         \A v \in Values : Maps(key, v)' <=> v = new
  PROVE  Contents' = [Contents EXCEPT ![key] = new]
<1>1. ASSUME NEW k \in Keys \ {key} PROVE Contents'[k] = Contents[k]
  <2>1. \A v : v \in Held(k)' <=> v \in Held(k)
    BY <1>1, HeldIs
  <2>2. Held(k)' = Held(k)
    BY <2>1
  <2> QED
    BY <2>2, ContentsAre
<1>2. Contents'[key] = new
  <2>1. \A v : v \in Held(key)' <=> v \in Values /\ v = new
    BY HeldIs
  <2>2. Held(key)' = IF new \in Values THEN {new} ELSE {}
    BY <2>1
  <2>3. Chosen(Held(key)') = new
    BY <2>2 DEF Chosen
  <2> QED
    BY <2>3, ContentsAre
<1> QED
  BY <1>1, <1>2, ContentsType

(* The rehash takes up an entry that stays where it is for now.            *)
LEMMA MapRehashSlot ==
  ASSUME Structure, Order, NEW t \in Threads, RehashSlot(t)
  PROVE  Contents' = Contents
<1> DEFINE i == work.index
<1> DEFINE key == Slots[i].key
<1> DEFINE hand == InHand(Slots, i, work.done)
<1> DEFINE deleted == key = Deleted /\ i \notin work.done
<1> DEFINE tb == IF ~deleted THEN Vector
                 ELSE [Vector EXCEPT !.deleted = @ - 1, !.slots[i].key = Free]
<1>1. /\ pc[t] = "rehash" /\ i \in 1..Len(Slots) /\ work.hand = Empty /\ work.hand.key \notin Keys
  BY RehashParts, TableParts, EmptyHand DEF RehashSlot
<1>2. /\ Vector \in Tables /\ DOMAIN Slots = 1..Len(Slots) /\ Slots[i] \in Cells /\ work \in Works
  BY <1>1, TableParts, WorkParts
<1>3. CASE key \in Keys /\ i \notin work.done
  <2>1. /\ work' = [work EXCEPT !.hand = hand, !.done = @ \cup {hand.to}] /\ Slots' = Slots
    <3>1. Update(t, Vector, "displace") /\ work' = [work EXCEPT !.hand = hand, !.done = @ \cup {hand.to}]
      BY <1>3 DEF RehashSlot
    <3> QED
      BY <3>1, Updated DEF Slots
  <2>2. hand.key = key /\ hand.value = Slots[i].value
    BY DEF InHand
  <2> HIDE DEF hand
  <2>3. work'.hand = hand
    BY <1>2, <2>1 DEF Works
  <2>4. \A k \in Keys, v \in Values : Maps(k, v)' <=> Maps(k, v)
    BY <1>1, <1>2, <1>3, <2>1, <2>2, <2>3 DEF Maps, Entries
  <2> QED
    BY <2>4, SameContents
<1>4. CASE ~(key \in Keys /\ i \notin work.done)
  <2>1. work' = [work EXCEPT !.index = @ + 1] /\ Slots' = tb.slots
    <3>1. Update(t, tb, "rehash") /\ work' = [work EXCEPT !.index = @ + 1]
      BY <1>4 DEF RehashSlot
    <3> HIDE DEF tb
    <3> QED
      BY <3>1, Updated
  <2>2. work'.hand = work.hand
    BY <1>2, <2>1 DEF Works
  <2>3. CASE ~deleted
    BY <2>1, <2>2, <2>3, ContentsApart DEF Slots
  <2>4. CASE deleted
    <3> DEFINE cell == [Slots[i] EXCEPT !.key = Free]
    <3>1. tb.slots = Write(Slots, i, cell)
      BY <1>2, <2>4 DEF Slots, Tables, Write
    <3>2. cell \in Cells /\ cell.key \notin Keys /\ key \notin Keys
      BY <1>2, <2>4, KeysAssumption DEF Cells
    <3>3. Slots \in Seq(Cells)
      BY TableParts
    <3> HIDE DEF cell, tb
    <3>4. DOMAIN Slots' = 1..Len(Slots) /\ Slots'[i] = cell /\ \A j \in 1..Len(Slots) : j # i => Slots'[j] = Slots[j]
      <4>1. Slots \in Seq(Cells) /\ i \in 1..Len(Slots) /\ cell \in Cells
        BY <1>1, <3>2, <3>3
      <4>2. LET w == Write(Slots, i, cell) IN
            /\ w \in Seq(Cells) /\ Len(w) = Len(Slots) /\ DOMAIN w = 1..Len(Slots)
            /\ w[i] = cell /\ \A j \in 1..Len(Slots) : j # i => w[j] = Slots[j]
        BY ZenonT(60), <4>1, Stored
      <4> QED
        BY <2>1, <3>1, <4>2
    <3>5. \A k \in Keys, v \in Values : Maps(k, v)' <=> Maps(k, v)
      BY <1>1, <1>2, <2>2, <3>2, <3>4 DEF Maps, Entries
    <3> QED
      BY <3>5, SameContents
  <2> QED
    BY <2>3, <2>4
<1> QED
  BY <1>3, <1>4

(* The pair in hand is laid down, and the one that was there is in hand.   *)
LEMMA MapDisplace ==
  ASSUME Structure, Order, NEW t \in Threads, Displace(t)
  PROVE  Contents' = Contents
<1> DEFINE hand == work.hand
<1> DEFINE to == hand.to
<1> DEFINE other == Slots[to]
<1> DEFINE reused == IF other.key = Deleted THEN 1 ELSE 0
<1>1. pc[t] = "displace"
  BY DEF Displace
<1>2. /\ DOMAIN Left = 1..Len(Slots) /\ work.index \in 1..Len(Slots) /\ Left[work.index].key = Free
      /\ \A j \in 1..Len(Slots) : j # work.index => Left[j] = Slots[j]
      /\ hand.from # work.index => Left = Slots /\ hand.from \in Was
      /\ hand.from = work.index => Slots[work.index] = Slot(hand.key, hand.value)
  BY <1>1, LeftParts
<1>3. /\ Laid \in Seq(Cells) /\ DOMAIN Laid = 1..Len(Slots)
      /\ hand.key \in Keys /\ hand.value \in Values
      /\ to \in 1..Len(Slots) /\ to \notin Was
      /\ Laid[to] = Slot(hand.key, hand.value)
      /\ \A j \in 1..Len(Slots) : j # to => Laid[j] = Left[j]
  BY <1>1, LaidParts
<1>4. /\ DOMAIN Slots = 1..Len(Slots) /\ Vector \in Tables /\ Slots = Vector.slots /\ work \in Works
      /\ Vector.deleted \in Int /\ Free \notin Keys
  BY TableParts, WorkParts, KeysAssumption DEF Tables, Slots
<1>5. Slot(hand.key, hand.value).key = hand.key /\ Slot(hand.key, hand.value).value = hand.value
  BY DEF Slot
<1>6. ASSUME NEW k \in Keys, NEW v
      PROVE  (\E e \in Entries(Laid) : Laid[e].key = k /\ Laid[e].value = v) <=>
                 \/ hand.key = k /\ hand.value = v
                 \/ \E e \in Entries(Slots) : e # to /\ Slots[e].key = k /\ Slots[e].value = v
  <2>1. ASSUME NEW e \in Entries(Laid), Laid[e].key = k, Laid[e].value = v, e # to
        PROVE  e \in Entries(Slots) /\ Slots[e].key = k /\ Slots[e].value = v
    BY <1>2, <1>3, <1>4, <2>1 DEF Entries
  <2>2. ASSUME NEW e \in Entries(Slots), e # to, Slots[e].key = k, Slots[e].value = v
        PROVE  \/ hand.key = k /\ hand.value = v
               \/ e \in Entries(Laid) /\ Laid[e].key = k /\ Laid[e].value = v
    BY <1>2, <1>3, <1>4, <1>5, <2>2 DEF Entries
  <2>3. to \in Entries(Laid) /\ Laid[to].key = hand.key /\ Laid[to].value = hand.value
    BY <1>3, <1>5 DEF Entries
  <2> QED
    BY <2>1, <2>2, <2>3
<1>9. ASSUME NEW k \in Keys, NEW v
      PROVE  Maps(k, v) <=> \/ hand.key = k /\ hand.value = v
                            \/ other.key = k /\ other.value = v
                            \/ \E e \in Entries(Slots) : e # to /\ Slots[e].key = k /\ Slots[e].value = v
  BY <1>3, <1>4 DEF Maps, Entries
<1>7. CASE to # hand.from /\ other.key \in Keys
  <2> DEFINE next == [InHand(Slots, to, work.done) EXCEPT !.to = RehashProbe(Laid, other.key, work.done)]
  <2>1. /\ work' = [work EXCEPT !.hand = next, !.done = @ \cup {next.to}]
        /\ Update(t, [Vector EXCEPT !.slots = Laid], "displace")
    BY <1>7 DEF Displace, Laid, Left
  <2>2. Vector' = [Vector EXCEPT !.slots = Laid]
    BY <2>1, Updated
  <2>3. Slots' = Laid
    BY <1>3, <1>4, <2>2, TableStored DEF Slots
  <2>4. next.key = other.key /\ next.value = other.value
    BY DEF InHand
  <2> HIDE DEF next
  <2>5. work'.hand = next
    BY <1>4, <2>1 DEF Works
  <2>6. \A k \in Keys, v \in Values :
            Maps(k, v)' <=> \/ \E e \in Entries(Laid) : Laid[e].key = k /\ Laid[e].value = v
                            \/ other.key = k /\ other.value = v
    BY <2>3, <2>4, <2>5 DEF Maps, Entries
  <2>7. \A k \in Keys, v \in Values : Maps(k, v)' <=> Maps(k, v)
    BY <1>6, <1>9, <2>6
  <2> QED
    BY <2>7, SameContents
<1>8. CASE ~(to # hand.from /\ other.key \in Keys)
  <2> DEFINE tb == IF to = hand.from THEN Vector
                   ELSE [Vector EXCEPT !.slots = Laid, !.deleted = @ - reused]
  <2>1. /\ work' = [work EXCEPT !.hand = Empty, !.index = @ + 1] /\ Update(t, tb, "rehash")
    BY <1>8 DEF Displace, Laid, Left
  <2>2. Vector' = tb /\ Slots' = tb.slots
    <3> HIDE DEF tb
    <3> QED
      BY <2>1, Updated
  <2>3. work'.hand = Empty /\ Empty.key \notin Keys
    BY <1>4, <2>1, KeysAssumption DEF Works, Empty
  <2>4. CASE to = hand.from
    <3>1. Slots' = Slots /\ hand.from = work.index
      BY <1>2, <1>3, <1>4, <2>2, <2>4
    <3>2. \A k \in Keys, v \in Values : Maps(k, v)' <=> Maps(k, v)
      BY <1>2, <1>3, <1>4, <1>5, <2>3, <3>1 DEF Maps, Entries
    <3> QED
      BY <3>2, SameContents
  <2>5. CASE to # hand.from
    <3>1. other.key \notin Keys /\ tb.slots = Laid
      <4>1. tb = [Vector EXCEPT !.slots = Laid, !.deleted = @ - reused]
        BY <2>5
      <4> HIDE DEF tb
      <4> QED
        BY <1>4, <1>8, <2>5, <4>1 DEF Tables
    <3> HIDE DEF tb
    <3>2. \A k \in Keys, v \in Values :
              Maps(k, v)' <=> \E e \in Entries(Laid) : Laid[e].key = k /\ Laid[e].value = v
      BY <2>2, <2>3, <3>1 DEF Maps, Entries
    <3>3. \A k \in Keys, v \in Values : Maps(k, v)' <=> Maps(k, v)
      BY <1>6, <1>9, <3>1, <3>2
    <3> QED
      BY <3>3, SameContents
  <2> QED
    BY <2>4, <2>5
<1> QED
  BY <1>7, <1>8

(* The entry that is hashed for the new vector is in the old one.          *)
LEMMA MapCopySlot ==
  ASSUME Structure, Order, NEW t \in Threads, CopySlot(t)
  PROVE  Contents' = Contents
<1> DEFINE slot == Slots[work.index]
<1> DEFINE to == Probe(vectors[work.to].slots, address[slot.key], {Free, Deleted})
<1> DEFINE hand == [key |-> slot.key, value |-> slot.value, from |-> work.index, to |-> to]
<1>1. pc[t] = "copy" /\ work.index <= Len(Slots) /\ Slots' = Slots
  BY DEF CopySlot, Keep, tableVars, Slots, Vector
<1>2. work.index \in 1..Len(Slots) /\ DOMAIN Slots = 1..Len(Slots) /\ work \in Works /\ work.hand = Empty
  BY <1>1, CopyParts, TableParts, WorkParts DEF CopyAt
<1>3. work.hand.key \notin Keys
  BY <1>2, EmptyHand
<1>4. CASE slot.key \in Keys
  <2>1. work' = [work EXCEPT !.hand = hand]
    BY <1>4 DEF CopySlot
  <2>2. hand.key = slot.key /\ hand.value = slot.value
    OBVIOUS
  <2> HIDE DEF hand
  <2>3. work'.hand = hand
    BY <1>2, <2>1 DEF Works
  <2>4. \A k \in Keys, v \in Values : Maps(k, v)' <=> Maps(k, v)
    BY <1>1, <1>2, <1>3, <1>4, <2>2, <2>3 DEF Maps, Entries
  <2> QED
    BY <2>4, SameContents
<1>5. CASE slot.key \notin Keys
  <2>1. work' = [work EXCEPT !.index = @ + 1]
    BY <1>5 DEF CopySlot
  <2>2. work'.hand = work.hand
    BY <1>2, <2>1 DEF Works
  <2> QED
    BY <1>1, <2>2, ContentsApart
<1> QED
  BY <1>4, <1>5

(* The entry that was hashed is placed; the old vector has it still.       *)
LEMMA MapPlaceEntry ==
  ASSUME Structure, Order, NEW t \in Threads, PlaceEntry(t)
  PROVE  Contents' = Contents
<1>1. /\ pc[t] = "place" /\ vector' = vector
      /\ work' = [work EXCEPT !.hand = Empty, !.index = @ + 1]
      /\ vectors' = [vectors EXCEPT ![work.to].slots[work.hand.to] = Slot(work.hand.key, work.hand.value)]
  BY DEF PlaceEntry, Keep
<1>2. /\ work.to \in Vectors \ {vector} /\ work.to # 0 /\ CopyAt(t) /\ vectors \in [Vectors -> Tables]
      /\ vector \in Vectors /\ work \in Works /\ DOMAIN Slots = 1..Len(Slots) /\ Len(Slots) \in Nat
      /\ work.index \in 1..Len(Slots) + 1
  BY <1>1, CopyParts, TableParts, WorkParts
<1>3. work.hand.key \in Keys /\ work.index \in 1..Len(Slots)
  BY <1>1, <1>2 DEF CopyAt
<1>4. Slots[work.index] = Slot(work.hand.key, work.hand.value)
  BY <1>2, <1>3 DEF Order, PlaceInv
<1>5. Slots' = Slots
  BY <1>1, <1>2 DEF Slots, Vector
<1>6. work'.hand = Empty /\ Empty.key \notin Keys
  BY <1>1, <1>2, KeysAssumption DEF Works, Empty
<1>7. /\ work.index \in Entries(Slots) /\ Slots[work.index].key = work.hand.key
      /\ Slots[work.index].value = work.hand.value
  BY <1>2, <1>3, <1>4 DEF Entries, Slot
<1>8. \A k \in Keys, v \in Values : Maps(k, v)' <=> Maps(k, v)
  BY <1>5, <1>6, <1>7 DEF Maps, Entries
<1> QED
  BY <1>8, SameContents

(* The new vector has the pairs of the old one.                            *)
LEMMA MapInstall ==
  ASSUME Structure, Order, NEW t \in Threads, Install(t)
  PROVE  Contents' = Contents
<1> DEFINE old == IF HeldBy(vector, Threads) THEN Zeroed(vector) ELSE Unused
<1>1. /\ pc[t] = "copy" /\ work.index > Len(Slots) /\ vector' = work.to /\ work' = NoWork
      /\ vectors' = [vectors EXCEPT ![work.to].count = Vector.count, ![vector] = old]
  BY DEF Install, Keep
<1>2. /\ work.to \in Vectors \ {vector} /\ work.to # 0 /\ vectors \in [Vectors -> Tables]
      /\ vector \in Vectors /\ DOMAIN Slots = 1..Len(Slots) /\ Len(Slots) \in Nat /\ work.index \in Nat
      /\ work.hand = Empty
  BY <1>1, CopyParts, TableParts, WorkParts DEF CopyAt
<1>3. {Grown.slots[i] : i \in Entries(Grown.slots)} = {Slots[i] : i \in Below}
  BY <1>2 DEF Order, CopyInv
<1>4. Below = Entries(Slots)
  <2>1. \A i \in Entries(Slots) : i < work.index
    BY <1>1, <1>2 DEF Entries
  <2> QED
    BY <2>1 DEF Below
<1> HIDE DEF old
<1>5. Slots' = Grown.slots
  <2>1. PICK n : n = Vector.count
    OBVIOUS
  <2>2. vectors' = [vectors EXCEPT ![work.to].count = n, ![vector] = old]
    BY <1>1, <2>1
  <2>3. vectors'[work.to] = [vectors[work.to] EXCEPT !.count = n]
    BY <1>2, <2>2
  <2>4. vectors'[work.to].slots = vectors[work.to].slots
    BY <1>2, <2>3 DEF Tables
  <2> QED
    BY <1>1, <2>4 DEF Slots, Vector, Grown
<1>6. work.hand.key \notin Keys /\ work'.hand.key \notin Keys
  BY <1>1, <1>2, EmptyHand, KeysAssumption DEF NoWork, Empty
<1>7. ASSUME NEW k \in Keys, NEW v \in Values PROVE Maps(k, v)' <=> Maps(k, v)
  <2>1. Maps(k, v)' <=> \E c \in {Grown.slots[i] : i \in Entries(Grown.slots)} : c.key = k /\ c.value = v
    BY <1>5, <1>6 DEF Maps, Entries
  <2>2. Maps(k, v) <=> \E c \in {Slots[i] : i \in Entries(Slots)} : c.key = k /\ c.value = v
    BY <1>6 DEF Maps
  <2> QED
    BY <1>3, <1>4, <2>1, <2>2
<1> QED
  BY <1>7, SameContents

(* What a removal or a lookup that finds nothing knows.                    *)
LEMMA NothingFound ==
  ASSUME Structure, Order, work = NoWork, ~Vector.moved, NEW key \in Keys,
         LET s == Probe(Slots, address[key], {Free, key}) IN ~(s # 0 /\ Slots[s].key = key)
  PROVE  Contents[key] = None
<1>1. InOrder(Slots)
  <2>1. Unique(Slots) /\ OneWay(Slots)
    BY DEF Order, RestInv
  <2> QED
    BY <2>1, InOrderIs, TableParts, WorkParts
<1>2. ASSUME NEW e \in Entries(Slots), Slots[e].key = key PROVE FALSE
  <2>1. Probe(Slots, address[key], {Free, key}) = e
    BY <1>1, <1>2 DEF InOrder
  <2>2. e # 0
    BY TableParts DEF Entries
  <2> QED
    BY <1>2, <2>1, <2>2
<1>3. work.hand.key \notin Keys
  BY AtRest
<1>4. \A v : ~Maps(key, v)
  BY <1>2, <1>3 DEF Maps
<1> QED
  BY <1>4, NoEntryHeld

(* What a lookup that finds an entry knows.                                *)
LEMMA EntryFound ==
  ASSUME Structure, Order, work = NoWork, NEW key \in Keys, NEW s \in 1..Len(Slots), Slots[s].key = key
  PROVE  Contents[key] = Slots[s].value /\ Slots[s].value \in Values
<1>1. s \in Entries(Slots)
  BY TableParts DEF Entries
<1>2. work.hand.key \notin Keys /\ Kinds(Slots) /\ Unique(Slots)
  BY AtRest DEF Order
<1>3. Contents[Slots[s].key] = Slots[s].value
  BY <1>1, <1>2, EntryHeld
<1> QED
  BY <1>1, <1>2, <1>3 DEF Kinds, Entries

(* What a hit in the cache knows.                                          *)
LEMMA CacheFound ==
  ASSUME Structure, Order, work = NoWork, NEW key \in Keys, Vector.cached.key = key
  PROVE  /\ Contents[key] = Vector.cached.value /\ Vector.cached.value \in Values
         /\ Vector.cached.slot \in 1..Len(Slots) /\ Slots[Vector.cached.slot].key = key
<1>1. /\ Vector.cached.slot \in DOMAIN Slots
      /\ Slots[Vector.cached.slot] = Slot(Vector.cached.key, Vector.cached.value)
  BY DEF Order, CacheInv
<1>2. PICK s \in 1..Len(Slots) : s = Vector.cached.slot
  BY <1>1, TableParts
<1>3. Slots[s].key = key /\ Slots[s].value = Vector.cached.value
  BY <1>1, <1>2 DEF Slot
<1>4. Contents[key] = Slots[s].value /\ Slots[s].value \in Values
  BY <1>3, EntryFound
<1> QED
  BY <1>2, <1>3, <1>4

(* puthash maps its key to its value, and nothing else.                    *)
LEMMA MapPut ==
  ASSUME Structure, Order, NEW t \in Threads, Put(t)
  PROVE  Contents' = [Contents EXCEPT ![request[t].key] = request[t].value]
<1>0. PICK key, value : key = request[t].key /\ value = request[t].value
  OBVIOUS
<1> DEFINE slot == PutSlot(key)
<1> DEFINE was == Slots[slot].key
<1> DEFINE cell == Slot(key, value)
<1> DEFINE d == IF was = key THEN 0 ELSE 1
<1> DEFINE e == IF was = Deleted THEN 1 ELSE 0
<1> DEFINE c == [key |-> key, value |-> value, slot |-> slot]
<1> DEFINE tb == [Vector EXCEPT !.slots[slot] = cell, !.count = @ + d, !.deleted = @ - e, !.cached = c]
<1>1. pc[t] = "put" /\ slot # 0 /\ Update(t, tb, "enable") /\ UNCHANGED work
  BY <1>0 DEF Put
<1>2. /\ work = NoWork /\ OneWay(Slots) /\ InOrder(Slots) /\ key \in Keys /\ value \in Values
  <2>1. /\ work = NoWork /\ OneWay(Slots) /\ InOrder(Slots) /\ key \in Keys
        /\ request[t] \in Calls(t) /\ request[t].op = "put"
    BY <1>0, <1>1, OwnerAtRest
  <2> QED
    BY <1>0, <2>1, CallParts
<1>3. /\ Vector \in Tables /\ Slots \in Seq(Cells) /\ Slots = Vector.slots /\ DOMAIN Slots = 1..Len(Slots)
      /\ Vector.count \in Int /\ Vector.deleted \in Int
  BY TableParts DEF Tables, Slots
<1>4. /\ slot \in 1..Len(Slots) /\ was \in {key, Free, Deleted}
      /\ \A j \in 1..Len(Slots) : j # slot => Slots[j].key # key
  BY <1>1, <1>2, PutSlotIs
<1>5. cell \in Cells /\ cell.key = key /\ cell.value = value
  BY <1>2 DEF Slot, Cells, Words
<1>6. Slots' = tb.slots
  <2> HIDE DEF tb
  <2> QED
    BY <1>1, Updated
<1>7. tb.slots = Write(Slots, slot, cell)
  <2>1. d \in Int /\ e \in Int
    OBVIOUS
  <2> HIDE DEF slot, cell, d, e, c
  <2> QED
    BY <1>3, <2>1 DEF Tables, Write
<1> HIDE DEF tb, slot
<1>8. DOMAIN Slots' = 1..Len(Slots) /\ Slots'[slot] = cell /\ \A j \in 1..Len(Slots) : j # slot => Slots'[j] = Slots[j]
  <2>1. Slots \in Seq(Cells) /\ slot \in 1..Len(Slots) /\ cell \in Cells
    BY <1>3, <1>4, <1>5
  <2> HIDE DEF cell
  <2>2. LET w == Write(Slots, slot, cell) IN
        DOMAIN w = 1..Len(Slots) /\ w[slot] = cell /\ \A j \in 1..Len(Slots) : j # slot => w[j] = Slots[j]
    BY <2>1, Stored
  <2> QED
    BY <1>6, <1>7, <2>2
<1>9. work.hand.key \notin Keys /\ work'.hand.key \notin Keys
  BY <1>1, <1>2, AtRest
<1> HIDE DEF cell
<1>10. \A k \in Keys \ {key}, v \in Values : Maps(k, v)' <=> Maps(k, v)
  BY <1>2, <1>3, <1>4, <1>5, <1>8, <1>9, KeysAssumption DEF Maps, Entries
<1>11. \A v \in Values : Maps(key, v)' <=> v = value
  BY <1>2, <1>4, <1>5, <1>8, <1>9 DEF Maps, Entries
<1>12. Contents' = [Contents EXCEPT ![key] = value]
  BY <1>2, <1>10, <1>11, ContentsChanged
<1> QED
  BY <1>0, <1>12

(* remhash removes its key if it finds it, and knows that there is nothing *)
(* for it if not.                                                          *)
LEMMA MapRemove ==
  ASSUME Structure, Order, NEW t \in Threads, Remove(t)
  PROVE  \/ /\ Contents' = [Contents EXCEPT ![request[t].key] = None] /\ changed' = changed \cup {t}
            /\ Contents[request[t].key] # None
         \/ Contents' = Contents /\ changed' = changed /\ Contents[request[t].key] = None
<1>0. PICK key : key = request[t].key
  OBVIOUS
<1> DEFINE walk == Probe(Slots, address[key], {Free, key})
<1> DEFINE slot == IF Vector.cached.key = key THEN Vector.cached.slot ELSE walk
<1> DEFINE cell == Slot(Deleted, None)
<1> DEFINE tb == [Vector EXCEPT !.slots[slot] = cell, !.count = @ - 1, !.deleted = @ + 1, !.cached = NoCache]
<1>1. pc[t] = "rem" /\ UNCHANGED work
  BY DEF Remove
<1>2. /\ work = NoWork /\ ~Vector.moved /\ key \in Keys
  BY <1>0, <1>1, OwnerAtRest
<1>3. /\ Vector \in Tables /\ Slots \in Seq(Cells) /\ Slots = Vector.slots /\ Vector.count \in Int
      /\ Vector.deleted \in Int /\ DOMAIN Slots = 1..Len(Slots) /\ address[key] \in Int
      /\ Kinds(Slots) /\ Unique(Slots)
  BY <1>2, TableParts, WorkParts DEF Tables, Order, Slots
<1>4. CASE ~(slot # 0 /\ Slots[slot].key = key)
  <2>1. Update(t, Vector, "enable") /\ UNCHANGED changed
    BY <1>0, <1>4 DEF Remove
  <2>2. Slots' = Slots
    BY <2>1, Updated DEF Slots
  <2>3. Contents' = Contents
    BY <1>1, <2>2, ContentsApart
  <2>4. Vector.cached.key # key
    <3> SUFFICES ASSUME Vector.cached.key = key PROVE FALSE
      OBVIOUS
    <3>1. Vector.cached.slot \in 1..Len(Slots) /\ Slots[Vector.cached.slot].key = key
      BY <1>2, CacheFound
    <3> QED
      BY <1>4, <3>1
  <2>5. LET s == Probe(Slots, address[key], {Free, key}) IN ~(s # 0 /\ Slots[s].key = key)
    BY <1>4, <2>4
  <2>6. Contents[key] = None
    BY <1>2, <2>5, NothingFound
  <2> QED
    BY <1>0, <2>1, <2>3, <2>6
<1>5. CASE slot # 0 /\ Slots[slot].key = key
  <2>1. Update(t, tb, "enable") /\ changed' = changed \cup {t}
    BY <1>0, <1>5 DEF Remove
  <2>2. Slots' = tb.slots
    <3> HIDE DEF tb
    <3> QED
      BY <2>1, Updated
  <2>3. slot \in 1..Len(Slots)
    <3>1. CASE Vector.cached.key = key
      BY <1>2, <3>1, CacheFound
    <3>2. CASE Vector.cached.key # key
      <4>1. walk \in 0..Len(Slots)
        BY <1>3, ProbeIs
      <4> HIDE DEF walk
      <4> QED
        BY <1>3, <1>5, <3>2, <4>1
    <3> QED
      BY <3>1, <3>2
  <2>4. cell \in Cells /\ cell.key \notin Keys
    BY KeysAssumption DEF Slot, Cells, Words
  <2>5. tb.slots = Write(Slots, slot, cell)
    <3> HIDE DEF slot, cell
    <3> QED
      BY <1>3 DEF Tables, Write
  <2> HIDE DEF tb, slot, cell
  <2>6. DOMAIN Slots' = 1..Len(Slots) /\ Slots'[slot] = cell /\ \A j \in 1..Len(Slots) : j # slot => Slots'[j] = Slots[j]
    <3>1. Slots \in Seq(Cells) /\ slot \in 1..Len(Slots) /\ cell \in Cells
      BY <1>3, <2>3, <2>4
    <3>2. LET w == Write(Slots, slot, cell) IN
          DOMAIN w = 1..Len(Slots) /\ w[slot] = cell /\ \A j \in 1..Len(Slots) : j # slot => w[j] = Slots[j]
      BY <3>1, Stored
    <3> QED
      BY <2>2, <2>5, <3>2
  <2>7. work.hand.key \notin Keys /\ work'.hand.key \notin Keys
    BY <1>1, <1>2, AtRest
  <2>8. \A k \in Keys \ {key}, v \in Values : Maps(k, v)' <=> Maps(k, v)
    BY <1>3, <1>5, <2>3, <2>4, <2>6, <2>7 DEF Maps, Entries
  <2>9. \A v \in Values : Maps(key, v)' <=> v = None
    <3>1. None \notin Values
      BY KeysAssumption
    <3>2. \A j \in 1..Len(Slots) : j # slot => Slots[j].key # key
      BY <1>2, <1>3, <1>5, <2>3 DEF Unique, Entries
    <3> QED
      BY <1>2, <2>4, <2>6, <2>7, <3>1, <3>2 DEF Maps, Entries
  <2>10. Contents[key] # None
    <3>1. Contents[key] = Slots[slot].value /\ Slots[slot].value \in Values
      BY <1>2, <1>5, <2>3, EntryFound
    <3> QED
      BY <3>1, KeysAssumption
  <2>11. Contents' = [Contents EXCEPT ![key] = None]
    BY <1>2, <2>8, <2>9, ContentsChanged
  <2> QED
    BY <1>0, <2>1, <2>10, <2>11
<1> QED
  BY <1>4, <1>5

(* clrhash leaves the empty map.                                           *)
LEMMA MapClear ==
  ASSUME Structure, NEW t \in Threads, Clear(t)
  PROVE  Contents' = [k \in Keys |-> None]
<1> DEFINE tb == [Unused EXCEPT !.slots = [i \in DOMAIN Slots |-> Slot(Free, Free)]]
<1>1. pc[t] = "clear" /\ Update(t, tb, "enable") /\ UNCHANGED work
  BY DEF Clear
<1>2. work = NoWork
  <2>1. lock.writer = t
    BY <1>1, OfThread DEF LockAt, AtWork
  <2> QED
    BY <1>1, <2>1, NobodyElse DEF AtTable
<1>3. tb.slots = [i \in DOMAIN Slots |-> Slot(Free, Free)]
  BY DEF Unused
<1> HIDE DEF tb
<1>4. Slots' = tb.slots
  BY <1>1, Updated
<1>5. Entries(Slots') = {}
  BY <1>3, <1>4, KeysAssumption DEF Entries, Slot
<1>6. work'.hand.key \notin Keys
  BY <1>1, <1>2, AtRest
<1>7. \A k \in Keys, v \in Values : ~Maps(k, v)'
  BY <1>5, <1>6 DEF Maps
<1>8. \A k \in Keys : Held(k)' = {}
  <2>1. \A k \in Keys : \A v : v \notin Held(k)'
    BY <1>7, HeldIs
  <2> QED
    BY <2>1
<1>9. \A k \in Keys : Chosen(Held(k)') = None
  BY <1>8 DEF Chosen
<1> QED
  BY <1>9, ContentsAre

(* An operation has changed the table only when it is over.                *)
ChangedAt(t) ==
    /\ t \in changed => pc[t] \in {"enable", "unlock"} /\ request[t].op # "get"
    /\ pc[t] \in {"enable", "unlock"} /\ request[t].op \in {"put", "clr"} => t \in changed

(* What gethash is to return, and remhash without a key, was in the table. *)
ResultAt(t) ==
    LET over == pc[t] \in {"enable", "unlock"} IN
    IF request[t].op = "get" /\ over THEN my[t].result \in history[t]
    ELSE /\ my[t].result = None
         /\ request[t].op = "rem" /\ over /\ t \notin changed => None \in history[t]

(* Nobody waits for a promotion while a putter may grow the table.         *)
NobodyWaits(u) ==
    /\ pc[u] \in {"grow", "copy", "place"} => Waiting = {}
    /\ request[u].op = "put" /\ lock.writer = u
         /\ pc[u] \in {"inhibit", "test", "rehash", "displace", "put"} =>
           Waiting = {} \/ threshold > 0

(* The inductive invariant, on top of Structure and Order.                 *)
Answers ==
    /\ changed \subseteq Threads /\ history \in [Threads -> SUBSET (Values \cup {None})]
    /\ \A t \in Threads : ChangedAt(t) /\ ResultAt(t) /\ NobodyWaits(t) /\ my[t].vector \in {0, vector}

(* What a request is for.                                                  *)
LEMMA RequestIs ==
  ASSUME Structure, NEW t \in Threads
  PROVE  /\ request[t] = Idle \/ request[t] \in Calls(t)
         /\ request[t].op \in {"get", "rem", "put"} => request[t].key \in Keys
         /\ request[t] # Idle => request[t].op \in {"get", "rem", "put", "clr"}
         /\ request[t].op = "put" => request[t].value \in Values
         /\ request[t].op # "put" => request[t].value = None
         /\ Idle.op = "idle"
<1>1. request[t] \in {Idle} \cup Calls(t)
  BY DEF Structure, Shape
<1>2. Idle.op = "idle" /\ Idle.value = None
  BY DEF Idle
<1> QED
  BY <1>1, <1>2, CallParts

(* The history grows while the operation may return what it saw.           *)
LEMMA HistoryIs ==
  ASSUME history \in [Threads -> SUBSET (Values \cup {None})], Recorded,
         \A u \in Threads : request'[u].op \in {"get", "rem"} => request'[u].key \in Keys
  PROVE  /\ history' \in [Threads -> SUBSET (Values \cup {None})]
         /\ \A u \in Threads : request'[u].op \in {"get", "rem"} /\ u \notin changed' =>
                history[u] \subseteq history'[u] /\ Contents'[request'[u].key] \in history'[u]
<1>1. Contents' \in [Keys -> Values \cup {None}]
  BY ContentsType
<1>2. ASSUME NEW u \in Threads
      PROVE  history'[u] = IF request'[u].op \notin {"get", "rem"} \/ u \in changed' THEN {}
                           ELSE {Contents'[request'[u].key]} \cup history[u]
  BY DEF Recorded
<1>3. ASSUME NEW u \in Threads PROVE history'[u] \in SUBSET (Values \cup {None})
  <2>1. CASE request'[u].op \notin {"get", "rem"} \/ u \in changed'
    <3>1. history'[u] = {}
      BY <1>2, <2>1
    <3> QED
      BY <3>1
  <2>2. CASE ~(request'[u].op \notin {"get", "rem"} \/ u \in changed')
    <3>1. history'[u] = {Contents'[request'[u].key]} \cup history[u]
      BY <1>2, <2>2
    <3>2. request'[u].key \in Keys
      BY <2>2
    <3>3. Contents'[request'[u].key] \in Values \cup {None}
      BY <1>1, <3>2
    <3>4. history[u] \subseteq Values \cup {None}
      OBVIOUS
    <3> QED
      BY <3>1, <3>3, <3>4
  <2> QED
    BY <2>1, <2>2
<1>4. DOMAIN history' = Threads /\ history' = [u \in Threads |-> history'[u]]
  BY DEF Recorded
<1> QED
  BY <1>2, <1>3, <1>4

(* A step of one thread leaves the others' operations where they are.      *)
LEMMA AnswersStep ==
  ASSUME Structure, Answers, Structure', Recorded, NEW t \in Threads,
         \A u \in Threads \ {t} :
             /\ pc'[u] = pc[u] /\ request'[u] = request[u] /\ my'[u] = my[u]
             /\ u \in changed' <=> u \in changed,
         changed' \subseteq Threads,
         \/ lock'.writer \in {t, None}
         \/ UNCHANGED <<lock, threshold>> /\ Waiting' = Waiting,
         \A u \in Threads \ {t} : my[u].vector \in {0, vector'},
         my'[t].vector \in {0, vector'}, ChangedAt(t)', ResultAt(t)', NobodyWaits(t)'
  PROVE  Answers'
<1>1. \A u \in Threads : request'[u].op \in {"get", "rem"} => request'[u].key \in Keys
  <2>1. \A u \in Threads : request'[u] \in {Idle} \cup Calls(u)
    BY DEF Structure, Shape
  <2>2. Idle.op = "idle"
    BY DEF Idle
  <2> QED
    BY <2>1, <2>2, CallParts
<1>2. /\ history' \in [Threads -> SUBSET (Values \cup {None})]
      /\ \A u \in Threads : request'[u].op \in {"get", "rem"} /\ u \notin changed' =>
             history[u] \subseteq history'[u]
  BY <1>1, HistoryIs DEF Answers
<1>3. ASSUME NEW u \in Threads \ {t} PROVE ChangedAt(u)' /\ ResultAt(u)'
  <2>1. ChangedAt(u) /\ ResultAt(u)
    BY DEF Answers
  <2>2. ChangedAt(u)'
    BY <2>1 DEF ChangedAt
  <2>3. ResultAt(u)'
    BY <1>2, <2>1, <2>2 DEF ResultAt, ChangedAt
  <2> QED
    BY <2>2, <2>3
<1>4. ASSUME NEW u \in Threads \ {t} PROVE NobodyWaits(u)'
  <2>1. NobodyWaits(u) /\ u # None
    BY ConstantTypes DEF Answers
  <2>2. pc'[u] \in AtWork => lock'.writer = u
    BY DEF Structure, LockInv, LockAt
  <2>3. CASE lock'.writer \in {t, None}
    BY <2>1, <2>2, <2>3 DEF NobodyWaits, AtWork
  <2>4. CASE UNCHANGED <<lock, threshold>> /\ Waiting' = Waiting
    BY <2>1, <2>4 DEF NobodyWaits
  <2> QED
    BY <2>3, <2>4
<1> QED
  BY <1>2, <1>3, <1>4 DEF Answers

(* A step of one thread moves no other thread, and whoever has the lock for *)
(* writing after it is that thread.                                        *)
LEMMA OthersStay ==
  ASSUME Structure, NEW t \in Threads, Step(t)
  PROVE  /\ \A u \in Threads \ {t} :
                /\ pc'[u] = pc[u] /\ request'[u] = request[u] /\ my'[u] = my[u]
                /\ u \in changed' <=> u \in changed
         /\ lock'.writer \in {t, None}
         /\ changed' \subseteq changed \cup {t}
<1> DEFINE Own == /\ \A u \in Threads \ {t} :
                         /\ pc'[u] = pc[u] /\ request'[u] = request[u] /\ my'[u] = my[u]
                         /\ u \in changed' <=> u \in changed
                  /\ lock'.writer \in {t, None}
                  /\ changed' \subseteq changed \cup {t}
<1>1. LockAt(t) /\ LockInv /\ lock \in Locks
  BY OfThread DEF Structure
<1>2. DOMAIN pc = Threads /\ DOMAIN my = Threads /\ DOMAIN request = Threads
  BY DEF Structure, Shape
<1> USE <1>1, <1>2
<1>3. CASE ReadLock(t)
  BY <1>3 DEF ReadLock, Goto, Keep, threadVars, Locks
<1>4. CASE WriteLock(t)
  BY <1>4 DEF WriteLock, Goto, Keep, threadVars, Locks
<1>5. CASE InhibitGC(t)
  BY <1>5 DEF InhibitGC, Inhibit, Goto, Keep, threadVars, LockAt, LockInv
<1>6. CASE Find(t)
  BY <1>6 DEF Find, Goto, Keep, threadVars, LockAt, LockInv
<1>7. CASE PromoteAlone(t)
  BY <1>7 DEF PromoteAlone, Goto, Keep, threadVars, Writing
<1>8. CASE ReleaseToPromote(t)
  <2>1. t \in lock.readers
    BY <1>8 DEF ReleaseToPromote, LockAt
  <2>2. lock.writer = None
    BY <2>1 DEF LockInv
  <2>3. lock'.writer = None
    BY <1>8, <2>2 DEF ReleaseToPromote, Locks
  <2> QED
    BY <1>8, <2>3 DEF ReleaseToPromote, Goto, Keep, threadVars
<1>9. CASE Promoted(t)
  BY <1>9 DEF Promoted, Goto, Keep, threadVars, Locks
<1>10. CASE Test(t)
  BY <1>10 DEF Test, StartRehash, Update, Goto, Keep, threadVars, LockAt, AtWork
<1>11. CASE RehashSlot(t)
  BY <1>11 DEF RehashSlot, Update, Goto, Keep, threadVars, LockAt, AtWork
<1>12. CASE Displace(t)
  BY <1>12 DEF Displace, Update, Goto, Keep, threadVars, LockAt, AtWork
<1>13. CASE EndRehash(t)
  BY <1>13 DEF EndRehash, Goto, Keep, threadVars, LockAt, AtWork
<1>14. CASE Put(t)
  BY <1>14 DEF Put, Update, Goto, Keep, threadVars, LockAt, AtWork
<1>15. CASE Remove(t)
  BY <1>15 DEF Remove, Update, Goto, Keep, threadVars, LockAt, AtWork
<1>16. CASE Clear(t)
  BY <1>16 DEF Clear, Update, Goto, Keep, threadVars, LockAt, AtWork
<1>17. CASE PutNeedsRoom(t)
  BY <1>17 DEF PutNeedsRoom, LetIn, Goto, Keep, threadVars, LockAt, AtWork
<1>18. CASE Grow(t)
  BY <1>18 DEF Grow, StartRehash, Update, Goto, Keep, threadVars, LockAt, AtWork
<1>19. CASE CopySlot(t)
  BY <1>19 DEF CopySlot, Goto, Keep, threadVars, LockAt, AtWork
<1>20. CASE PlaceEntry(t)
  BY <1>20 DEF PlaceEntry, Goto, Keep, threadVars, LockAt, AtWork
<1>21. CASE Install(t)
  BY <1>21 DEF Install, Goto, Keep, threadVars, LockAt, AtWork
<1>22. CASE EnableGC(t)
  BY <1>22 DEF EnableGC, LetIn, Goto, Keep, threadVars, LockAt, LockInv
<1>23. CASE Unlock(t)
  BY <1>23 DEF Unlock, Goto, LockAt, LockInv
<1> QED
  BY <1>3, <1>4, <1>5, <1>6, <1>7, <1>8, <1>9, <1>10, <1>11, <1>12, <1>13, <1>14, <1>15,
     <1>16, <1>17, <1>18, <1>19, <1>20, <1>21, <1>22, <1>23 DEF Step

(* A step of a thread, with what it must show of itself.                   *)
LEMMA OwnAnswers ==
  ASSUME Structure, Answers, Structure', Recorded, NEW t \in Threads, Step(t),
         \A u \in Threads \ {t} : my[u].vector \in {0, vector'},
         my'[t].vector \in {0, vector'}, ChangedAt(t)', ResultAt(t)', NobodyWaits(t)'
  PROVE  Answers'
<1>1. changed \subseteq Threads
  BY DEF Answers
<1>2. /\ \A u \in Threads \ {t} :
             /\ pc'[u] = pc[u] /\ request'[u] = request[u] /\ my'[u] = my[u]
             /\ u \in changed' <=> u \in changed
      /\ lock'.writer \in {t, None}
      /\ changed' \subseteq Threads
  BY <1>1, OthersStay
<1> QED
  BY <1>2, AnswersStep

(* The history of an operation under way or over.                          *)
LEMMA HistoryOf ==
  ASSUME Structure', Answers, Recorded, NEW t \in Threads, request'[t].op \in {"get", "rem"}, t \notin changed'
  PROVE  history[t] \subseteq history'[t] /\ Contents'[request'[t].key] \in history'[t]
<1>1. \A u \in Threads : request'[u].op \in {"get", "rem"} => request'[u].key \in Keys
  <2>1. \A u \in Threads : request'[u] \in {Idle} \cup Calls(u)
    BY DEF Structure, Shape
  <2>2. Idle.op = "idle"
    BY DEF Idle
  <2> QED
    BY <2>1, <2>2, CallParts
<1>2. history \in [Threads -> SUBSET (Values \cup {None})]
  BY DEF Answers
<1> QED
  BY <1>1, <1>2, HistoryIs

(* A step after which the operation is as much over as before, and has     *)
(* changed and found as much.                                              *)
LEMMA UnderWay ==
  ASSUME Structure, Answers, Structure', Recorded, NEW t \in Threads, Step(t),
         UNCHANGED <<vector, request, changed>>,
         my'[t].vector \in {0, vector}, my'[t].result = my[t].result,
         pc[t] \in {"enable", "unlock"} <=> pc'[t] \in {"enable", "unlock"},
         NobodyWaits(t)'
  PROVE  Answers'
<1>1. ChangedAt(t) /\ ResultAt(t) /\ \A u \in Threads : my[u].vector \in {0, vector}
  BY DEF Answers
<1>2. ChangedAt(t)'
  BY <1>1 DEF ChangedAt
<1>3. ResultAt(t)'
  <2>1. CASE request[t].op = "get" /\ pc[t] \in {"enable", "unlock"}
    <3>1. t \notin changed'
      BY <1>1, <2>1 DEF ChangedAt
    <3>2. history[t] \subseteq history'[t]
      BY <2>1, <3>1, HistoryOf
    <3> QED
      BY <1>1, <2>1, <3>2 DEF ResultAt
  <2>2. CASE ~(request[t].op = "get" /\ pc[t] \in {"enable", "unlock"})
    <3>1. my[t].result = None
      BY <1>1, <2>2 DEF ResultAt
    <3>2. ASSUME request[t].op = "rem", pc'[t] \in {"enable", "unlock"}, t \notin changed'
          PROVE  None \in history'[t]
      <4>1. history[t] \subseteq history'[t]
        BY <3>2, HistoryOf
      <4>2. None \in history[t]
        BY <1>1, <3>2 DEF ResultAt
      <4> QED
        BY <4>1, <4>2
    <3> QED
      BY <2>2, <3>1, <3>2 DEF ResultAt
  <2> QED
    BY <2>1, <2>2
<1> QED
  BY <1>1, <1>2, <1>3, OwnAnswers

(* Whoever has the lock for writing goes on, with as much room.            *)
LEMMA NobodyStill ==
  ASSUME Structure, Answers, Structure', NEW t \in Threads, NEW p, p # "wait", Goto(t, p),
         pc[t] \in AtWork \cup {"inhibit"}, UNCHANGED request,
         \/ pc[t] \in {"grow", "copy", "place"}
         \/ request[t].op # "put"
         \/ p \notin {"grow", "copy", "place"} /\ threshold' >= threshold
  PROVE  NobodyWaits(t)'
<1>1. NobodyWaits(t) /\ LockAt(t) /\ OpAt(t)' /\ threshold \in Int /\ threshold' \in Int /\ pc \in [Threads -> Points]
  BY OfThread DEF Answers, Structure, ThreadInv, Shape
<1>2. Waiting' \subseteq Waiting /\ pc'[t] = p
  BY <1>1 DEF Goto, Waiting
<1>3. CASE pc[t] \in {"grow", "copy", "place"}
  <2>1. Waiting' = {}
    BY <1>1, <1>2, <1>3 DEF NobodyWaits
  <2> QED
    BY <2>1 DEF NobodyWaits
<1>4. CASE request[t].op # "put"
  BY <1>1, <1>4 DEF NobodyWaits, OpAt
<1>5. CASE /\ pc[t] \notin {"grow", "copy", "place"} /\ request[t].op = "put"
           /\ p \notin {"grow", "copy", "place"} /\ threshold' >= threshold
  <2>1. lock.writer = t
    BY <1>1, <1>5 DEF LockAt
  <2>2. pc[t] \in {"inhibit", "test", "rehash", "displace", "put"}
    <3>1. OpAt(t)
      BY OfThread
    <3> QED
      BY <1>5, <3>1 DEF OpAt, AtWork
  <2>3. Waiting = {} \/ threshold > 0
    BY <1>1, <1>5, <2>1, <2>2 DEF NobodyWaits
  <2>4. Waiting' = {} \/ threshold' > 0
    BY <1>1, <1>2, <1>5, <2>3
  <2> QED
    BY <1>2, <1>5, <2>4 DEF NobodyWaits
<1> QED
  BY <1>3, <1>4, <1>5

(* Where nothing in the invariant is about the thread's lock.              *)
LEMMA NobodyElsewhere ==
  ASSUME NEW t \in Threads,
         \/ pc'[t] \notin {"grow", "copy", "place", "inhibit", "test", "rehash", "displace", "put"}
         \/ pc'[t] \notin {"grow", "copy", "place"} /\ request'[t].op # "put"
  PROVE  NobodyWaits(t)'
BY DEF NobodyWaits

(* The steps of an operation under way.                                    *)
LEMMA AnswersWriteLock ==
  ASSUME Structure, Order, Answers, Structure', Recorded, PromotedFirst, NEW t \in Threads, WriteLock(t)
  PROVE  Answers'
<1>1. /\ pc[t] = "write" /\ LockIsFree
      /\ Waiting # {} => ~(request[t].op = "put" /\ threshold = 0)
      /\ Goto(t, IF request[t].op = "clr" THEN "clear" ELSE "inhibit")
      /\ UNCHANGED <<vector, threshold, my, request, changed>>
  BY DEF WriteLock, Keep, tableVars, threadVars
<1>2. pc \in [Threads -> Points] /\ threshold \in Int /\ threshold >= 0
  BY DEF Structure, Shape, Order, CountInv
<1>3. pc'[t] = IF request[t].op = "clr" THEN "clear" ELSE "inhibit"
  BY <1>1, <1>2 DEF Goto
<1>4. Waiting' \subseteq Waiting
  BY <1>1, <1>2, <1>3 DEF Goto, Waiting
<1>5. Waiting' = {} \/ request[t].op # "put" \/ threshold' > 0
  BY <1>1, <1>2, <1>4
<1>6. NobodyWaits(t)'
  BY <1>1, <1>3, <1>5 DEF NobodyWaits
<1>7. Step(t)
  BY DEF Step
<1>8. my[t].vector \in {0, vector}
  BY DEF Answers
<1> QED
  BY <1>1, <1>3, <1>6, <1>7, <1>8, UnderWay

(* The collector is kept out: room and waiters stay.                       *)
LEMMA AnswersInhibitGC ==
  ASSUME Structure, Order, Answers, Structure', Recorded, NEW t \in Threads, InhibitGC(t)
  PROVE  Answers'
<1> DEFINE p == IF request[t].op = "get" THEN "promote" ELSE "test"
<1>1. /\ pc[t] = "inhibit" /\ Goto(t, p)
      /\ my' = [my EXCEPT ![t].inhibits = @ + 1]
      /\ UNCHANGED <<vector, threshold, request, changed>>
  BY DEF InhibitGC, Inhibit, Keep, tableVars, threadVars
<1>2. pc \in [Threads -> Points] /\ my \in [Threads -> Locals] /\ threshold \in Int
  BY DEF Structure, Shape
<1>3. pc'[t] = p /\ my'[t].vector = my[t].vector /\ my'[t].result = my[t].result
  BY <1>1, <1>2 DEF Goto, Locals
<1>4. NobodyWaits(t)'
  BY <1>1, <1>2, NobodyStill DEF AtWork
<1>5. Step(t) /\ my[t].vector \in {0, vector}
  BY DEF Step, Answers
<1> QED
  BY <1>1, <1>3, <1>4, <1>5, UnderWay

(* gethash asks for its promotion.                                         *)
LEMMA AnswersPromotion ==
  ASSUME Structure, Order, Answers, Structure', Recorded, NEW t \in Threads,
         PromoteAlone(t) \/ ReleaseToPromote(t) \/ Promoted(t)
  PROVE  Answers'
<1>1. /\ pc[t] \in {"promote", "wait"} /\ (Goto(t, "test") \/ Goto(t, "wait"))
      /\ UNCHANGED <<vector, my, request, changed>>
  BY DEF PromoteAlone, ReleaseToPromote, Promoted, Keep, tableVars, threadVars
<1>2. pc \in [Threads -> Points]
  BY DEF Structure, Shape
<1>3. pc'[t] \in {"test", "wait"} /\ request'[t].op = "get"
  <2>1. OpAt(t)
    BY OfThread
  <2>2. pc[t] \in {"promote", "wait"} => request[t].op = "get"
    BY <2>1 DEF OpAt
  <2>3. pc[t] \in {"promote", "wait"}
    BY DEF PromoteAlone, ReleaseToPromote, Promoted
  <2> QED
    BY <1>1, <1>2, <2>2, <2>3 DEF Goto
<1>4. NobodyWaits(t)'
  BY <1>3, NobodyElsewhere
<1>5. Step(t) /\ my[t].vector \in {0, vector} /\ pc[t] \in {"promote", "wait"}
  BY DEF Step, Answers, PromoteAlone, ReleaseToPromote, Promoted
<1> QED
  BY <1>1, <1>3, <1>4, <1>5, UnderWay

(* Where the rehash is begun, under way and over.                          *)
LEMMA AnswersTest ==
  ASSUME Structure, Order, Answers, Structure', Recorded, NEW t \in Threads, Test(t)
  PROVE  Answers'
<1>1. PICK p \in {"rehash", AfterTest(t)} :
         /\ pc[t] = "test" /\ Goto(t, p)
         /\ UNCHANGED <<vector, threshold, my, request, changed>>
  BY DEF Test, StartRehash, Update, Keep, tableVars, threadVars
<1>2. pc \in [Threads -> Points] /\ threshold \in Int /\ OpAt(t)
  BY OfThread DEF Structure, Shape
<1>3. p \in {"rehash", "find", "put", "rem"}
  BY <1>1, <1>2 DEF OpAt, AfterTest
<1>4. pc'[t] = p
  BY <1>1, <1>2 DEF Goto
<1>5. NobodyWaits(t)'
  BY <1>1, <1>2, <1>3, NobodyStill DEF AtWork
<1>6. Step(t) /\ my[t].vector \in {0, vector}
  BY DEF Step, Answers
<1> QED
  BY <1>1, <1>3, <1>4, <1>5, <1>6, UnderWay

(* The rehash may find deleted slots, which makes room.                    *)
LEMMA AnswersRehash ==
  ASSUME Structure, Order, Answers, Structure', Recorded, NEW t \in Threads, RehashSlot(t) \/ Displace(t)
  PROVE  Answers'
<1>1. PICK p \in {"rehash", "displace"} :
         /\ pc[t] \in {"rehash", "displace"} /\ Goto(t, p)
         /\ UNCHANGED <<vector, my, request, changed>>
  BY DEF RehashSlot, Displace, Update, Keep, tableVars, threadVars
<1>2. pc \in [Threads -> Points] /\ threshold \in Int
  BY DEF Structure, Shape
<1>3. threshold' >= threshold
  BY <1>2 DEF RehashSlot, Displace
<1>4. pc'[t] = p
  BY <1>1, <1>2 DEF Goto
<1>5. NobodyWaits(t)'
  BY <1>1, <1>3, NobodyStill DEF AtWork
<1>6. Step(t) /\ my[t].vector \in {0, vector}
  BY DEF Step, Answers
<1> QED
  BY <1>1, <1>4, <1>5, <1>6, UnderWay

(* The operation goes on after the rehash.                                 *)
LEMMA AnswersEndRehash ==
  ASSUME Structure, Order, Answers, Structure', Recorded, NEW t \in Threads, EndRehash(t)
  PROVE  Answers'
<1>1. /\ pc[t] = "rehash" /\ Goto(t, work.back)
      /\ UNCHANGED <<vector, threshold, my, request, changed>>
  BY DEF EndRehash, Keep, tableVars, threadVars
<1>2. pc \in [Threads -> Points] /\ threshold \in Int /\ OpAt(t)
  BY OfThread DEF Structure, Shape
<1>3. work.back \in {"find", "put", "rem", "inhibit"}
  <2>1. request[t] = Idle \/ request[t].op \in {"get", "rem", "put", "clr"}
    BY RequestIs
  <2>2. work.back \in {"none", "find", "put", "rem", "inhibit"}
    BY DEF Structure, Shape, Works
  <2>3. work.back = AfterTest(t) \/ work.back = "inhibit"
    BY <1>1, <1>2 DEF OpAt
  <2>4. AfterTest(t) # "none"
    BY <2>1 DEF AfterTest, Idle
  <2> QED
    BY <2>2, <2>3, <2>4
<1>4. pc'[t] = work.back
  BY <1>1, <1>2 DEF Goto
<1>5. NobodyWaits(t)'
  BY <1>1, <1>2, <1>3, NobodyStill DEF AtWork
<1>6. Step(t) /\ my[t].vector \in {0, vector}
  BY DEF Step, Answers
<1> QED
  BY <1>1, <1>3, <1>4, <1>5, <1>6, UnderWay

(* A putter that finds no room knows that nobody waits.                    *)
LEMMA AnswersPutNeedsRoom ==
  ASSUME Structure, Order, Answers, Structure', Recorded, NEW t \in Threads, PutNeedsRoom(t)
  PROVE  Answers'
<1>1. /\ pc[t] = "put" /\ ~HasRoom(PutSlot(request[t].key)) /\ Goto(t, "grow")
      /\ my' = [my EXCEPT ![t].inhibits = @ - 1]
      /\ UNCHANGED <<vector, threshold, request, changed>>
  BY DEF PutNeedsRoom, LetIn, Keep, tableVars, threadVars
<1>2. pc \in [Threads -> Points] /\ my \in [Threads -> Locals] /\ OpAt(t) /\ LockAt(t) /\ NobodyWaits(t)
  BY OfThread DEF Structure, Shape, Answers
<1>3. pc'[t] = "grow" /\ my'[t].vector = my[t].vector /\ my'[t].result = my[t].result
  BY <1>1, <1>2 DEF Goto, Locals
<1>4. ~(threshold > 0)
  BY <1>1 DEF HasRoom
<1>5. Waiting = {}
  BY <1>1, <1>2, <1>4 DEF NobodyWaits, OpAt, LockAt, AtWork
<1>6. Waiting' = {}
  <2>1. Waiting' \subseteq Waiting
    BY <1>1, <1>2 DEF Goto, Waiting
  <2> QED
    BY <1>5, <2>1
<1>7. NobodyWaits(t)'
  BY <1>6 DEF NobodyWaits
<1>8. Step(t) /\ my[t].vector \in {0, vector}
  BY DEF Step, Answers
<1> QED
  BY <1>1, <1>3, <1>7, <1>8, UnderWay

(* The growth up to where it installs its vector.                          *)
LEMMA AnswersGrowth ==
  ASSUME Structure, Order, Answers, Structure', Recorded, NEW t \in Threads,
         Grow(t) \/ CopySlot(t) \/ PlaceEntry(t)
  PROVE  Answers'
<1>1. pc \in [Threads -> Points] /\ pc[t] \in {"grow", "copy", "place"}
  BY DEF Structure, Shape, Grow, CopySlot, PlaceEntry
<1>2. PICK p \in {"rehash", "copy", "place"} :
         Goto(t, p) /\ UNCHANGED <<vector, my, request, changed>>
  BY <1>1 DEF Grow, CopySlot, PlaceEntry, StartRehash, Update, Goto, Keep, tableVars, threadVars
<1>3. pc'[t] = p
  BY <1>1, <1>2 DEF Goto
<1>4. NobodyWaits(t)'
  BY <1>1, <1>2, NobodyStill DEF AtWork
<1>5. Step(t) /\ my[t].vector \in {0, vector}
  BY DEF Step, Answers
<1> QED
  BY <1>1, <1>2, <1>3, <1>4, <1>5, UnderWay

(* The count is given back; the answer is there already.                   *)
LEMMA AnswersEnableGC ==
  ASSUME Structure, Order, Answers, Structure', Recorded, NEW t \in Threads, EnableGC(t)
  PROVE  Answers'
<1>1. /\ pc[t] = "enable" /\ Goto(t, "unlock")
      /\ my' = [my EXCEPT ![t].inhibits = @ - 1] \/ my' = my
      /\ UNCHANGED <<vector, request, changed>>
  BY DEF EnableGC, LetIn, Keep, tableVars, threadVars
<1>2. pc \in [Threads -> Points] /\ my \in [Threads -> Locals]
  BY DEF Structure, Shape
<1>3. pc'[t] = "unlock" /\ my'[t].vector = my[t].vector /\ my'[t].result = my[t].result
  BY <1>1, <1>2 DEF Goto, Locals
<1>4. NobodyWaits(t)'
  BY <1>3, NobodyElsewhere
<1>5. Step(t) /\ my[t].vector \in {0, vector}
  BY DEF Step, Answers
<1> QED
  BY <1>1, <1>3, <1>4, <1>5, UnderWay

(* Nobody rehashes or grows a table that others read.                      *)
LEMMA ReadAtRest ==
  ASSUME Structure, lock.writer = None
  PROVE  work = NoWork
<1>1. \A u \in Threads : pc[u] \notin AtWork
  BY ConstantTypes DEF Structure, LockInv, LockAt
<1> QED
  BY <1>1 DEF Structure, WorkInv, AtWork

(* gethash takes what the cache or a slot has for its key.                 *)
LEMMA AnswersReadLock ==
  ASSUME Structure, Order, Answers, Structure', Recorded, NEW t \in Threads, ReadLock(t)
  PROVE  Answers'
<1> DEFINE hit == Vector.cached.key = request[t].key
<1> DEFINE r == IF hit THEN Vector.cached.value ELSE None
<1>1. /\ pc[t] = "read" /\ lock.writer = None /\ Goto(t, IF hit THEN "enable" ELSE "find")
      /\ my' = [my EXCEPT ![t].vector = vector, ![t].result = r]
      /\ UNCHANGED <<vector, vectors, work, request, changed>>
  BY DEF ReadLock, Keep, tableVars, threadVars
<1>2. pc \in [Threads -> Points] /\ my \in [Threads -> Locals] /\ OpAt(t) /\ ChangedAt(t)
  BY OfThread DEF Structure, Shape, Answers
<1>3. request[t].op = "get" /\ request[t].key \in Keys /\ t \notin changed'
  BY <1>1, <1>2, RequestIs DEF OpAt, ChangedAt
<1>4. pc'[t] = (IF hit THEN "enable" ELSE "find") /\ my'[t].vector = vector /\ my'[t].result = r
  BY <1>1, <1>2 DEF Goto, Locals
<1>5. Contents' = Contents
  BY <1>1, ContentsApart DEF Slots, Vector
<1>6. Contents'[request'[t].key] \in history'[t]
  BY <1>1, <1>3, HistoryOf
<1>7. hit => r = Contents[request[t].key]
  BY <1>1, <1>3, ReadAtRest, CacheFound
<1>8. ResultAt(t)'
  BY <1>1, <1>3, <1>4, <1>5, <1>6, <1>7 DEF ResultAt
<1>9. ChangedAt(t)'
  BY <1>1, <1>3 DEF ChangedAt
<1>10. NobodyWaits(t)'
  BY <1>4, NobodyElsewhere
<1>11. Step(t) /\ \A u \in Threads : my[u].vector \in {0, vector}
  BY DEF Step, Answers
<1> QED
  BY <1>1, <1>4, <1>8, <1>9, <1>10, <1>11, OwnAnswers

(* Where a reader, or one that was promoted, looks for its key.            *)
LEMMA FindAtRest ==
  ASSUME Structure, NEW t \in Threads, pc[t] = "find"
  PROVE  work = NoWork /\ request[t].op = "get" /\ request[t].key \in Keys
<1>1. LockAt(t) /\ OpAt(t) /\ LockInv
  BY OfThread DEF Structure
<1>2. lock.writer = t \/ lock.writer = None
  BY <1>1 DEF LockAt, LockInv
<1>3. work = NoWork
  BY <1>2, ReadAtRest, NobodyElse DEF AtTable
<1> QED
  BY <1>1, <1>3, RequestIs DEF OpAt

(* gethash has found its entry, or knows that there is none, or must have *)
(* the table rehashed first.                                               *)
LEMMA AnswersFind ==
  ASSUME Structure, Order, Answers, Structure', Recorded, NEW t \in Threads, Find(t)
  PROVE  Answers'
<1>0. PICK key : key = request[t].key
  OBVIOUS
<1> DEFINE slot == Probe(Slots, address[key], {Free, key})
<1> DEFINE found == slot # 0 /\ Slots[slot].key = key
<1>1. pc[t] = "find" /\ UNCHANGED <<vector, vectors, work, request, changed>>
  BY DEF Find, Keep, tableVars, threadVars
<1>2. /\ pc \in [Threads -> Points] /\ my \in [Threads -> Locals] /\ ChangedAt(t) /\ ResultAt(t) /\ OpAt(t)
      /\ \A u \in Threads : my[u].vector \in {0, vector}
  BY OfThread DEF Structure, Shape, Answers
<1>3. work = NoWork /\ request[t].op = "get" /\ key \in Keys /\ t \notin changed'
  BY <1>0, <1>1, <1>2, FindAtRest DEF ChangedAt
<1>4. my[t].vector = vector
  BY <1>1, <1>2 DEF OpAt
<1>5. Contents' = Contents
  BY <1>1, ContentsApart DEF Slots, Vector
<1>6. Contents[key] \in history'[t]
  BY <1>0, <1>1, <1>3, <1>5, HistoryOf
<1>7. Step(t)
  BY DEF Step
<1>8. ChangedAt(t)'
  BY <1>1, <1>3 DEF ChangedAt
<1>9. CASE found
  <2>1. Goto(t, "enable") /\ \E value \in ValuesAt(my[t].vector, slot) : my' = [my EXCEPT ![t].result = value]
    BY <1>0, <1>9, Zenon DEF Find
  <2>2. slot \in 1..Len(Slots)
    <3>1. /\ Slots \in Seq(Cells) /\ Len(Slots) \in Nat /\ address[key] \in Int
      BY <1>3, TableParts, WorkParts
    <3>2. slot \in 0..Len(Slots)
      BY <3>1, ProbeIs
    <3> HIDE DEF slot
    <3> QED
      BY <1>9, <3>1, <3>2
  <2> HIDE DEF slot
  <2>3. ValuesAt(my[t].vector, slot) = {Slots[slot].value}
    <3>1. slot \in DOMAIN vectors[vector].slots
      BY <2>2, TableParts DEF Slots, Vector
    <3> QED
      BY <1>4, <3>1 DEF ValuesAt, Slots, Vector
  <2>4. Contents[key] = Slots[slot].value
    BY <1>3, <1>9, <2>2, EntryFound
  <2>5. my' = [my EXCEPT ![t].result = Contents[key]]
    BY <2>1, <2>3, <2>4
  <2>6. my'[t].vector = vector /\ my'[t].result = Contents[key] /\ pc'[t] = "enable"
    BY <1>2, <1>4, <2>1, <2>5 DEF Goto, Locals
  <2>7. ResultAt(t)'
    BY <1>1, <1>3, <1>6, <2>6 DEF ResultAt
  <2>8. NobodyWaits(t)'
    BY <2>6, NobodyElsewhere
  <2> QED
    BY <1>1, <1>2, <1>7, <1>8, <2>6, <2>7, <2>8, OwnAnswers
<1>10. CASE ~found
  <2>1. Goto(t, IF NeedsRehashing(my[t].vector) THEN "inhibit" ELSE "enable") /\ my' = my
    BY <1>0, <1>10, Zenon DEF Find
  <2>2. pc'[t] = IF Vector.moved THEN "inhibit" ELSE "enable"
    BY <1>2, <1>4, <2>1 DEF Goto, NeedsRehashing, Vector
  <2>3. my'[t].result = None
    BY <1>1, <1>2, <2>1 DEF ResultAt
  <2>4. ~Vector.moved => Contents[key] = None
    BY <1>3, <1>10, NothingFound
  <2>5. ResultAt(t)'
    BY <1>1, <1>3, <1>6, <2>2, <2>3, <2>4 DEF ResultAt
  <2>6. NobodyWaits(t)'
    BY <1>1, <1>3, <2>2, NobodyElsewhere
  <2> QED
    BY <1>1, <1>2, <1>7, <1>8, <2>1, <2>5, <2>6, OwnAnswers
<1> QED
  BY <1>9, <1>10

(* The steps that change the table, and the removal that does not.         *)
LEMMA AnswersChange ==
  ASSUME Structure, Order, Answers, Structure', Recorded, NEW t \in Threads, Put(t) \/ Remove(t) \/ Clear(t)
  PROVE  Answers'
<1>1. /\ pc[t] \in {"put", "rem", "clear"} /\ Goto(t, "enable") /\ UNCHANGED <<vector, my, request>>
      /\ Step(t)
  BY DEF Put, Remove, Clear, Update, Keep, Step
<1>2. /\ pc \in [Threads -> Points] /\ ChangedAt(t) /\ ResultAt(t) /\ OpAt(t)
      /\ \A u \in Threads : my[u].vector \in {0, vector}
  BY OfThread DEF Structure, Shape, Answers
<1>3. pc'[t] = "enable" /\ request[t].op \in {"put", "rem", "clr"}
  BY <1>1, <1>2 DEF Goto, OpAt
<1>4. \/ t \in changed'
      \/ request[t].op = "rem" /\ Contents'[request[t].key] = None
  <2>1. CASE Put(t) \/ Clear(t)
    BY <2>1 DEF Put, Clear
  <2>2. CASE Remove(t)
    <3>1. request[t].op = "rem"
      BY <1>2, <2>2 DEF OpAt, Remove
    <3> QED
      BY <2>2, <3>1, MapRemove
  <2> QED
    BY <2>1, <2>2
<1>5. ChangedAt(t)'
  BY <1>1, <1>3, <1>4 DEF ChangedAt
<1>6. ResultAt(t)'
  <2>1. my'[t].result = None
    BY <1>1, <1>2, <1>3 DEF ResultAt
  <2>2. t \notin changed' => None \in history'[t]
    BY <1>1, <1>4, HistoryOf
  <2> QED
    BY <1>1, <1>3, <2>1, <2>2 DEF ResultAt
<1>7. NobodyWaits(t)'
  BY <1>3, NobodyElsewhere
<1> QED
  BY <1>1, <1>2, <1>5, <1>6, <1>7, OwnAnswers

(* Nobody waits with the vector that is replaced.                          *)
LEMMA AnswersInstall ==
  ASSUME Structure, Order, Answers, Structure', Recorded, NEW t \in Threads, Install(t)
  PROVE  Answers'
<1>1. /\ pc[t] = "copy" /\ Goto(t, "inhibit") /\ UNCHANGED <<my, request, changed, lock>> /\ Step(t)
  BY DEF Install, Keep, Step, threadVars
<1>2. /\ pc \in [Threads -> Points] /\ ChangedAt(t) /\ ResultAt(t) /\ OpAt(t) /\ NobodyWaits(t) /\ LockAt(t)
  BY OfThread DEF Structure, Shape, Answers
<1>3. pc'[t] = "inhibit" /\ request[t].op = "put" /\ lock.writer = t /\ Waiting = {}
  BY <1>1, <1>2 DEF Goto, OpAt, LockAt, AtWork, NobodyWaits
<1>4. \A u \in Threads : my[u].vector = 0
  <2>1. my[t].vector = 0
    BY <1>2, <1>3 DEF OpAt
  <2>2. ASSUME NEW u \in Threads \ {t} PROVE my[u].vector = 0
    <3>1. OpAt(u) /\ LockAt(u) /\ pc[u] \in Points /\ lock.readers = {}
      BY <1>3, OfThread DEF Structure, LockInv
    <3>2. pc[u] \notin AtWork /\ pc[u] \notin {"find", "promote", "enable", "unlock"}
      BY <1>3, <3>1 DEF LockAt
    <3>3. pc[u] # "wait"
      BY <1>3 DEF Waiting
    <3>4. ~(pc[u] = "inhibit" /\ request[u].op = "get")
      BY <3>1 DEF LockAt
    <3>5. pc[u] \in {"idle", "read", "write", "inhibit"}
      BY <3>1, <3>2, <3>3 DEF Points, AtWork
    <3>6. ~(request[u].op = "get" /\ pc[u] # "read")
      BY <3>1, <3>4, <3>5 DEF OpAt, Idle
    <3> QED
      BY <3>1, <3>6 DEF OpAt
  <2> QED
    BY <2>1, <2>2
<1>5. ChangedAt(t)'
  BY <1>1, <1>2, <1>3 DEF ChangedAt
<1>6. ResultAt(t)'
  BY <1>1, <1>2, <1>3 DEF ResultAt
<1>7. NobodyWaits(t)'
  BY <1>1, <1>3, NobodyStill DEF AtWork
<1> QED
  BY <1>1, <1>4, <1>5, <1>6, <1>7, OwnAnswers

(* An operation is over.                                                   *)
LEMMA AnswersUnlock ==
  ASSUME Structure, Order, Answers, Structure', Recorded, NEW t \in Threads, Unlock(t)
  PROVE  Answers'
<1>1. /\ Goto(t, "idle") /\ my' = [my EXCEPT ![t] = NoLocals] /\ request' = [request EXCEPT ![t] = Idle]
      /\ changed' = changed \ {t} /\ vector' = vector /\ Step(t)
  BY DEF Unlock, Step
<1>2. /\ DOMAIN pc = Threads /\ DOMAIN my = Threads /\ DOMAIN request = Threads
      /\ \A u \in Threads : my[u].vector \in {0, vector}
  BY DEF Structure, Shape, Answers
<1>3. pc'[t] = "idle" /\ my'[t] = NoLocals /\ request'[t] = Idle /\ t \notin changed'
  BY <1>1, <1>2 DEF Goto
<1>4. ChangedAt(t)' /\ ResultAt(t)' /\ my'[t].vector = 0
  BY <1>3 DEF ChangedAt, ResultAt, Idle, NoLocals
<1>5. NobodyWaits(t)'
  BY <1>3, NobodyElsewhere
<1> QED
  BY <1>1, <1>2, <1>4, <1>5, OwnAnswers

(* An operation is called.                                                 *)
LEMMA AnswersCall ==
  ASSUME Structure, Order, Answers, Structure', Recorded, NEW t \in Threads, Call(t)
  PROVE  Answers'
<1>1. PICK call \in Calls(t) :
         /\ pc[t] = "idle" /\ request' = [request EXCEPT ![t] = call]
         /\ Goto(t, IF call.op = "get" THEN "read" ELSE "write")
  BY DEF Call
<1>2. UNCHANGED <<vector, threshold, lock, my, changed>>
  BY DEF Call, Keep, tableVars
<1>3. /\ pc \in [Threads -> Points] /\ DOMAIN request = Threads /\ ChangedAt(t) /\ ResultAt(t)
      /\ changed \subseteq Threads /\ \A u \in Threads : my[u].vector \in {0, vector}
  BY DEF Structure, Shape, Answers
<1>4. pc'[t] \in {"read", "write"} /\ \A u \in Threads \ {t} : pc'[u] = pc[u] /\ request'[u] = request[u]
  BY <1>1, <1>3 DEF Goto
<1>5. ChangedAt(t)' /\ ResultAt(t)'
  BY <1>1, <1>2, <1>3, <1>4 DEF ChangedAt, ResultAt
<1>6. NobodyWaits(t)'
  BY <1>4, NobodyElsewhere
<1>7. Waiting' = Waiting
  BY <1>1, <1>4 DEF Waiting
<1> QED
  BY <1>2, <1>3, <1>4, <1>5, <1>6, <1>7, AnswersStep

(* The collector, and steps in which nothing happens, touch no operation.  *)
LEMMA AnswersCollect ==
  ASSUME Structure', Answers, Recorded, Collect
  PROVE  Answers'
<1>1. UNCHANGED <<vector, threshold, lock, pc, my, request, changed>>
  BY DEF Collect, Keep, threadVars
<1>2. history \in [Threads -> SUBSET (Values \cup {None})] /\ changed \subseteq Threads
  BY DEF Answers
<1>3. \A u \in Threads : request'[u].op \in {"get", "rem"} => request'[u].key \in Keys
  <2>1. \A u \in Threads : request'[u] \in {Idle} \cup Calls(u)
    BY DEF Structure, Shape
  <2>2. Idle.op = "idle"
    BY DEF Idle
  <2> QED
    BY <2>1, <2>2, CallParts
<1>4. /\ history' \in [Threads -> SUBSET (Values \cup {None})]
      /\ \A u \in Threads : request'[u].op \in {"get", "rem"} /\ u \notin changed' =>
             history[u] \subseteq history'[u]
  BY <1>2, <1>3, HistoryIs
<1>5. ASSUME NEW u \in Threads PROVE ChangedAt(u)' /\ ResultAt(u)' /\ NobodyWaits(u)' /\ my'[u].vector \in {0, vector'}
  <2>1. ChangedAt(u) /\ ResultAt(u) /\ NobodyWaits(u) /\ my[u].vector \in {0, vector}
    BY DEF Answers
  <2>2. ChangedAt(u)'
    BY <1>1, <2>1 DEF ChangedAt
  <2>3. ResultAt(u)'
    BY <1>1, <1>4, <2>1, <2>2 DEF ResultAt, ChangedAt
  <2>4. NobodyWaits(u)'
    BY <1>1, <2>1 DEF NobodyWaits, Waiting
  <2> QED
    BY <1>1, <2>1, <2>2, <2>3, <2>4
<1> QED
  BY <1>1, <1>2, <1>4, <1>5 DEF Answers

(* A step in which nothing happens.                                        *)
LEMMA SameAnswers ==
  ASSUME Answers, UNCHANGED vars
  PROVE  Answers'
<1>1. UNCHANGED <<vector, threshold, lock, pc, my, request, changed, history>>
  BY DEF vars, tableVars, threadVars
<1> QED
  BY <1>1 DEF Answers, ChangedAt, ResultAt, NobodyWaits, Waiting

(* At first nobody has called.                                             *)
LEMMA InitAnswers ==
  ASSUME Init
  PROVE  Answers
<1>1. /\ pc = [t \in Threads |-> "idle"] /\ my = [t \in Threads |-> NoLocals]
      /\ request = [t \in Threads |-> Idle] /\ changed = {} /\ history = [t \in Threads |-> {}]
  BY DEF Init
<1> QED
  BY <1>1 DEF Answers, ChangedAt, ResultAt, NobodyWaits, NoLocals, Idle

(* Every step keeps the answers right.                                     *)
LEMMA NextAnswers ==
  ASSUME Structure, Order, Answers, Structure', Order', PromotedFirst, Next
  PROVE  Answers'
<1>1. ASSUME NEW t \in Threads, Call(t), Recorded PROVE Answers'
  BY <1>1, AnswersCall
<1>2. ASSUME NEW t \in Threads, Step(t), Recorded PROVE Answers'
  BY <1>2, AnswersReadLock, AnswersWriteLock, AnswersInhibitGC, AnswersFind, AnswersPromotion,
     AnswersTest, AnswersRehash, AnswersEndRehash, AnswersChange, AnswersPutNeedsRoom,
     AnswersGrowth, AnswersInstall, AnswersEnableGC, AnswersUnlock DEF Step
<1>3. ASSUME Collect, Recorded PROVE Answers'
  BY <1>3, AnswersCollect
<1> QED
  BY <1>1, <1>2, <1>3 DEF Next

-----------------------------------------------------------------------------
(* The contents, step by step.                                             *)
LEMMA ContentsOfCollect ==
  ASSUME Structure, Collect
  PROVE  Contents' = Contents
<1>1. PICK new \in [Keys -> 1..MaxAddress] : vectors' = [v \in Vectors |-> [vectors[v] EXCEPT !.moved =
                  @ \/ \E i \in Entries(vectors[v].slots) :
                           LET key == vectors[v].slots[i].key IN new[key] # address[key]]]
  BY Zenon DEF Collect
<1>2. UNCHANGED <<vector, work>>
  BY DEF Collect, Keep
<1>3. vector \in Vectors /\ vectors \in [Vectors -> Tables]
  BY DEF Structure, Shape
<1>4. vectors'[vector].slots = vectors[vector].slots
  BY <1>1, <1>3 DEF Tables
<1> QED
  BY <1>2, <1>4, ContentsApart DEF Slots, Vector

(* Steps that move no entry.                                               *)
LEMMA ContentsOfStart ==
  ASSUME Structure, NEW t \in Threads, NEW back, StartRehash(t, back), work = NoWork
  PROVE  Contents' = Contents
<1> DEFINE tb == [Vector EXCEPT !.moved = FALSE, !.cached = NoCache]
<1>1. Update(t, tb, "rehash") /\ work' = [NoWork EXCEPT !.index = 1, !.back = back]
  BY DEF StartRehash
<1>2. tb.slots = Slots
  BY TableParts DEF Tables, Slots
<1> HIDE DEF tb
<1>3. Slots' = Slots
  BY <1>1, <1>2, Updated
<1>4. work'.hand = work.hand
  BY <1>1 DEF NoWork
<1> QED
  BY <1>3, <1>4, ContentsApart

(* The test may begin a rehash.                                            *)
LEMMA ContentsOfTest ==
  ASSUME Structure, NEW t \in Threads, Test(t)
  PROVE  Contents' = Contents
<1>1. work = NoWork
  <2>1. lock.writer = t /\ pc[t] = "test"
    BY OfThread DEF Test, LockAt, AtWork
  <2> QED
    BY <2>1, NobodyElse DEF AtTable
<1>2. StartRehash(t, AfterTest(t)) \/ UNCHANGED <<vector, vectors, work>>
  BY DEF Test, Keep, tableVars
<1>3. CASE StartRehash(t, AfterTest(t))
  BY <1>1, <1>3, ContentsOfStart
<1>4. CASE UNCHANGED <<vector, vectors, work>>
  BY <1>4, ContentsApart DEF Slots, Vector
<1> QED
  BY <1>2, <1>3, <1>4

(* The hand of the rehasher is empty at the end.                           *)
LEMMA ContentsOfEndRehash ==
  ASSUME Structure, NEW t \in Threads, EndRehash(t)
  PROVE  Contents' = Contents
<1>1. pc[t] = "rehash" /\ work' = NoWork /\ UNCHANGED <<vector, vectors>>
  BY DEF EndRehash, Keep, tableVars
<1>2. work.hand = Empty
  BY <1>1, OfThread DEF RehashAt
<1>3. work'.hand = Empty
  BY <1>1 DEF NoWork
<1> QED
  BY <1>1, <1>2, <1>3, ContentsApart DEF Slots, Vector

(* The new vector is another one.                                          *)
LEMMA ContentsOfGrow ==
  ASSUME Structure, NEW t \in Threads, Grow(t)
  PROVE  Contents' = Contents
<1> PICK new : new = Min({v \in Vectors : vectors[v] = Unused})
  OBVIOUS
<1> DEFINE tb == NewVector(NewSize(Vector.count))
<1>1. work = NoWork
  <2>1. lock.writer = t /\ pc[t] = "grow"
    BY OfThread DEF Grow, LockAt, AtWork
  <2> QED
    BY <2>1, NobodyElse DEF AtTable
<1>2. CASE GrowInPlace
  BY <1>1, <1>2, ContentsOfStart DEF Grow
<1>3. CASE ~GrowInPlace
  <2>1. /\ vectors' = [vectors EXCEPT ![new] = tb] /\ work' = [NoWork EXCEPT !.to = new, !.index = 1]
        /\ vector' = vector
    BY <1>3 DEF Grow, Keep
  <2>2. new # vector
    BY <1>1, ChosenUnused
  <2> HIDE DEF tb
  <2>3. Slots' = Slots
    BY <2>1, <2>2 DEF Slots, Vector
  <2>4. work'.hand = work.hand
    BY <1>1, <2>1 DEF NoWork
  <2> QED
    BY <2>3, <2>4, ContentsApart
<1> QED
  BY <1>2, <1>3

(* A reader gives up a vector that was replaced.                           *)
LEMMA ContentsOfUnlock ==
  ASSUME Structure, NEW t \in Threads, Unlock(t)
  PROVE  Contents' = Contents
<1>1. PICK v : v = my[t].vector
  OBVIOUS
<1>2. /\ vectors' = vectors \/ (v # vector /\ vectors' = [vectors EXCEPT ![v] = Unused])
      /\ UNCHANGED <<vector, work>>
  BY <1>1 DEF Unlock
<1>3. vector \in Vectors /\ DOMAIN vectors = Vectors
  BY DEF Structure, Shape
<1>4. Slots' = Slots
  BY <1>2, <1>3 DEF Slots, Vector
<1> QED
  BY <1>2, <1>4, ContentsApart

-----------------------------------------------------------------------------
(* The steps of the table as steps of the map: a call, a change, a return, *)
(* and what is between them.                                               *)
LEMMA MapProceeds ==
  ASSUME Contents' = Contents, UNCHANGED <<request, changed>>, answer' = NoAnswer, Recorded
  PROVE  Map!Next
<1>1. Map!Proceed
  BY DEF Map!Proceed, Map!NoAnswer, NoAnswer
<1>2. Map!Recorded
  BY DEF Map!Recorded, Recorded
<1> QED
  BY <1>1, <1>2 DEF Map!Next

(* A change of the map.                                                    *)
LEMMA MapChanges ==
  ASSUME Recorded, NEW t \in Threads, request[t] # Idle, t \notin changed,
         \/ request[t].op = "put"
         \/ request[t].op = "rem" /\ Contents[request[t].key] # None
         \/ request[t].op = "clr",
         Contents' = IF request[t].op = "clr" THEN [k \in Keys |-> None]
                     ELSE [Contents EXCEPT ![request[t].key] = request[t].value],
         changed' = changed \cup {t}, answer' = NoAnswer, request' = request
  PROVE  Map!Next
<1>1. Map!Change(t)
  BY DEF Map!Change, Map!Busy, Map!Idle, Idle, Map!NoAnswer, NoAnswer
<1>2. Map!Recorded
  BY DEF Map!Recorded, Recorded
<1> QED
  BY <1>1, <1>2 DEF Map!Next

(* A call.                                                                 *)
LEMMA MapCalls ==
  ASSUME Structure, Recorded, NEW t \in Threads, Call(t)
  PROVE  Map!Next
<1>1. PICK call \in Calls(t) : request' = [request EXCEPT ![t] = call]
  BY DEF Call
<1>2. pc[t] = "idle" /\ answer' = NoAnswer /\ UNCHANGED <<vector, vectors, work, changed>>
  BY DEF Call, Keep, tableVars
<1>3. Contents' = Contents
  BY <1>2, ContentsApart DEF Slots, Vector
<1>4. request[t] = Idle
  BY <1>2, OfThread DEF OpAt
<1>5. call \in Map!Calls
  BY DEF Calls, Map!Calls
<1>6. Map!Call(t, call)
  BY <1>1, <1>2, <1>3, <1>4 DEF Map!Call, Map!Busy, Map!Idle, Idle, Map!NoAnswer, NoAnswer
<1>7. Map!Recorded
  BY DEF Map!Recorded, Recorded
<1> QED
  BY <1>5, <1>6, <1>7 DEF Map!Next

(* A return: the answer is one that the map allows.                        *)
LEMMA MapReturns ==
  ASSUME Structure, Answers, Recorded, NEW t \in Threads, Unlock(t)
  PROVE  Map!Next
<1>1. PICK value : value = IF t \in changed THEN "done" ELSE my[t].result
  OBVIOUS
<1>2. /\ pc[t] = "unlock" /\ answer' = [thread |-> t, value |-> value]
      /\ request' = [request EXCEPT ![t] = Idle] /\ changed' = changed \ {t}
  BY <1>1 DEF Unlock
<1>3. Contents' = Contents
  BY ContentsOfUnlock
<1>4. request[t] # Idle
  BY <1>2, OfThread DEF OpAt
<1>5. ChangedAt(t) /\ ResultAt(t) /\ history \in [Threads -> SUBSET (Values \cup {None})]
  BY DEF Answers
<1>6. request[t].op \in {"get", "rem", "put", "clr"}
  BY <1>4, RequestIs
<1>7. \/ t \in changed /\ value = "done"
      \/ t \notin changed /\ request[t].op = "get" /\ value \in history[t]
      \/ t \notin changed /\ request[t].op = "rem" /\ value = None /\ None \in history[t]
  BY <1>1, <1>2, <1>5, <1>6 DEF ChangedAt, ResultAt
<1>8. value \in Values \cup {None, "done"}
  BY <1>5, <1>7
<1>9. Map!Return(t, value)
  <2>1. (CASE t \in changed -> value = "done"
        [] t \notin changed /\ request[t].op = "get" -> value \in history[t]
        [] t \notin changed /\ request[t].op = "rem" -> value = None /\ None \in history[t]
        [] OTHER -> FALSE)
    BY <1>7
  <2> QED
    BY <1>2, <1>3, <1>4, <2>1 DEF Map!Return, Map!Busy, Map!Idle, Idle
<1>10. Map!Recorded
  BY DEF Map!Recorded, Recorded
<1> QED
  BY <1>8, <1>9, <1>10 DEF Map!Next

(* Every step of an operation is one of the map.                           *)
LEMMA MapSteps ==
  ASSUME Structure, Order, Answers, Recorded, NEW t \in Threads, Step(t)
  PROVE  Map!Next
<1>1. CASE ReadLock(t) \/ WriteLock(t) \/ InhibitGC(t) \/ Find(t) \/ PromoteAlone(t)
           \/ ReleaseToPromote(t) \/ Promoted(t) \/ PutNeedsRoom(t) \/ EnableGC(t)
  <2>1. UNCHANGED <<vector, vectors, work, request, changed>> /\ answer' = NoAnswer
    BY <1>1 DEF ReadLock, WriteLock, InhibitGC, Inhibit, Find, PromoteAlone, ReleaseToPromote, Promoted,
       PutNeedsRoom, EnableGC, Keep, tableVars, threadVars
  <2>2. Contents' = Contents
    BY <2>1, ContentsApart DEF Slots, Vector
  <2> QED
    BY <2>1, <2>2, MapProceeds
<1>2. CASE Test(t) \/ RehashSlot(t) \/ Displace(t) \/ EndRehash(t) \/ Grow(t) \/ CopySlot(t)
           \/ PlaceEntry(t) \/ Install(t)
  <2>1. UNCHANGED <<request, changed>> /\ answer' = NoAnswer
    BY <1>2 DEF Test, StartRehash, RehashSlot, Displace, EndRehash, Grow, CopySlot, PlaceEntry, Install,
       Update, Keep, threadVars
  <2>2. Contents' = Contents
    BY <1>2, ContentsOfTest, MapRehashSlot, MapDisplace, ContentsOfEndRehash, ContentsOfGrow,
       MapCopySlot, MapPlaceEntry, MapInstall
  <2> QED
    BY <2>1, <2>2, MapProceeds
<1>3. CASE Put(t) \/ Remove(t) \/ Clear(t)
  <2>1. pc[t] \in {"put", "rem", "clear"} /\ request' = request /\ answer' = NoAnswer
    BY <1>3 DEF Put, Remove, Clear, Update, Keep
  <2>2. request[t] # Idle /\ t \notin changed
    <3>1. OpAt(t) /\ ChangedAt(t)
      BY OfThread DEF Answers
    <3> QED
      BY <2>1, <3>1 DEF OpAt, ChangedAt
  <2>3. CASE Put(t)
    <3>1. request[t].op = "put" /\ changed' = changed \cup {t}
      BY <2>3, OfThread DEF Put, OpAt
    <3>2. Contents' = [Contents EXCEPT ![request[t].key] = request[t].value]
      BY <2>3, MapPut
    <3> QED
      BY <2>1, <2>2, <3>1, <3>2, MapChanges
  <2>4. CASE Remove(t)
    <3>1. request[t].op = "rem"
      BY <2>4, OfThread DEF Remove, OpAt
    <3>2. request[t].value = None
      BY <3>1, RequestIs
    <3>3. CASE /\ Contents' = [Contents EXCEPT ![request[t].key] = None] /\ changed' = changed \cup {t}
               /\ Contents[request[t].key] # None
      BY <2>1, <2>2, <3>1, <3>2, <3>3, MapChanges
    <3>4. CASE Contents' = Contents /\ changed' = changed
      BY <2>1, <3>4, MapProceeds
    <3> QED
      BY <2>4, <3>3, <3>4, MapRemove
  <2>5. CASE Clear(t)
    <3>1. request[t].op = "clr" /\ changed' = changed \cup {t}
      BY <2>5, OfThread DEF Clear, OpAt
    <3>2. Contents' = [k \in Keys |-> None]
      BY <2>5, MapClear
    <3> QED
      BY <2>1, <2>2, <3>1, <3>2, MapChanges
  <2> QED
    BY <1>3, <2>3, <2>4, <2>5
<1>4. CASE Unlock(t)
  BY <1>4, MapReturns
<1> QED
  BY <1>1, <1>2, <1>3, <1>4 DEF Step

(* Every step is one of the map.                                           *)
LEMMA MapNext ==
  ASSUME Structure, Order, Answers, Next
  PROVE  Map!Next
<1>1. ASSUME NEW t \in Threads, Call(t), Recorded PROVE Map!Next
  BY <1>1, MapCalls
<1>2. ASSUME NEW t \in Threads, Step(t), Recorded PROVE Map!Next
  BY <1>2, MapSteps
<1>3. ASSUME Collect, Recorded PROVE Map!Next
  <2>1. UNCHANGED <<request, changed>> /\ answer' = NoAnswer
    BY <1>3 DEF Collect, Keep, threadVars
  <2>2. Contents' = Contents
    BY <1>3, ContentsOfCollect
  <2> QED
    BY <1>3, <2>1, <2>2, MapProceeds
<1> QED
  BY <1>1, <1>2, <1>3 DEF Next

(* A step in which nothing happens, of the map neither.                    *)
LEMMA MapStutters ==
  ASSUME UNCHANGED vars
  PROVE  UNCHANGED Map!vars
<1>1. UNCHANGED <<vector, vectors, work, request, changed, history, answer>>
  BY DEF vars, tableVars, threadVars
<1>2. Contents' = Contents
  BY <1>1, ContentsApart DEF Slots, Vector
<1> QED
  BY <1>1, <1>2 DEF Map!vars

(* The first contents are a map.                                           *)
LEMMA MapInit ==
  ASSUME Init
  PROVE  Map!Init
<1>1. Contents \in [Keys -> Values \cup {None}]
  BY ContentsType
<1>2. /\ request = [t \in Threads |-> Idle] /\ changed = {} /\ history = [t \in Threads |-> {}]
      /\ answer = NoAnswer
  BY DEF Init
<1> QED
  BY <1>1, <1>2 DEF Map!Init, Map!Idle, Map!NoAnswer, Idle, NoAnswer

(* The table is the shared map: every operation takes effect at one        *)
(* instant between its call and its return, whoever else reads, stores,    *)
(* removes, clears, grows the table or collects.  It is so if a reader     *)
(* that waits for its promotion gets the lock before a putter that grows   *)
(* the table, and if the collector does not come between the hashing and   *)
(* the store of a key.                                                     *)
THEOREM TableIsMap == ~CollectInWindow /\ PromotedFirst => (Spec => ImplementsMap)
<1> SUFFICES ASSUME ~CollectInWindow, PromotedFirst PROVE Spec => ImplementsMap
  OBVIOUS
<1>1. Init => Structure /\ Order /\ Answers /\ Map!Init
  BY InitStructure, InitOrder, InitAnswers, MapInit
<1>2. Structure /\ Order /\ Answers /\ [Next]_vars => (Structure /\ Order /\ Answers)' /\ [Map!Next]_Map!vars
  <2>1. ASSUME Structure, Order, Answers, Next
        PROVE  (Structure /\ Order /\ Answers)' /\ [Map!Next]_Map!vars
    <3>1. Structure' /\ Order'
      BY <2>1, NextStructure, NextOrder
    <3> QED
      BY <2>1, <3>1, NextAnswers, MapNext
  <2>2. ASSUME Structure, Order, Answers, UNCHANGED vars
        PROVE  (Structure /\ Order /\ Answers)' /\ [Map!Next]_Map!vars
    <3>1. Structure' /\ Order'
      BY <2>2, SameStructure, OrderApart DEF vars, tableVars
    <3> QED
      BY <2>2, <3>1, SameAnswers, MapStutters
  <2> QED
    BY <2>1, <2>2
<1> QED
  BY <1>1, <1>2, PTL DEF Spec, ImplementsMap, Map!Spec

=============================================================================
