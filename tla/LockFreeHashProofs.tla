------------------------ MODULE LockFreeHashProofs ------------------------
(***************************************************************************)
(* Proofs about LockFreeHash, for every number of threads, keys, values    *)
(* and addresses: the structure of the table (what each thread has in      *)
(* hand, whose a slot is, where a rehash is), that the threshold never     *)
(* promises a slot that is not there, that the count is the number of      *)
(* entries, that a key has one entry, and that the table is the shared map *)
(* while nobody makes one of the two errors that TLC shows.                *)
(*                                                                         *)
(* Structure is inductive by itself; Room, Counted and Order are inductive *)
(* with it, Stopped with Structure and Order, and Seen with those three.   *)
(***************************************************************************)
EXTENDS LockFreeHash, FiniteSetTheorems, SequenceTheorems, WellFoundedInduction, TLAPS

-----------------------------------------------------------------------------
(* The types of the vectors, of the rehasher's locals and of the threads.  *)
Cells == [key : Keys \cup {Free, Deleted}, value : Values \cup {Free, Deleted, Rehashing}]
Tables == [slots : Seq(Cells), moved : BOOLEAN, count : Int]
Carries == [key : Keys \cup {None}, value : Values \cup {None}, slot : Nat]
Copies == [to : {0} \cup Vectors, index : Nat, count : Nat, full : Nat, room : Nat,
           grow : BOOLEAN, carry : Carries]
Locals == [vector : {0} \cup Vectors, address : Int, slot : Nat, old : Values \cup {None}]
Requests == {Idle} \cup UNION {Calls(t) : t \in Threads}
Points == {"idle", "retry", "probe", "check", "value", "swap", "done", "decrement", "clear",
           "reserve", "claim", "store", "fill", "increment", "rehash", "error",
           "decide", "count", "copy", "place", "install"}

Shape ==
    /\ vector \in Vectors /\ vectors \in [Vectors -> Tables] /\ threshold \in Int
    /\ owner \in Threads \cup {None} /\ copy \in Copies
    /\ address \in [Keys -> Int] /\ pc \in [Threads -> Points]
    /\ my \in [Threads -> Locals] /\ request \in [Threads -> Requests]
    /\ \A t \in Threads : request[t] \in {Idle} \cup Calls(t)

Size(v) == Len(vectors[v].slots)
KeyAt(v, i) == vectors[v].slots[i].key
ValueAt(v, i) == vectors[v].slots[i].value

(* Where a thread has a slot in hand, where it rehashes, and where the     *)
(* slot is its own: nobody else touches it.                                *)
AtSlot == {"value", "swap", "decrement", "clear", "reserve", "claim", "store", "fill", "increment"}
Owning == {"decide", "count", "copy", "place", "install"}
Mine == {"store", "fill", "decrement", "clear"}

(* What each thread is called for where it is, and what it has in hand.    *)
OpAt(t) ==
    LET op == request[t].op IN
    /\ pc[t] = "idle" <=> request[t] = Idle
    /\ pc[t] \in {"reserve", "claim", "store", "fill", "increment", "done"} => op = "put"
    /\ pc[t] \in {"decrement", "clear"} => op = "rem"
    /\ pc[t] = "swap" => op \in {"put", "rem"} /\ my[t].old \in Values

HandAt(t) ==
    /\ pc[t] # "error" => (my[t].vector # 0 <=> pc[t] \in AtSlot \cup {"probe", "check"})
    /\ pc[t] # "error" => (owner = t <=> pc[t] \in Owning)
    /\ pc[t] = "error" => (owner = t <=> my[t].vector = 0)
    /\ pc[t] \in AtSlot => my[t].slot \in 1..Size(my[t].vector)
    /\ pc[t] = "check" => my[t].slot \in 0..Size(my[t].vector)

(* What the slot in hand holds.                                            *)
CellAt(t) ==
    LET key == KeyAt(my[t].vector, my[t].slot)
        value == ValueAt(my[t].vector, my[t].slot)
    IN
    /\ pc[t] \in {"store", "fill"} => key = Key(t) /\ value \in {Free, Rehashing}
    /\ pc[t] \in {"decrement", "clear"} => key = Key(t) /\ value \in {Deleted, Rehashing}
    /\ pc[t] \in {"check", "value", "swap"} /\ request[t].op # "put" /\ my[t].slot # 0 =>
           key \in {Key(t), Deleted}
    /\ pc[t] \in {"value", "swap"} => key # Free

ThreadInv == \A t \in Threads : OpAt(t) /\ HandAt(t) /\ CellAt(t)

(* A slot is one thread's at most, and one without a key has no value.     *)
SlotInv ==
    /\ \A t, u \in Threads :
           /\ pc[t] \in Mine /\ pc[u] \in Mine
           /\ my[t].vector = my[u].vector /\ my[t].slot = my[u].slot
           => t = u
    /\ \A v \in Vectors : \A i \in 1..Size(v) :
           /\ KeyAt(v, i) = Free => ValueAt(v, i) \in {Free, Rehashing}
           /\ KeyAt(v, i) = Deleted => ValueAt(v, i) \notin Values

(* A vector that was replaced has been copied, and is there as long as     *)
(* somebody has it.                                                        *)
Holds(u, v) == my[u].vector = v
HeldInv ==
    /\ Size(vector) > 0
    /\ \A v \in Vectors \ {vector, copy.to} :
           \/ Size(v) > 0 /\ \A i \in 1..Size(v) : ValueAt(v, i) = Rehashing
           \/ vectors[v] = Unused /\ \A u \in Threads : ~Holds(u, v)
    /\ \A v \in Vectors \ {vector, copy.to} :
           (\A u \in Threads : ~Holds(u, v)) => vectors[v] = Unused

(* Where the rehash is.                                                    *)
Copying == {"copy", "place", "install"}
Used(v) == {i \in 1..Size(v) : KeyAt(v, i) # Free}

CopyAt(t) ==
    /\ pc[t] = "count" =>
           copy.to = 0 /\ copy.carry = NoCarry /\ copy.index \in 1..Size(vector) + 1
    /\ pc[t] \in Copying \/ (pc[t] = "error" /\ owner = t) =>
           copy.to \in Vectors \ {vector} /\ \A u \in Threads : ~Holds(u, copy.to)
    /\ pc[t] \in Copying =>
           /\ copy.index \in 1..Size(vector) + 1
           /\ Size(copy.to) = copy.full + Slack
           /\ copy.full = Cardinality(Used(copy.to)) + copy.room /\ copy.room > 0
           /\ \A i \in 1..copy.index - 1 : ValueAt(vector, i) = Rehashing
           /\ \A i \in Used(copy.to) : KeyAt(copy.to, i) \in Keys /\ ValueAt(copy.to, i) \in Values
    /\ pc[t] \in {"copy", "install"} => copy.carry = NoCarry
    /\ pc[t] = "place" =>
           /\ copy.index \in 1..Size(vector) /\ ValueAt(vector, copy.index) = Rehashing
           /\ copy.carry.key \in Keys /\ copy.carry.value \in Values
           /\ copy.carry.slot \in 1..Size(copy.to) /\ KeyAt(copy.to, copy.carry.slot) = Free
    /\ pc[t] = "install" => copy.index = Size(vector) + 1

Rehasher(t) == owner = t /\ pc[t] # "decide"
CopyInv ==
    /\ (\A t \in Threads : ~Rehasher(t)) => copy = NoCopy
    /\ \A t \in Threads : CopyAt(t)

(* The inductive invariant.                                                *)
Structure == Shape /\ ThreadInv /\ SlotInv /\ HeldInv /\ CopyInv

-----------------------------------------------------------------------------
Less == OpToRel(<, Nat)

(* A nonempty set of numbers has a least one.                              *)
LEMMA LeastIs ==
  ASSUME NEW S, S \subseteq Nat, S # {}
  PROVE  Min(S) \in S /\ \A x \in S : Min(S) <= x
<1>1. IsWellFoundedOn(Less, Nat)
  BY NatLessThanWellFounded DEF Less
<1>2. \A x, y \in Nat : <<y, x>> \in Less <=> y < x
  BY DEF Less, OpToRel
<1>3. PICK m \in S : \A y \in S : ~(<<y, m>> \in Less)
  BY <1>1, WFMin, Zenon
<1>4. \A y \in S : m <= y
  <2> SUFFICES ASSUME NEW y \in S PROVE m <= y
    OBVIOUS
  <2>1. m \in Nat /\ y \in Nat
    OBVIOUS
  <2>2. ~(y < m)
    BY <1>2, <1>3, <2>1, Zenon
  <2> QED
    BY <2>1, <2>2
<1> QED
  BY <1>4 DEF Min

(* The remainder of a sum with a multiple of the modulus.                  *)
LEMMA Remainder ==
  ASSUME NEW n \in Nat, n > 0, NEW q \in Int, NEW r \in 0..n-1
  PROVE  (n * q + r) % n = r
  BY SMT

(* An integer is a multiple of the modulus and a remainder.                *)
LEMMA Quotient ==
  ASSUME NEW a \in Int, NEW n \in Nat, n > 0
  PROVE  \E q \in Int, r \in 0..n-1 : a = n * q + r
<1>1. a \div n \in Int /\ a % n \in 0..n-1
  BY SMT
<1>2. a = n * (a \div n) + (a % n)
  BY SMT
<1> QED
  BY <1>1, <1>2, Zenon

(* The walk from any address visits every slot.                            *)
LEMMA WalkVisitsAll ==
  ASSUME NEW slots, Len(slots) \in Nat, Len(slots) > 0, NEW a \in Int, NEW s \in 1..Len(slots)
  PROVE  \E i \in 0..Len(slots)-1 : At(slots, a, i) = s
<1> DEFINE n == Len(slots)
<1> HIDE DEF n
<1>1. n \in Nat /\ n > 0 /\ s \in 1..n /\ a + 1 \in Int
  BY DEF n
<1>2. PICK q \in Int, r \in 0..n-1 : a + 1 = n * q + r
  BY <1>1, Quotient, Zenon
<1>3. \E i \in 0..n-1 : 1 + ((a + 1 + i) % n) = s
  <2>1. s - 1 \in 0..n-1
    BY <1>1
  <2>2. CASE s - 1 >= r
    <3> DEFINE i == s - 1 - r
    <3>1. i \in 0..n-1
      BY <1>1, <2>2
    <3>2. a + 1 + i = n * q + (s-1)
      BY <1>1, <1>2
    <3>3. (n * q + (s-1)) % n = s-1
      BY <1>1, <2>1, Remainder
    <3>4. 1 + ((a + 1 + i) % n) = s
      BY <1>1, <3>2, <3>3
    <3> HIDE DEF i
    <3> QED
      BY <3>1, <3>4, Zenon
  <2>3. CASE s - 1 < r
    <3> DEFINE i == s - 1 - r + n
    <3>1. i \in 0..n-1
      BY <1>1, <2>3
    <3>2. a + 1 + i = n * (q+1) + (s-1)
      BY <1>1, <1>2
    <3>3. (n * (q+1) + (s-1)) % n = s-1
      BY <1>1, <2>1, Remainder
    <3>4. 1 + ((a + 1 + i) % n) = s
      BY <1>1, <3>2, <3>3
    <3> HIDE DEF i
    <3> QED
      BY <3>1, <3>4, Zenon
  <2> QED
    BY <1>1, <2>2, <2>3
<1> QED
  BY <1>3 DEF At, n

(* Every place on a walk is a slot of the vector.                          *)
LEMMA AtIsSlot ==
  ASSUME NEW slots, Len(slots) \in Nat, Len(slots) > 0, NEW a \in Int, NEW i \in Int
  PROVE  At(slots, a, i) \in 1..Len(slots)
<1>1. (a + 1 + i) % Len(slots) \in 0..Len(slots)-1
  BY SMT
<1> QED
  BY <1>1 DEF At

(* The first slot on the way that holds what is wanted.                    *)
LEMMA ProbeIs ==
  ASSUME NEW slots, Len(slots) \in Nat, NEW a \in Int, NEW wanted
  PROVE  LET s == Probe(slots, a, wanted) IN
         /\ s \in 0..Len(slots)
         /\ s # 0 => \E i \in 0..Len(slots)-1 :
                /\ s = At(slots, a, i) /\ s \in 1..Len(slots) /\ slots[s].key \in wanted
                /\ \A j \in 0..i-1 : slots[At(slots, a, j)].key \notin wanted
         /\ s = 0 => \A r \in 1..Len(slots) : slots[r].key \notin wanted
<1> DEFINE hits == {i \in 0..Len(slots) - 1 : slots[At(slots, a, i)].key \in wanted}
<1> DEFINE s == Probe(slots, a, wanted)
<1>1. CASE hits = {}
  <2>1. s = 0
    BY <1>1 DEF Probe
  <2>2. ASSUME NEW r \in 1..Len(slots) PROVE slots[r].key \notin wanted
    <3>1. PICK i \in 0..Len(slots)-1 : At(slots, a, i) = r
      <4>1. Len(slots) > 0
        OBVIOUS
      <4> QED
        BY <4>1, WalkVisitsAll
    <3> QED
      BY <1>1, <3>1
  <2> QED
    BY <2>1, <2>2
<1>2. CASE hits # {}
  <2> DEFINE m == Min(hits)
  <2>1. s = At(slots, a, m)
    BY <1>2 DEF Probe
  <2>2. hits \subseteq Nat
    OBVIOUS
  <2>3. m \in hits /\ \A j \in hits : m <= j
    <3> HIDE DEF hits
    <3> QED
      BY <1>2, <2>2, LeastIs
  <2>4. m \in 0..Len(slots)-1 /\ slots[At(slots, a, m)].key \in wanted /\ Len(slots) > 0
    BY <2>3
  <2>5. ASSUME NEW j \in 0..m-1 PROVE slots[At(slots, a, j)].key \notin wanted
    <3>1. j \in 0..Len(slots)-1 /\ ~(m <= j)
      BY <2>4
    <3> QED
      BY <2>3, <3>1
  <2>6. At(slots, a, m) \in 1..Len(slots)
    BY <2>4, AtIsSlot
  <2> HIDE DEF m, hits, s
  <2> QED
    BY <2>1, <2>4, <2>5, <2>6 DEF s
<1> QED
  BY <1>1, <1>2

-----------------------------------------------------------------------------
(* What the assumptions say of vectors and threads.                        *)
LEMMA ConstantTypes ==
  /\ Vectors \subseteq Nat \ {0} /\ 1 \in Vectors
  /\ IsFiniteSet(Threads) /\ Cardinality(Threads) \in Nat /\ None \notin Threads
<1>1. IsFiniteSet(Threads) /\ Cardinality(Threads) \in Nat
  BY KeysAssumption, FS_CardinalityType
<1> QED
  BY <1>1, KeysAssumption DEF Vectors

(* What a thread may call.                                                 *)
LEMMA CallParts ==
  ASSUME NEW t \in Threads, NEW call \in Calls(t)
  PROVE  /\ call.op \in {"get", "rem", "put"} /\ call # Idle
         /\ call.key \in Keys
         /\ call.op = "put" => call.value \in Values
         /\ call.op # "put" => call.value = None
         /\ call.op = "put" => t \in Putters
<1>1. call.op \in {"get", "rem", "put"} /\ call # Idle
  BY DEF Calls, Idle
<1> QED
  BY <1>1 DEF Calls

(* What a thread that is called has asked for.                             *)
LEMMA Asked ==
  ASSUME Shape, NEW t \in Threads, request[t] # Idle
  PROVE  /\ request[t] \in Calls(t) /\ Key(t) \in Keys
         /\ request[t].op \in {"get", "rem", "put"}
         /\ request[t].op = "put" => request[t].value \in Values
         /\ request[t].op # "put" => request[t].value = None
         /\ request[t].op = "put" => t \in Putters
<1>1. request[t] \in Calls(t)
  BY DEF Shape
<1> QED
  BY <1>1, CallParts DEF Key

(* A table whose slots, flag or count is replaced.                         *)
LEMMA TableStored ==
  ASSUME NEW tb \in Tables, NEW s \in Seq(Cells), NEW m \in BOOLEAN, NEW n \in Int
  PROVE  LET x == [slots |-> s, moved |-> m, count |-> n]
             y == [tb EXCEPT !.slots = s]
         IN  /\ x \in Tables /\ y \in Tables
             /\ y.slots = s /\ y.moved = tb.moved /\ y.count = tb.count
BY DEF Tables

(* A store into a slot.                                                    *)
LEMMA CellStored ==
  ASSUME NEW slots \in Seq(Cells), NEW c \in Cells, NEW i \in 1..Len(slots)
  PROVE  LET s == [slots EXCEPT ![i] = c] IN
         /\ s \in Seq(Cells) /\ Len(s) = Len(slots) /\ DOMAIN s = 1..Len(slots)
         /\ \A j \in 1..Len(slots) : s[j] = IF j = i THEN c ELSE slots[j]
<1> DEFINE s == [slots EXCEPT ![i] = c]
<1>1. s \in Seq(Cells) /\ Len(s) = Len(slots)
  BY ExceptSeq
<1>2. /\ DOMAIN s = 1..Len(slots)
      /\ \A j \in 1..Len(slots) : s[j] = IF j = i THEN c ELSE slots[j]
  OBVIOUS
<1> QED
  BY <1>1, <1>2, Zenon

(* A cell whose key or value is replaced.                                  *)
LEMMA CellParts ==
  ASSUME NEW d \in Cells
  PROVE  /\ \A key \in Keys \cup {Free, Deleted} :
                /\ Slot(key, d.value) \in Cells /\ Slot(key, d.value) = [d EXCEPT !.key = key]
         /\ \A value \in Values \cup {Free, Deleted, Rehashing} :
                /\ Slot(d.key, value) \in Cells /\ Slot(d.key, value) = [d EXCEPT !.value = value]
         /\ \A key, value : Slot(key, value).key = key /\ Slot(key, value).value = value
BY DEF Slot, Cells

(* A thread's slot after the step holds c, and the count has grown by n.   *)
Written(t, w, c, n) ==
    /\ w \in [Vectors -> Tables]
    /\ \A v \in Vectors : v # my[t].vector => w[v] = vectors[v]
    /\ my[t].vector \in Vectors =>
           LET v == my[t].vector IN
           /\ Len(w[v].slots) = Size(v) /\ w[v].moved = vectors[v].moved
           /\ w[v].count = vectors[v].count + n
           /\ \A i \in 1..Size(v) :
                  w[v].slots[i] = IF i = my[t].slot THEN c ELSE vectors[v].slots[i]

LEMMA NothingWritten ==
  ASSUME Shape, NEW t \in Threads
  PROVE  Written(t, vectors, MySlot(t), 0)
BY DEF Shape, Written, Size, MySlot, MyVector, Tables

Put(v, i, c) == [vectors EXCEPT ![v].slots[i] = c]

LEMMA CellPut ==
  ASSUME Shape, NEW v \in Vectors, NEW i \in 1..Size(v), NEW c \in Cells,
         NEW w, w = Put(v, i, c)
  PROVE  /\ w \in [Vectors -> Tables] /\ \A x \in Vectors : x # v => w[x] = vectors[x]
         /\ Len(w[v].slots) = Size(v) /\ w[v].moved = vectors[v].moved
         /\ w[v].count = vectors[v].count
         /\ \A j \in 1..Size(v) : w[v].slots[j] = IF j = i THEN c ELSE vectors[v].slots[j]
<1> DEFINE s == [vectors[v].slots EXCEPT ![i] = c]
<1> DEFINE tb == [vectors[v] EXCEPT !.slots = s]
<1>1. vectors[v] \in Tables /\ vectors[v].slots \in Seq(Cells) /\ vectors[v].count \in Int
  BY DEF Shape, Tables
<1>2. /\ s \in Seq(Cells) /\ Len(s) = Size(v)
      /\ \A j \in 1..Size(v) : s[j] = IF j = i THEN c ELSE vectors[v].slots[j]
  BY <1>1, CellStored DEF Size
<1>3. /\ tb \in Tables /\ tb.slots = s /\ tb.moved = vectors[v].moved
      /\ tb.count = vectors[v].count
  <2> HIDE DEF s
  <2> QED
    BY <1>1, <1>2, TableStored
<1>4. w = [vectors EXCEPT ![v] = tb]
  BY DEF Put
<1> HIDE DEF tb, s
<1>5. w \in [Vectors -> Tables] /\ w[v] = tb /\ \A x \in Vectors : x # v => w[x] = vectors[x]
  BY <1>3, <1>4 DEF Shape
<1> QED
  BY <1>1, <1>2, <1>3, <1>5

LEMMA CellWritten ==
  ASSUME Shape, NEW t \in Threads, my[t].vector \in Vectors, my[t].slot \in 1..Size(my[t].vector),
         NEW c \in Cells
  PROVE  Written(t, [vectors EXCEPT ![my[t].vector].slots[my[t].slot] = c], c, 0)
<1> DEFINE w == [vectors EXCEPT ![my[t].vector].slots[my[t].slot] = c]
<1>1. PICK v \in Vectors : v = my[t].vector
  OBVIOUS
<1>2. PICK i \in 1..Size(v) : i = my[t].slot
  BY <1>1
<1>3. w = Put(v, i, c)
  BY <1>1, <1>2 DEF Put
<1> HIDE DEF w
<1>4. /\ w \in [Vectors -> Tables] /\ \A x \in Vectors : x # v => w[x] = vectors[x]
      /\ Len(w[v].slots) = Size(v) /\ w[v].moved = vectors[v].moved
      /\ w[v].count = vectors[v].count
      /\ \A j \in 1..Size(v) : w[v].slots[j] = IF j = i THEN c ELSE vectors[v].slots[j]
  BY <1>1, <1>2, <1>3, CellPut
<1>5. vectors[v].count \in Int
  BY DEF Shape, Tables
<1>6. Written(t, w, c, 0)
  BY <1>1, <1>2, <1>4, <1>5 DEF Written
<1> QED
  BY <1>6 DEF w

(* The stores of the operations.                                           *)
LEMMA StoresAre ==
  ASSUME Shape, NEW t \in Threads, my[t].vector \in Vectors, my[t].slot \in 1..Size(my[t].vector)
  PROVE  /\ \A key \in Keys \cup {Deleted} :
                Written(t, WithKey(t, key), Slot(key, MySlot(t).value), 0)
         /\ \A value \in Values \cup {Deleted} :
                Written(t, WithValue(t, value), Slot(MySlot(t).key, value), 0)
         /\ MySlot(t) \in Cells
<1> DEFINE v == my[t].vector
<1> DEFINE i == my[t].slot
<1>1. vectors[v].slots \in Seq(Cells) /\ vectors[v].slots[i] \in Cells
  BY DEF Shape, Tables, Size
<1>2. MySlot(t) = vectors[v].slots[i]
  BY DEF MySlot, MyVector
<1>3. ASSUME NEW key \in Keys \cup {Deleted}
      PROVE  Written(t, WithKey(t, key), Slot(key, MySlot(t).value), 0)
  <2> DEFINE c == Slot(key, MySlot(t).value)
  <2>1. c \in Cells /\ c = [vectors[v].slots[i] EXCEPT !.key = key]
    <3> DEFINE d == vectors[v].slots[i]
    <3>1. d \in Cells /\ MySlot(t) = d
      BY <1>1, <1>2
    <3> HIDE DEF d
    <3>2. c \in Cells /\ c = [d EXCEPT !.key = key]
      BY <3>1, CellParts
    <3> QED
      BY <3>2 DEF d
  <2>2. WithKey(t, key) = [vectors EXCEPT ![my[t].vector].slots[my[t].slot] = c]
    BY <2>1 DEF WithKey
  <2> HIDE DEF c
  <2>3. Written(t, [vectors EXCEPT ![my[t].vector].slots[my[t].slot] = c], c, 0)
    BY <2>1, CellWritten
  <2>4. Written(t, WithKey(t, key), c, 0)
    BY <2>2, <2>3
  <2> QED
    BY <2>4 DEF c
<1>4. ASSUME NEW value \in Values \cup {Deleted}
      PROVE  Written(t, WithValue(t, value), Slot(MySlot(t).key, value), 0)
  <2> DEFINE c == Slot(MySlot(t).key, value)
  <2>1. c \in Cells /\ c = [vectors[v].slots[i] EXCEPT !.value = value]
    <3> DEFINE d == vectors[v].slots[i]
    <3>1. d \in Cells /\ MySlot(t) = d
      BY <1>1, <1>2
    <3> HIDE DEF d
    <3>2. c \in Cells /\ c = [d EXCEPT !.value = value]
      BY <3>1, CellParts
    <3> QED
      BY <3>2 DEF d
  <2>2. WithValue(t, value) = [vectors EXCEPT ![my[t].vector].slots[my[t].slot] = c]
    BY <2>1 DEF WithValue
  <2> HIDE DEF c
  <2>3. Written(t, [vectors EXCEPT ![my[t].vector].slots[my[t].slot] = c], c, 0)
    BY <2>1, CellWritten
  <2>4. Written(t, WithValue(t, value), c, 0)
    BY <2>2, <2>3
  <2> QED
    BY <2>4 DEF c
<1> QED
  BY <1>1, <1>2, <1>3, <1>4

LEMMA CountWritten ==
  ASSUME Shape, NEW t \in Threads, my[t].vector \in Vectors, NEW n \in Int
  PROVE  Written(t, WithCount(t, n), MySlot(t), n)
<1> DEFINE v == my[t].vector
<1> DEFINE w == WithCount(t, n)
<1>1. vectors[v] \in Tables
  BY DEF Shape
<1> DEFINE tb == [vectors[v] EXCEPT !.count = @ + n]
<1>2. tb \in Tables /\ tb.slots = vectors[v].slots /\ tb.moved = vectors[v].moved
      /\ tb.count = vectors[v].count + n
  BY <1>1 DEF Tables
<1>3. w = [vectors EXCEPT ![v] = tb]
  BY DEF WithCount
<1> HIDE DEF tb
<1>4. w \in [Vectors -> Tables] /\ w[v] = tb /\ \A x \in Vectors : x # v => w[x] = vectors[x]
  BY <1>2, <1>3 DEF Shape
<1> HIDE DEF w
<1> QED
  BY <1>2, <1>4 DEF Written, w, Size, MySlot, MyVector

-----------------------------------------------------------------------------
(* A step of thread t, after which the vectors are w, except that its      *)
(* vector is emptied when it lets go of it and nobody else can reach it.   *)
Gone(v) == vectors'[v] = Unused /\ v \notin {vector, copy.to} /\ \A u \in Threads : my'[u].vector # v

Moves(t, w) ==
    /\ UNCHANGED <<vector, owner, copy, address>> /\ threshold' \in Int
    /\ vectors' \in [Vectors -> Tables]
    /\ pc' \in [Threads -> Points] /\ my' \in [Threads -> Locals]
    /\ request' \in [Threads -> Requests] /\ request'[t] \in {Idle} \cup Calls(t)
    /\ \A u \in Threads \ {t} : pc'[u] = pc[u] /\ my'[u] = my[u] /\ request'[u] = request[u]
    /\ \A v \in Vectors : vectors'[v] = w[v] \/ Gone(v)
    /\ \A v \in Vectors \ {vector, copy.to} :
           (\A u \in Threads : my'[u].vector # v) => vectors'[v] = Unused
    /\ my'[t].vector \in {0, vector, my[t].vector}

LEMMA UnusedTable == Unused \in Tables /\ Len(Unused.slots) = 0 /\ Unused.moved = FALSE
<1>1. <<>> \in Seq(Cells) /\ Len(<<>>) = 0
  OBVIOUS
<1> QED
  BY <1>1 DEF Unused, Tables

(* The shape of what a thread that is somewhere has in hand.               *)
LEMMA HandIs ==
  ASSUME Structure, NEW t \in Threads
  PROVE  /\ OpAt(t) /\ HandAt(t) /\ CellAt(t)
         /\ my[t] \in Locals /\ my[t].slot \in Nat /\ my[t].address \in Int
         /\ my[t].vector # 0 => my[t].vector \in Vectors
         /\ pc[t] \in Points /\ owner \in Threads \cup {None}
BY DEF Structure, Shape, ThreadInv, Locals

(* A step that keeps what the thread has.                                  *)
LEMMA KeepMoves ==
  ASSUME Structure, NEW t \in Threads, NEW w, NEW c, NEW n \in Int, Written(t, w, c, n),
         NEW p \in Points, Goto(t, p), vectors' = w, threshold' \in Int,
         UNCHANGED <<vector, owner, copy, address, request>>,
         my' \in [Threads -> Locals], my'[t].vector = my[t].vector,
         \A u \in Threads \ {t} : my'[u] = my[u]
  PROVE  Moves(t, w) /\ pc'[t] = p
<1>1. /\ pc' \in [Threads -> Points] /\ pc'[t] = p
      /\ \A u \in Threads \ {t} : pc'[u] = pc[u]
  BY DEF Goto, Structure, Shape
<1>2. /\ request' \in [Threads -> Requests] /\ request'[t] \in {Idle} \cup Calls(t)
  BY DEF Structure, Shape, Requests, Calls
<1>3. ASSUME NEW v \in Vectors \ {vector, copy.to}, \A u \in Threads : my'[u].vector # v
      PROVE  vectors'[v] = Unused
  <2>1. \A u \in Threads : ~Holds(u, v)
    BY <1>3 DEF Holds
  <2>2. vectors[v] = Unused /\ v # my[t].vector
    BY <2>1 DEF Structure, HeldInv, Holds
  <2> QED
    BY <2>2 DEF Written
<1> QED
  BY <1>1, <1>2, <1>3 DEF Moves, Written

(* A step that lets go of what the thread has.                             *)
LEMMA LetGoMoves ==
  ASSUME Structure, NEW t \in Threads, NEW w, NEW c, NEW n \in Int, Written(t, w, c, n),
         NEW p \in Points, LetGo(t, w, p), threshold' \in Int,
         UNCHANGED <<vector, owner, copy, address>>,
         request' \in [Threads -> Requests], request'[t] \in {Idle} \cup Calls(t),
         \A u \in Threads \ {t} : request'[u] = request[u]
  PROVE  Moves(t, w) /\ pc'[t] = p /\ my'[t] = NoLocals
<1>1. /\ pc' \in [Threads -> Points] /\ pc'[t] = p
      /\ \A u \in Threads \ {t} : pc'[u] = pc[u]
  BY DEF LetGo, Goto, Structure, Shape
<1>2. /\ my' \in [Threads -> Locals] /\ my'[t] = NoLocals /\ NoLocals.vector = 0
      /\ \A u \in Threads \ {t} : my'[u] = my[u]
  BY DEF LetGo, Structure, Shape, NoLocals, Locals
<1> DEFINE x == my[t].vector
<1> DEFINE kept == x \in {0, vector, copy.to} \/ \E u \in Threads \ {t} : my[u].vector = x
<1>3. w \in [Vectors -> Tables] /\ x \in {0} \cup Vectors
  BY DEF Written, Structure, Shape, Locals
<1>4. vectors' = IF kept THEN w ELSE [w EXCEPT ![x] = Unused]
  BY DEF LetGo
<1>5. my'[t].vector \notin Vectors
  BY <1>2, ConstantTypes
<1>6. \A u \in Threads \ {t} : my'[u].vector = my[u].vector
  BY <1>2
<1>7. vectors' \in [Vectors -> Tables] /\ \A v \in Vectors : v # x => vectors'[v] = w[v]
  BY <1>3, <1>4, UnusedTable
<1>8. CASE kept
  <2>1. vectors' = w
    BY <1>4, <1>8
  <2>2. ASSUME NEW v \in Vectors \ {vector, copy.to}, \A u \in Threads : my'[u].vector # v
        PROVE  vectors'[v] = Unused
    <3>1. v # x
      BY <1>6, <1>8, <2>2, ConstantTypes
    <3>2. \A u \in Threads : ~Holds(u, v)
      BY <1>6, <2>2, <3>1 DEF Holds
    <3>3. vectors[v] = Unused
      BY <3>2 DEF Structure, HeldInv
    <3> QED
      BY <2>1, <3>1, <3>3 DEF Written
  <2> QED
    BY <1>1, <1>2, <1>7, <2>1, <2>2 DEF Moves
<1>9. CASE ~kept
  <2>1. x \in Vectors /\ vectors'[x] = Unused
    BY <1>3, <1>4, <1>9
  <2>2. Gone(x)
    <3>1. \A u \in Threads : my'[u].vector # x
      BY <1>5, <1>6, <1>9, <2>1
    <3>2. x \notin {vector, copy.to}
      BY <1>9
    <3> QED
      BY <2>1, <3>1, <3>2 DEF Gone
  <2>3. ASSUME NEW v \in Vectors \ {vector, copy.to}, \A u \in Threads : my'[u].vector # v
        PROVE  vectors'[v] = Unused
    <3>1. CASE v = x
      BY <2>1, <3>1
    <3>2. CASE v # x
      <4>1. \A u \in Threads : ~Holds(u, v)
        BY <1>6, <2>3, <3>2 DEF Holds
      <4>2. vectors[v] = Unused
        BY <4>1 DEF Structure, HeldInv
      <4> QED
        BY <1>7, <3>2, <4>2 DEF Written
    <3> QED
      BY <3>1, <3>2
  <2>4. \A v \in Vectors : vectors'[v] = w[v] \/ Gone(v)
    BY <1>7, <2>2
  <2> QED
    BY <1>1, <1>2, <1>7, <2>3, <2>4 DEF Moves
<1> QED
  BY <1>8, <1>9

(* The ways in which the actions of an operation end.                      *)
LEMMA RestartMoves ==
  ASSUME Structure, NEW t \in Threads, NEW w, NEW c, NEW n \in Int, Written(t, w, c, n),
         Restart(t, w)
  PROVE  /\ Moves(t, w) /\ pc'[t] = "rehash" /\ my'[t] = NoLocals
         /\ UNCHANGED <<threshold, request>> /\ answer' = NoAnswer
<1>1. /\ LetGo(t, w, "rehash") /\ "rehash" \in Points /\ answer' = NoAnswer
      /\ UNCHANGED <<vector, threshold, owner, copy, address, request>>
  BY DEF Restart, Keep, rehashVars, Points
<1>2. /\ request' \in [Threads -> Requests] /\ request'[t] \in {Idle} \cup Calls(t)
      /\ threshold' \in Int
  BY <1>1 DEF Structure, Shape, Requests, Calls
<1> QED
  BY <1>1, <1>2, LetGoMoves

LEMMA ReturnMoves ==
  ASSUME Structure, NEW t \in Threads, NEW w, NEW c, NEW n \in Int, Written(t, w, c, n),
         NEW x, Return(t, w, x)
  PROVE  /\ Moves(t, w) /\ pc'[t] = "idle" /\ my'[t] = NoLocals /\ request'[t] = Idle
         /\ request' = [request EXCEPT ![t] = Idle]
         /\ threshold' = threshold /\ answer' = [thread |-> t, value |-> x]
<1>1. /\ LetGo(t, w, "idle") /\ "idle" \in Points /\ answer' = [thread |-> t, value |-> x]
      /\ UNCHANGED <<vector, threshold, owner, copy, address>>
      /\ request' = [request EXCEPT ![t] = Idle]
  BY DEF Return, rehashVars, Points
<1>2. /\ request' \in [Threads -> Requests] /\ request'[t] = Idle
      /\ \A u \in Threads \ {t} : request'[u] = request[u] /\ threshold' \in Int
  BY <1>1 DEF Structure, Shape, Requests
<1>3. threshold' \in Int
  BY <1>1 DEF Structure, Shape
<1> QED
  BY <1>1, <1>2, <1>3, LetGoMoves

LEMMA GoOnMoves ==
  ASSUME Structure, NEW t \in Threads, NEW p \in Points, GoOn(t, p)
  PROVE  /\ Moves(t, vectors) /\ pc'[t] = p /\ vectors' = vectors
         /\ UNCHANGED <<threshold, request, my>> /\ answer' = NoAnswer
<1>1. /\ Goto(t, p) /\ answer' = NoAnswer
      /\ UNCHANGED <<vector, vectors, threshold, owner, copy, address, request, my>>
  BY DEF GoOn, Keep, rehashVars, tableVars
<1>2. threshold' \in Int /\ my' \in [Threads -> Locals] /\ Shape
  BY <1>1 DEF Structure, Shape
<1> QED
  BY <1>1, <1>2, KeepMoves, NothingWritten

LEMMA StoreMoves ==
  ASSUME Structure, NEW t \in Threads, NEW w, NEW c, NEW n \in Int, Written(t, w, c, n),
         NEW p \in Points, Store(t, w, p)
  PROVE  /\ Moves(t, w) /\ pc'[t] = p /\ vectors' = w
         /\ UNCHANGED <<threshold, request, my>> /\ answer' = NoAnswer
<1>1. /\ Goto(t, p) /\ answer' = NoAnswer /\ vectors' = w
      /\ UNCHANGED <<vector, threshold, owner, copy, address, request, my>>
  BY DEF Store, Keep, rehashVars
<1>2. threshold' \in Int /\ my' \in [Threads -> Locals]
  BY <1>1 DEF Structure, Shape
<1> QED
  BY <1>1, <1>2, KeepMoves

-----------------------------------------------------------------------------
(* What a thread may do to its slot.                                       *)
Touches(t, c) ==
    LET d == MySlot(t) IN
    c # d =>
      /\ my[t].vector \in Vectors /\ my[t].slot \in 1..Size(my[t].vector) /\ c \in Cells
      /\ pc[t] \in Mine \/ d.value \in Values \/ d.key = Free
      /\ c.key \in {d.key, Deleted} \/ d.key = Free
      /\ c.key # Free
      /\ d.value = Rehashing => c.value = Rehashing
      /\ c.key = Deleted => c.value \notin Values

(* A slot becomes a thread's own only when it holds a value or no key.     *)
Takes(t) ==
    pc'[t] \in Mine =>
        /\ my'[t].vector = my[t].vector /\ my'[t].slot = my[t].slot
        /\ my[t].vector \in Vectors
        /\ pc[t] \in Mine \/ MySlot(t).value \in Values \/ MySlot(t).key = Free

(* What a step of a thread does to the slots.                              *)
LEMMA SlotsAfter ==
  ASSUME Structure, NEW t \in Threads, NEW w, NEW c, NEW n \in Int, Written(t, w, c, n),
         Moves(t, w), Touches(t, c)
  PROVE  \A v \in Vectors :
           \/ Gone(v)
           \/ /\ Size(v)' = Size(v) /\ (vectors[v].moved)' = vectors[v].moved
              /\ \A i \in 1..Size(v) :
                   /\ v = my[t].vector /\ i = my[t].slot => vectors'[v].slots[i] = c
                   /\ v # my[t].vector \/ i # my[t].slot \/ c = MySlot(t) =>
                          vectors'[v].slots[i] = vectors[v].slots[i]
<1> SUFFICES ASSUME NEW v \in Vectors, ~Gone(v)
             PROVE  /\ Size(v)' = Size(v) /\ (vectors[v].moved)' = vectors[v].moved
                    /\ \A i \in 1..Size(v) :
                         /\ v = my[t].vector /\ i = my[t].slot => vectors'[v].slots[i] = c
                         /\ v # my[t].vector \/ i # my[t].slot \/ c = MySlot(t) =>
                                vectors'[v].slots[i] = vectors[v].slots[i]
  OBVIOUS
<1>1. vectors'[v] = w[v]
  BY DEF Moves
<1>2. CASE v # my[t].vector
  BY <1>1, <1>2 DEF Written, Size
<1>3. CASE v = my[t].vector
  BY <1>1, <1>3 DEF Written, Size, MySlot, MyVector
<1> QED
  BY <1>2, <1>3

LEMMA GoneIs ==
  ASSUME NEW v \in Vectors, Gone(v)
  PROVE  /\ Size(v)' = 0 /\ (vectors[v].moved)' = FALSE /\ v \notin {vector, copy.to}
         /\ \A u \in Threads : my'[u].vector # v
BY UnusedTable DEF Gone, Size

(* A step of a thread that does not rehash keeps the structure, if it does *)
(* to its slot only what it may.                                           *)
LEMMA ThreadStep ==
  ASSUME Structure, NEW t \in Threads, NEW w, NEW c, NEW n \in Int, Written(t, w, c, n),
         Moves(t, w), Touches(t, c), Takes(t),
         owner # t, (OpAt(t) /\ HandAt(t) /\ CellAt(t))'
  PROVE  Structure'
<1> DEFINE After(v) ==
      /\ Size(v)' = Size(v)
      /\ \A i \in 1..Size(v) :
           /\ v = my[t].vector /\ i = my[t].slot => vectors'[v].slots[i] = c
           /\ v # my[t].vector \/ i # my[t].slot \/ c = MySlot(t) =>
                  vectors'[v].slots[i] = vectors[v].slots[i]
<1>1. \A v \in Vectors : Gone(v) \/ After(v)
  BY SlotsAfter
<1> HIDE DEF After
<1>2. \A u \in Threads \ {t} : pc'[u] = pc[u] /\ my'[u] = my[u] /\ request'[u] = request[u]
  BY DEF Moves
<1>3. vector' = vector /\ owner' = owner /\ copy' = copy /\ address' = address
  BY DEF Moves
<1>4. Shape'
  BY DEF Moves, Structure, Shape, Calls
<1>5. vector \in Vectors /\ copy.to \in {0} \cup Vectors
  BY DEF Structure, Shape, Copies
<1>6. After(vector) /\ (copy.to # 0 => After(copy.to))
  BY <1>1, <1>5 DEF Gone
<1>7. ASSUME NEW u \in Threads \ {t} PROVE (OpAt(u) /\ HandAt(u) /\ CellAt(u))'
  <2> DEFINE v == my[u].vector
  <2> DEFINE i == my[u].slot
  <2>1. /\ OpAt(u) /\ HandAt(u) /\ CellAt(u) /\ v \in {0} \cup Vectors
        /\ pc'[u] = pc[u] /\ my'[u] = my[u] /\ request'[u] = request[u]
    BY <1>2, HandIs DEF Locals
  <2>2. v \in Vectors => After(v)
    BY <1>1, <2>1 DEF Gone, Holds
  <2>3. OpAt(u)'
    BY <2>1 DEF OpAt
  <2>4. HandAt(u)'
    <3>1. pc[u] \in AtSlot \cup {"check"} => v \in Vectors
      BY <2>1 DEF HandAt, AtSlot
    <3>2. pc[u] \in AtSlot \cup {"check"} => Size(v)' = Size(v)
      BY <2>2, <3>1 DEF After
    <3> QED
      BY <1>3, <2>1, <3>2 DEF HandAt
  <2>5. CellAt(u)'
    <3>1. CASE pc[u] \notin AtSlot \cup {"check"} \/ (pc[u] = "check" /\ i = 0)
      BY <2>1, <3>1 DEF CellAt, AtSlot
    <3>2. CASE pc[u] \in AtSlot \cup {"check"} /\ ~(pc[u] = "check" /\ i = 0)
      <4>1. v \in Vectors /\ i \in 1..Size(v) /\ Key(u)' = Key(u)
        BY <2>1, <3>2 DEF HandAt, AtSlot, Key
      <4>2. After(v)
        BY <2>2, <4>1
      <4>3. CASE v # my[t].vector \/ i # my[t].slot \/ c = MySlot(t)
        <5>1. vectors'[v].slots[i] = vectors[v].slots[i]
          BY <4>1, <4>2, <4>3 DEF After
        <5> QED
          BY <2>1, <4>1, <5>1 DEF CellAt, KeyAt, ValueAt
      <4>4. CASE v = my[t].vector /\ i = my[t].slot /\ c # MySlot(t)
        <5> DEFINE d == vectors[v].slots[i]
        <5>1. vectors'[v].slots[i] = c /\ d = MySlot(t)
          BY <4>1, <4>2, <4>4 DEF After, MySlot, MyVector
        <5>2. /\ pc[t] \in Mine \/ d.value \in Values \/ d.key = Free
              /\ c.key \in {d.key, Deleted} \/ d.key = Free
              /\ c.key # Free /\ c \in Cells
          BY <4>4, <5>1 DEF Touches
        <5>3. pc[u] \notin Mine
          <6> SUFFICES ASSUME pc[u] \in Mine PROVE FALSE
            OBVIOUS
          <6>1. pc[t] \notin Mine
            BY <4>4 DEF Structure, SlotInv
          <6>2. d.value \notin Values /\ d.key \in Keys
            <7>1. request[u] # Idle
              BY <2>1 DEF OpAt, Mine
            <7>2. Key(u) \in Keys
              BY <7>1, Asked DEF Structure
            <7> QED
              BY <2>1, <7>2, KeysAssumption DEF CellAt, Mine, KeyAt, ValueAt
          <6> QED
            BY <5>2, <6>1, <6>2, KeysAssumption
        <5>4. ASSUME pc[u] \in {"check", "value", "swap"}, request[u].op # "put"
              PROVE  c.key \in {Key(u), Deleted}
          <6> HIDE DEF v, i
          <6>0. i # 0
            BY <4>1
          <6>1. d.key \in {Key(u), Deleted}
            BY <2>1, <5>4, <6>0 DEF CellAt, KeyAt, v, i
          <6>2. Key(u) \in Keys
            <7>1. request[u] # Idle
              BY <2>1, <5>4 DEF OpAt
            <7> QED
              BY <7>1, Asked DEF Structure
          <6> QED
            BY <5>2, <6>1, <6>2, KeysAssumption
        <5> HIDE DEF d
        <5> QED
          BY <2>1, <4>1, <5>1, <5>2, <5>3, <5>4 DEF CellAt, KeyAt, ValueAt, Mine
      <4> QED
        BY <4>3, <4>4
    <3> QED
      BY <3>1, <3>2
  <2> QED
    BY <2>3, <2>4, <2>5
<1>8. ThreadInv'
  BY <1>7 DEF ThreadInv
<1>9. SlotInv'
  <2>1. ASSUME NEW x \in Threads, NEW u \in Threads, pc'[x] \in Mine, pc'[u] \in Mine,
               my'[x].vector = my'[u].vector, my'[x].slot = my'[u].slot
        PROVE  x = u
    <3>1. ASSUME NEW y \in Threads \ {t}, pc[y] \in Mine, pc'[t] \in Mine,
                 my[y].vector = my'[t].vector, my[y].slot = my'[t].slot
          PROVE  FALSE
      <4>1. /\ my[y].vector = my[t].vector /\ my[y].slot = my[t].slot
            /\ pc[t] \in Mine \/ MySlot(t).value \in Values \/ MySlot(t).key = Free
        BY <3>1 DEF Takes
      <4>2. pc[t] \notin Mine
        BY <3>1, <4>1 DEF Structure, SlotInv
      <4>3. MySlot(t).value \notin Values /\ MySlot(t).key \in Keys
        <5>1. request[y] # Idle /\ CellAt(y)
          BY <3>1, HandIs DEF OpAt, Mine
        <5>2. Key(y) \in Keys
          BY <5>1, Asked DEF Structure
        <5> QED
          BY <3>1, <4>1, <5>1, <5>2, KeysAssumption
            DEF CellAt, Mine, KeyAt, ValueAt, MySlot, MyVector
      <4> QED
        BY <4>1, <4>2, <4>3, KeysAssumption
    <3>2. CASE x # t /\ u # t
      BY <1>2, <2>1, <3>2 DEF Structure, SlotInv
    <3> QED
      BY <1>2, <2>1, <3>1, <3>2
  <2>2. ASSUME NEW v \in Vectors, NEW i \in 1..Size(v)'
        PROVE  /\ KeyAt(v, i)' = Free => ValueAt(v, i)' \in {Free, Rehashing}
               /\ KeyAt(v, i)' = Deleted => ValueAt(v, i)' \notin Values
    <3>1. After(v) /\ i \in 1..Size(v)
      <4>1. ~Gone(v)
        <5> SUFFICES ASSUME Gone(v) PROVE FALSE
          OBVIOUS
        <5>1. Size(v)' = 0
          BY GoneIs
        <5> QED
          BY <2>2, <5>1
      <4>2. After(v)
        BY <1>1, <4>1
      <4> QED
        BY <2>2, <4>2 DEF After
    <3>2. CASE vectors'[v].slots[i] = vectors[v].slots[i]
      BY <3>1, <3>2 DEF Structure, SlotInv, KeyAt, ValueAt
    <3>3. CASE vectors'[v].slots[i] = c /\ c # MySlot(t)
      BY <3>3 DEF Touches, KeyAt, ValueAt
    <3> QED
      BY <3>1, <3>2, <3>3 DEF After
  <2> QED
    BY <2>1, <2>2 DEF SlotInv
<1>10. \A v \in Vectors : After(v) =>
         \A i \in 1..Size(v) : ValueAt(v, i) = Rehashing => ValueAt(v, i)' = Rehashing
  <2> SUFFICES ASSUME NEW v \in Vectors, After(v), NEW i \in 1..Size(v),
                      ValueAt(v, i) = Rehashing
               PROVE  ValueAt(v, i)' = Rehashing
    OBVIOUS
  <2>1. CASE v = my[t].vector /\ i = my[t].slot /\ c # MySlot(t)
    BY <2>1 DEF After, Touches, ValueAt, MySlot, MyVector
  <2>2. CASE ~(v = my[t].vector /\ i = my[t].slot /\ c # MySlot(t))
    BY <2>2 DEF After, ValueAt
  <2> QED
    BY <2>1, <2>2
<1>11. HeldInv'
  <2>1. Size(vector)' > 0
    BY <1>3, <1>6 DEF After, Size, Structure, HeldInv
  <2>2. ASSUME NEW v \in Vectors \ {vector, copy.to}
        PROVE  \/ Size(v)' > 0 /\ \A i \in 1..Size(v)' : ValueAt(v, i)' = Rehashing
               \/ vectors'[v] = Unused /\ \A u \in Threads : my'[u].vector # v
    <3>1. CASE Gone(v)
      BY <3>1 DEF Gone
    <3>2. CASE After(v) /\ vectors[v] # Unused
      <4>1. Size(v) > 0 /\ \A i \in 1..Size(v) : ValueAt(v, i) = Rehashing
        BY <3>2 DEF Structure, HeldInv
      <4> QED
        BY <1>10, <3>2, <4>1 DEF After
    <3>3. CASE After(v) /\ vectors[v] = Unused
      <4>1. \A u \in Threads : ~Holds(u, v)
        BY <3>3, UnusedTable DEF Structure, HeldInv, Size
      <4>2. vectors'[v] = Unused
        BY <3>3, <4>1 DEF Moves, Written, Holds, Gone
      <4>3. my'[t].vector # v
        BY <4>1, ConstantTypes DEF Moves, Holds
      <4> QED
        BY <1>2, <4>1, <4>2, <4>3 DEF Holds
    <3> QED
      BY <1>1, <3>1, <3>2, <3>3
  <2>3. ASSUME NEW v \in Vectors \ {vector, copy.to}, \A u \in Threads : my'[u].vector # v
        PROVE  vectors'[v] = Unused
    BY <2>3 DEF Moves
  <2> QED
    BY <1>3, <2>1, <2>2, <2>3 DEF HeldInv, Holds
<1>12. CopyInv'
  <2>1. \A u \in Threads : Rehasher(u)' <=> Rehasher(u)
    BY <1>2, <1>3 DEF Rehasher
  <2>2. ASSUME NEW u \in Threads, pc'[u] = pc[u] \/ u = t PROVE CopyAt(u)'
    <3>1. CASE ~Rehasher(u) 
      <4>1. owner' = owner /\ HandAt(u)'
        BY <1>3, <1>7
      <4>2. pc'[u] \notin Owning \ {"decide"} /\ ~(pc'[u] = "error" /\ owner = u)
        BY <1>2, <2>2, <3>1, <4>1 DEF Rehasher, HandAt, Owning
      <4> QED
        BY <1>3, <4>2 DEF CopyAt, Copying, Owning
    <3>2. CASE Rehasher(u)
      <4>1. u # t /\ pc'[u] = pc[u] /\ CopyAt(u)
        BY <1>2, <3>2 DEF Rehasher, Structure, CopyInv
      <4> DEFINE v == copy.to
      <4>2. v # 0 => \A x \in Threads : my'[x].vector # v
        <5>1. CASE pc[u] = "count"
          BY <4>1, <5>1 DEF CopyAt
        <5>2. CASE pc[u] # "count" /\ v # 0
          <6>1. v \in Vectors \ {vector} /\ \A x \in Threads : my[x].vector # v
            <7>1. pc[u] \in Owning \cup {"error"}
              BY <3>2, HandIs DEF Rehasher, HandAt
            <7> QED
              BY <3>2, <4>1, <5>2, <7>1 DEF CopyAt, Copying, Owning, Holds, Rehasher
          <6> QED
            BY <1>2, <5>2, <6>1 DEF Moves
        <5> QED
          BY <5>1, <5>2
      <4>3. v # 0 => v \in Vectors /\ my[t].vector # v /\ Size(v)' = Size(v)
                     /\ \A i \in 1..Size(v) : vectors'[v].slots[i] = vectors[v].slots[i]
        <5>1. v # 0 => v \in Vectors /\ my[t].vector # v
          <6>1. pc[u] # "count" => pc[u] \in Copying \/ (pc[u] = "error" /\ owner = u)
            BY <3>2, HandIs DEF Rehasher, HandAt, Owning, Copying
          <6> QED
            BY <1>5, <4>1, <6>1 DEF CopyAt, Holds
        <5> QED
          BY <1>3, <1>6, <5>1 DEF After
      <4>4. Size(vector)' = Size(vector) /\ Size(copy.to)' = Len(vectors'[v].slots)
        BY <1>3, <1>6 DEF After, Size
      <4>5. v # 0 => Used(copy.to)' = Used(copy.to)
        BY <1>3, <4>3 DEF Used, Size, KeyAt
      <4>6. /\ copy'.to = copy.to /\ copy'.index = copy.index /\ copy'.carry = copy.carry
            /\ copy'.full = copy.full /\ copy'.room = copy.room /\ owner' = owner
            /\ vector' = vector /\ pc'[u] = pc[u]
        BY <1>3, <4>1
      <4>7. pc[u] \in Copying \/ (pc[u] = "error" /\ owner = u) =>
              copy.to \in Vectors \ {vector} /\ \A x \in Threads : ~Holds(x, copy.to)'
        BY <4>1, <4>2, <4>6, ConstantTypes DEF CopyAt, Holds
      <4>8. pc[u] \in Copying => v # 0
        BY <4>1, ConstantTypes DEF CopyAt
      <4>9. \A i \in 1..Size(vector) : ValueAt(vector, i) = Rehashing => ValueAt(vector, i)' = Rehashing
        BY <1>5, <1>6, <1>10, <4>6 DEF ValueAt
      <4>10. pc[u] \in Copying =>
               /\ Size(copy.to)' = Size(copy.to)
               /\ Used(copy.to)' = Used(copy.to)
               /\ \A i \in 1..Size(copy.to) : KeyAt(copy.to, i)' = KeyAt(copy.to, i)
                                             /\ ValueAt(copy.to, i)' = ValueAt(copy.to, i)
        BY <4>3, <4>4, <4>5, <4>6, <4>8 DEF KeyAt, ValueAt
      <4> HIDE DEF v
      <4>11. pc[u] \in Copying =>
               /\ (copy.index \in 1..Size(vector) + 1)'
               /\ (Size(copy.to) = copy.full + Slack)'
               /\ (copy.full = Cardinality(Used(copy.to)) + copy.room /\ copy.room > 0)'
        BY <4>1, <4>4, <4>6, <4>10 DEF CopyAt
      <4>12. pc[u] \in Copying =>
               /\ \A i \in 1..copy.index - 1 : ValueAt(vector, i)' = Rehashing
               /\ \A i \in Used(copy.to) :
                      KeyAt(copy.to, i)' \in Keys /\ ValueAt(copy.to, i)' \in Values
        <5> SUFFICES ASSUME pc[u] \in Copying
                     PROVE  /\ \A i \in 1..copy.index - 1 : ValueAt(vector, i)' = Rehashing
                            /\ \A i \in Used(copy.to) :
                                  KeyAt(copy.to, i)' \in Keys /\ ValueAt(copy.to, i)' \in Values
          OBVIOUS
        <5>1. copy.index \in 1..Size(vector) + 1 /\ Size(vector) \in Nat
          BY <4>1, <1>5, HandIs DEF CopyAt, Structure, Shape, Tables, Size
        <5>2. \A i \in 1..copy.index - 1 : i \in 1..Size(vector) /\ ValueAt(vector, i) = Rehashing
          BY <4>1, <5>1 DEF CopyAt
        <5>3. \A i \in Used(copy.to) : i \in 1..Size(copy.to)
                  /\ KeyAt(copy.to, i) \in Keys /\ ValueAt(copy.to, i) \in Values
          BY <4>1 DEF CopyAt, Used
        <5> QED
          BY <4>9, <4>10, <5>2, <5>3
      <4>13. pc[u] = "place" =>
               /\ (copy.index \in 1..Size(vector) /\ ValueAt(vector, copy.index) = Rehashing)'
               /\ (copy.carry.key \in Keys /\ copy.carry.value \in Values)'
               /\ (copy.carry.slot \in 1..Size(copy.to))' /\ (KeyAt(copy.to, copy.carry.slot) = Free)'
        <5> SUFFICES ASSUME pc[u] = "place"
              PROVE /\ (copy.index \in 1..Size(vector) /\ ValueAt(vector, copy.index) = Rehashing)'
                    /\ (copy.carry.key \in Keys /\ copy.carry.value \in Values)'
                    /\ (copy.carry.slot \in 1..Size(copy.to))' /\ (KeyAt(copy.to, copy.carry.slot) = Free)'
          OBVIOUS
        <5>1. pc[u] \in Copying
          BY DEF Copying
        <5>2. copy.index \in 1..Size(vector) /\ ValueAt(vector, copy.index) = Rehashing
          BY <4>1 DEF CopyAt
        <5>3. ValueAt(vector, copy.index)' = Rehashing
          BY <4>9, <4>6, <5>2 DEF ValueAt
        <5>4. copy.carry.slot \in 1..Size(copy.to) /\ KeyAt(copy.to, copy.carry.slot) = Free
          BY <4>1 DEF CopyAt
        <5>5. KeyAt(copy.to, copy.carry.slot)' = Free
          BY <4>10, <4>6, <5>1, <5>4 DEF KeyAt
        <5> QED
          BY <4>1, <4>4, <4>6, <4>10, <5>1, <5>2, <5>3, <5>4, <5>5 DEF CopyAt
      <4>14. /\ pc[u] = "count" =>
                  (copy.to = 0 /\ copy.carry = NoCarry /\ copy.index \in 1..Size(vector) + 1)'
             /\ pc[u] \in {"copy", "install"} => (copy.carry = NoCarry)'
             /\ pc[u] = "install" => (copy.index = Size(vector) + 1)'
        BY <4>1, <4>4, <4>6 DEF CopyAt
      <4> QED
        BY <1>3, <4>6, <4>7, <4>11, <4>12, <4>13, <4>14, <4>10 DEF CopyAt
    <3> QED
      BY <3>1, <3>2
  <2> QED
    BY <1>2, <1>3, <2>1, <2>2 DEF CopyInv, Structure
<1> QED
  BY <1>4, <1>8, <1>9, <1>11, <1>12 DEF Structure

-----------------------------------------------------------------------------
(* What a step of an operation does: it leaves c in the thread's slot and  *)
(* adds n to its count.                                                    *)
Does(t, c, n) ==
    /\ owner # t /\ n \in Int /\ Touches(t, c) /\ Takes(t)
    /\ \E w : Written(t, w, c, n) /\ Moves(t, w)

LEMMA DoesStep ==
  ASSUME Structure, NEW t \in Threads, NEW c, NEW n, Does(t, c, n),
         (OpAt(t) /\ HandAt(t) /\ CellAt(t))'
  PROVE  Structure'
<1>1. PICK w : Written(t, w, c, n) /\ Moves(t, w)
  BY DEF Does
<1> QED
  BY <1>1, ThreadStep DEF Does

(* What the slots hold then.                                               *)
LEMMA DoesAfter ==
  ASSUME Structure, NEW t \in Threads, NEW c, NEW n, Does(t, c, n)
  PROVE  /\ \A v \in Vectors :
              \/ Gone(v)
              \/ /\ Size(v)' = Size(v) /\ (vectors[v].moved)' = vectors[v].moved
                 /\ v # my[t].vector => (vectors[v].count)' = vectors[v].count
                 /\ v = my[t].vector => (vectors[v].count)' = vectors[v].count + n
                 /\ \A i \in 1..Size(v) :
                      /\ v = my[t].vector /\ i = my[t].slot => vectors'[v].slots[i] = c
                      /\ v # my[t].vector \/ i # my[t].slot \/ c = MySlot(t) =>
                             vectors'[v].slots[i] = vectors[v].slots[i]
         /\ ~Gone(vector) /\ ~Gone(copy.to)
         /\ UNCHANGED <<vector, owner, copy, address>>
         /\ \A u \in Threads \ {t} : pc'[u] = pc[u] /\ my'[u] = my[u] /\ request'[u] = request[u]
<1>1. PICK w : Written(t, w, c, n) /\ Moves(t, w)
  BY DEF Does
<1>2. ASSUME NEW v \in Vectors, ~Gone(v)
      PROVE  /\ v # my[t].vector => (vectors[v].count)' = vectors[v].count
             /\ v = my[t].vector => (vectors[v].count)' = vectors[v].count + n
  <2>1. vectors'[v] = w[v]
    BY <1>1, <1>2 DEF Moves
  <2> QED
    BY <1>1, <1>2, <2>1 DEF Written
<1>3. ~Gone(vector) /\ ~Gone(copy.to)
  BY DEF Gone
<1>4. /\ UNCHANGED <<vector, owner, copy, address>>
      /\ \A u \in Threads \ {t} : pc'[u] = pc[u] /\ my'[u] = my[u] /\ request'[u] = request[u]
  BY <1>1 DEF Moves
<1>5. Touches(t, c) /\ n \in Int
  BY DEF Does
<1> QED
  BY <1>1, <1>2, <1>3, <1>4, <1>5, SlotsAfter

(* A step that leaves everything in the slot as it is.                     *)
LEMMA PassDoes ==
  ASSUME Structure, NEW t \in Threads, Moves(t, vectors), owner # t,
         pc'[t] \notin Mine
  PROVE  Does(t, MySlot(t), 0)
BY NothingWritten DEF Does, Touches, Takes, Structure

(* Who is about an operation does not rehash.                              *)
LEMMA NotOwner ==
  ASSUME Structure, NEW t \in Threads, pc[t] \notin Owning \cup {"error"}
  PROVE  owner # t
BY DEF Structure, ThreadInv, HandAt

(* A step that lets go of the slot.                                        *)
LEMMA EndStep ==
  ASSUME Structure, NEW t \in Threads, NEW c, NEW n, Does(t, c, n), my'[t] = NoLocals,
         \/ pc'[t] = "idle" /\ request'[t] = Idle
         \/ /\ pc'[t] \in {"rehash", "done"} /\ pc[t] # "idle" /\ request'[t] = request[t]
            /\ pc'[t] = "done" => request[t].op = "put"
  PROVE  Structure'
<1>1. owner' # t /\ NoLocals.vector = 0 /\ NoLocals.slot = 0 /\ OpAt(t)
  BY DoesAfter, HandIs DEF Does, NoLocals
<1>2. OpAt(t)'
  BY <1>1 DEF OpAt
<1>3. HandAt(t)' /\ CellAt(t)'
  BY <1>1 DEF HandAt, CellAt, AtSlot, Owning
<1> QED
  BY <1>2, <1>3, DoesStep

LEMMA RestartStep ==
  ASSUME Structure, NEW t \in Threads, Restart(t, vectors), pc[t] # "idle", owner # t
  PROVE  /\ Structure' /\ Does(t, MySlot(t), 0)
         /\ pc'[t] = "rehash" /\ my'[t] = NoLocals
         /\ UNCHANGED <<threshold, request>> /\ answer' = NoAnswer
<1>1. /\ Moves(t, vectors) /\ pc'[t] = "rehash" /\ my'[t] = NoLocals
      /\ UNCHANGED <<threshold, request>> /\ answer' = NoAnswer
  BY RestartMoves, NothingWritten DEF Structure
<1>2. Does(t, MySlot(t), 0)
  BY <1>1, PassDoes DEF Mine
<1> QED
  BY <1>1, <1>2, EndStep

LEMMA ReturnStep ==
  ASSUME Structure, NEW t \in Threads, NEW x, Return(t, vectors, x), owner # t
  PROVE  /\ Structure' /\ Does(t, MySlot(t), 0)
         /\ pc'[t] = "idle" /\ my'[t] = NoLocals /\ request'[t] = Idle
         /\ threshold' = threshold /\ answer' = [thread |-> t, value |-> x]
<1>1. /\ Moves(t, vectors) /\ pc'[t] = "idle" /\ my'[t] = NoLocals /\ request'[t] = Idle
      /\ threshold' = threshold /\ answer' = [thread |-> t, value |-> x]
  BY ReturnMoves, NothingWritten DEF Structure
<1>2. Does(t, MySlot(t), 0)
  BY <1>1, PassDoes DEF Mine
<1> QED
  BY <1>1, <1>2, EndStep

LEMMA GoOnStep ==
  ASSUME Structure, NEW t \in Threads, NEW p \in Points, GoOn(t, p), owner # t, p \notin Mine
  PROVE  /\ Does(t, MySlot(t), 0) /\ pc'[t] = p /\ vectors' = vectors
         /\ UNCHANGED <<threshold, request, my>> /\ answer' = NoAnswer
<1>1. /\ Moves(t, vectors) /\ pc'[t] = p /\ vectors' = vectors
      /\ UNCHANGED <<threshold, request, my>> /\ answer' = NoAnswer
  BY GoOnMoves
<1> QED
  BY <1>1, PassDoes

-----------------------------------------------------------------------------
(* The operations, one by one: what each does, and where it goes.          *)
Same == UNCHANGED <<threshold, request>> /\ answer' = NoAnswer

LEMMA ReadingIs ==
  ASSUME Structure, NEW k \in Keys
  PROVE  /\ Reading(k) \in Locals /\ Reading(k).vector = vector /\ Reading(k).address = address[k]
         /\ Reading(k).slot = 0
<1>1. vector \in Vectors /\ address[k] \in Int
  BY DEF Structure, Shape
<1> QED
  BY <1>1 DEF Reading, Locals, NoLocals

(* An operation begins, or begins again.                                   *)
LEMMA BeginStep ==
  ASSUME Structure, NEW t \in Threads, NEW k \in Keys, pc[t] \in {"idle", "retry"},
         my' = [my EXCEPT ![t] = Reading(k)], Goto(t, "probe"),
         UNCHANGED <<vector, vectors, threshold, owner, copy, address>>,
         request' \in [Threads -> Requests], request'[t] \in Calls(t),
         \A u \in Threads \ {t} : request'[u] = request[u]
  PROVE  /\ Structure' /\ Does(t, MySlot(t), 0) /\ pc'[t] = "probe" /\ my'[t] = Reading(k)
<1>1. /\ Reading(k) \in Locals /\ Reading(k).vector = vector /\ vector \in Vectors
  BY ReadingIs DEF Structure, Shape
<1>2. /\ pc' \in [Threads -> Points] /\ pc'[t] = "probe"
      /\ my' \in [Threads -> Locals] /\ my'[t] = Reading(k)
      /\ \A u \in Threads \ {t} : pc'[u] = pc[u] /\ my'[u] = my[u]
  BY <1>1 DEF Goto, Structure, Shape, Points
<1>3. owner # t /\ my[t].vector = 0
  BY NotOwner, HandIs DEF Owning, HandAt, AtSlot
<1>4. Moves(t, vectors)
  <2>1. ASSUME NEW v \in Vectors \ {vector, copy.to}, \A u \in Threads : my'[u].vector # v
        PROVE  vectors'[v] = Unused
    <3>1. \A u \in Threads : ~Holds(u, v)
      BY <1>2, <1>3, <2>1, ConstantTypes DEF Holds
    <3> QED
      BY <3>1 DEF Structure, HeldInv
  <2>2. threshold' \in Int /\ vectors' \in [Vectors -> Tables]
    BY DEF Structure, Shape
  <2> QED
    BY <1>1, <1>2, <2>1, <2>2 DEF Moves
<1>5. Does(t, MySlot(t), 0)
  BY <1>2, <1>3, <1>4, PassDoes DEF Mine
<1>6. request'[t] # Idle
  BY CallParts
<1>7. (OpAt(t) /\ HandAt(t) /\ CellAt(t))'
  BY <1>1, <1>2, <1>3, <1>6, ConstantTypes DEF OpAt, HandAt, CellAt, AtSlot, Owning
<1> QED
  BY <1>2, <1>5, <1>7, DoesStep

LEMMA CallIs ==
  ASSUME Structure, NEW t \in Threads, Call(t)
  PROVE  /\ Structure' /\ Does(t, MySlot(t), 0) /\ pc[t] = "idle" /\ pc'[t] = "probe"
         /\ request'[t] \in Calls(t) /\ my'[t] = Reading(request'[t].key)
         /\ threshold' = threshold /\ answer' = NoAnswer
<1>1. PICK call \in Calls(t) :
           /\ request' = [request EXCEPT ![t] = call]
           /\ my' = [my EXCEPT ![t] = Reading(call.key)]
  BY DEF Call
<1>2. /\ request' \in [Threads -> Requests] /\ request'[t] = call
      /\ \A u \in Threads \ {t} : request'[u] = request[u]
  BY <1>1 DEF Structure, Shape, Requests
<1>3. call.key \in Keys
  BY CallParts
<1>4. /\ pc[t] = "idle" /\ Goto(t, "probe") /\ answer' = NoAnswer
      /\ UNCHANGED <<vector, vectors, threshold, owner, copy, address>>
  BY DEF Call, Keep, tableVars, rehashVars
<1> QED
  BY <1>1, <1>2, <1>3, <1>4, BeginStep

LEMMA RetryIs ==
  ASSUME Structure, NEW t \in Threads, Retry(t)
  PROVE  /\ Structure' /\ Does(t, MySlot(t), 0) /\ pc[t] = "retry" /\ pc'[t] = "probe"
         /\ my'[t] = Reading(Key(t)) /\ Same
<1>1. /\ pc[t] = "retry" /\ Goto(t, "probe") /\ answer' = NoAnswer
      /\ my' = [my EXCEPT ![t] = Reading(Key(t))] /\ request' = request
      /\ UNCHANGED <<vector, vectors, threshold, owner, copy, address>>
  BY DEF Retry, Keep, tableVars, rehashVars
<1>2. request[t] # Idle
  BY <1>1, HandIs DEF OpAt
<1>3. Key(t) \in Keys /\ request[t] \in Calls(t)
  BY <1>2, Asked DEF Structure
<1>4. request' \in [Threads -> Requests]
  BY <1>1 DEF Structure, Shape
<1> QED
  BY <1>1, <1>3, <1>4, BeginStep DEF Same

(* A probe ends at a slot, or at none.                                     *)
LEMMA FoundStep ==
  ASSUME Structure, NEW t \in Threads, pc[t] = "probe", NEW a \in Int, NEW s \in 0..Size(my[t].vector),
         my' = [my EXCEPT ![t].address = a, ![t].slot = s], Goto(t, "check"),
         request[t].op # "put" /\ s # 0 => KeyAt(my[t].vector, s) = Key(t),
         Keep(<<tableVars, rehashVars, address, request, calls>>)
  PROVE  /\ Structure' /\ Does(t, MySlot(t), 0) /\ pc'[t] = "check" /\ vectors' = vectors
         /\ my'[t].vector = my[t].vector /\ my'[t].address = a /\ my'[t].slot = s /\ Same
<1>1. /\ UNCHANGED <<vector, vectors, threshold, owner, copy, address, request>> /\ answer' = NoAnswer
  BY DEF Keep, tableVars, rehashVars
<1>2. my[t] \in Locals /\ my[t].vector \in Vectors /\ owner # t /\ request[t] # Idle /\ s \in Nat
  BY HandIs, NotOwner DEF HandAt, OpAt, Owning
<1>3. /\ my' \in [Threads -> Locals] /\ my'[t].vector = my[t].vector /\ my'[t].address = a
      /\ my'[t].slot = s /\ \A u \in Threads \ {t} : my'[u] = my[u]
  <2> DEFINE x == [my[t] EXCEPT !.address = a, !.slot = s]
  <2>1. x \in Locals /\ x.vector = my[t].vector /\ x.address = a /\ x.slot = s
    BY <1>2 DEF Locals
  <2>2. my' = [my EXCEPT ![t] = x]
    OBVIOUS
  <2> HIDE DEF x
  <2> QED
    BY <2>1, <2>2 DEF Structure, Shape
<1>4. "check" \in Points /\ threshold' \in Int /\ Shape
  BY <1>1 DEF Structure, Shape, Points
<1>5. Moves(t, vectors) /\ pc'[t] = "check"
  BY <1>1, <1>3, <1>4, KeepMoves, NothingWritten
<1>6. Does(t, MySlot(t), 0)
  BY <1>2, <1>5, PassDoes DEF Mine
<1>7. (OpAt(t) /\ HandAt(t))'
  <2>1. OpAt(t) /\ HandAt(t)
    BY HandIs
  <2> QED
    BY <1>1, <1>2, <1>3, <1>5, <2>1, ConstantTypes DEF OpAt, HandAt, AtSlot, Owning, Size
<1>8. CellAt(t)'
  BY <1>1, <1>3, <1>5 DEF CellAt, KeyAt, Key
<1> QED
  BY <1>1, <1>3, <1>5, <1>6, <1>7, <1>8, DoesStep DEF Same

LEMMA FindNewIs ==
  ASSUME Structure, NEW t \in Threads, FindNew(t)
  PROVE  LET s == Probe(MyVector(t).slots, my[t].address, {Free, Key(t)}) IN
         /\ Structure' /\ Does(t, MySlot(t), 0) /\ pc[t] = "probe" /\ pc'[t] = "check"
         /\ request[t].op = "put" /\ vectors' = vectors /\ my[t].vector \in Vectors
         /\ my'[t].vector = my[t].vector /\ my'[t].address = my[t].address /\ my'[t].slot = s /\ Same
<1> DEFINE s == Probe(MyVector(t).slots, my[t].address, {Free, Key(t)})
<1>1. my[t] \in Locals /\ my[t].vector \in Vectors /\ my[t].address \in Int /\ pc[t] = "probe"
  BY HandIs DEF FindNew, HandAt
<1>2. s \in 0..Size(my[t].vector)
  <2>1. Len(MyVector(t).slots) \in Nat
    BY <1>1 DEF MyVector, Structure, Shape, Tables
  <2> QED
    BY <1>1, <2>1, ProbeIs DEF Size, MyVector
<1> HIDE DEF s
<1>3. my' = [my EXCEPT ![t].address = my[t].address, ![t].slot = s]
  <2> DEFINE x == [my[t] EXCEPT !.slot = s]
  <2> DEFINE y == [my[t] EXCEPT !.address = my[t].address, !.slot = s]
  <2>1. x = y
    BY <1>1 DEF Locals
  <2>2. my' = [my EXCEPT ![t] = x]
    BY DEF FindNew, s, WantedForPut
  <2>3. [my EXCEPT ![t] = y] = [my EXCEPT ![t].address = my[t].address, ![t].slot = s]
    OBVIOUS
  <2> QED
    BY <2>1, <2>2, <2>3
<1>4. /\ request[t].op = "put" /\ Goto(t, "check")
      /\ Keep(<<tableVars, rehashVars, address, request, calls>>)
  BY DEF FindNew
<1>5. /\ Structure' /\ Does(t, MySlot(t), 0) /\ pc'[t] = "check" /\ vectors' = vectors
      /\ my'[t].vector = my[t].vector /\ my'[t].address = my[t].address /\ my'[t].slot = s /\ Same
  BY <1>1, <1>2, <1>3, <1>4, FoundStep
<1> QED
  BY <1>1, <1>4, <1>5 DEF s

LEMMA FindIs ==
  ASSUME Structure, NEW t \in Threads, Find(t)
  PROVE  LET s == Probe(MyVector(t).slots, my[t].address, {Free, Key(t)}) IN
         /\ Structure' /\ Does(t, MySlot(t), 0) /\ pc[t] = "probe" /\ pc'[t] = "check"
         /\ request[t].op # "put" /\ vectors' = vectors /\ my[t].vector \in Vectors
         /\ my'[t].vector = my[t].vector /\ my'[t].address = 0 /\ Same
         /\ my'[t].slot = IF s # 0 /\ KeyAt(my[t].vector, s) = Key(t) THEN s ELSE 0
<1> DEFINE s == Probe(MyVector(t).slots, my[t].address, {Free, Key(t)})
<1> DEFINE f == IF s # 0 /\ KeyAt(my[t].vector, s) = Key(t) THEN s ELSE 0
<1>1. my[t] \in Locals /\ my[t].vector \in Vectors /\ my[t].address \in Int /\ pc[t] = "probe"
  BY HandIs DEF Find, HandAt
<1>2. s \in 0..Size(my[t].vector)
  <2>1. Len(MyVector(t).slots) \in Nat
    BY <1>1 DEF MyVector, Structure, Shape, Tables
  <2> QED
    BY <1>1, <2>1, ProbeIs DEF Size, MyVector
<1>3. my' = [my EXCEPT ![t].address = 0, ![t].slot = f]
  BY DEF Find, KeyAt, MyVector
<1>4. /\ request[t].op # "put" /\ Goto(t, "check")
      /\ Keep(<<tableVars, rehashVars, address, request, calls>>)
  BY DEF Find
<1> HIDE DEF s
<1>5. f \in 0..Size(my[t].vector) /\ (f # 0 => KeyAt(my[t].vector, f) = Key(t))
  <2>1. Size(my[t].vector) \in Nat
    BY <1>1 DEF Size, Structure, Shape, Tables
  <2> QED
    BY <1>2, <2>1
<1> HIDE DEF f
<1>6. /\ Structure' /\ Does(t, MySlot(t), 0) /\ pc'[t] = "check" /\ vectors' = vectors
      /\ my'[t].vector = my[t].vector /\ my'[t].address = 0 /\ my'[t].slot = f /\ Same
  <2>1. 0 \in Int
    OBVIOUS
  <2> QED
    BY <1>1, <1>3, <1>4, <1>5, <2>1, FoundStep
<1> QED
  BY <1>1, <1>4, <1>6 DEF s, f

-----------------------------------------------------------------------------
(* A step to a slot that was found already, which it leaves as it is.      *)
LEMMA HoldStep ==
  ASSUME Structure, NEW t \in Threads, pc[t] \in {"check", "value"}, NEW p \in {"value", "reserve", "error"},
         GoOn(t, p), p # "error" => my[t].slot # 0,
         p = "reserve" => request[t].op = "put",
         p = "value" => KeyAt(my[t].vector, my[t].slot) # Free
  PROVE  /\ Structure' /\ Does(t, MySlot(t), 0) /\ pc'[t] = p /\ vectors' = vectors
         /\ my' = my /\ Same
<1>1. owner # t /\ OpAt(t) /\ HandAt(t) /\ CellAt(t) /\ p \in Points /\ p \notin Mine
  BY NotOwner, HandIs DEF Owning, Points, Mine
<1>2. /\ Does(t, MySlot(t), 0) /\ pc'[t] = p /\ vectors' = vectors
      /\ UNCHANGED <<threshold, request, my>> /\ answer' = NoAnswer
  BY <1>1, GoOnStep
<1>3. owner' = owner
  BY <1>2, DoesAfter
<1>4. OpAt(t)'
  BY <1>1, <1>2 DEF OpAt
<1>5. my[t].vector # 0 /\ (p # "error" => my[t].slot \in 1..Size(my[t].vector))
  BY <1>1 DEF HandAt, AtSlot
<1>6. HandAt(t)'
  BY <1>1, <1>2, <1>3, <1>5 DEF HandAt, AtSlot, Owning, Size
<1>7. CellAt(t)'
  BY <1>1, <1>2, <1>5 DEF CellAt, KeyAt, Key
<1> QED
  BY <1>2, <1>4, <1>6, <1>7, DoesStep DEF Same

LEMMA CheckFoundIs ==
  ASSUME Structure, NEW t \in Threads, CheckFound(t)
  PROVE  /\ Structure' /\ Does(t, MySlot(t), 0) /\ pc[t] = "check" /\ request[t].op # "put"
         /\ threshold' = threshold
         /\ \/ pc'[t] = "rehash" /\ my'[t] = NoLocals /\ Same
            \/ /\ pc'[t] = "value" /\ my' = my /\ vectors' = vectors /\ Same
               /\ my[t].vector = vector /\ my[t].slot # 0
            \/ /\ pc'[t] = "idle" /\ my'[t] = NoLocals /\ request'[t] = Idle
               /\ my[t].vector = vector /\ my[t].slot = 0 /\ ~vectors[vector].moved
               /\ answer' = [thread |-> t, value |-> None]
<1>1. pc[t] = "check" /\ request[t].op # "put" /\ owner # t /\ CellAt(t)
  BY NotOwner, HandIs DEF CheckFound, Owning
<1>2. CASE Restart(t, vectors)
  BY <1>1, <1>2, RestartStep DEF Same
<1>3. CASE ~VectorReplaced(t) /\ my[t].slot # 0 /\ GoOn(t, "value")
  <2>1. KeyAt(my[t].vector, my[t].slot) # Free
    <3>1. request[t] # Idle
      BY <1>1, HandIs DEF OpAt
    <3>2. Key(t) \in Keys
      BY <3>1, Asked DEF Structure
    <3> QED
      BY <1>1, <1>3, <3>2, KeysAssumption DEF CellAt
  <2>2. "value" \in {"value", "reserve", "error"}
    OBVIOUS
  <2> QED
    BY <1>1, <1>3, <2>1, <2>2, HoldStep DEF VectorReplaced, Same
<1>4. CASE ~VectorReplaced(t) /\ my[t].slot = 0 /\ ~KeysMoved(t) /\ Return(t, vectors, None)
  BY <1>1, <1>4, ReturnStep DEF VectorReplaced, KeysMoved, MyVector
<1> QED
  BY <1>2, <1>3, <1>4 DEF CheckFound

LEMMA CheckForPutIs ==
  ASSUME Structure, NEW t \in Threads, CheckForPut(t)
  PROVE  /\ Structure' /\ Does(t, MySlot(t), 0) /\ pc[t] = "check" /\ request[t].op = "put" /\ Same
         /\ \/ pc'[t] = "error" /\ my' = my /\ vectors' = vectors
            \/ pc'[t] = "rehash" /\ my'[t] = NoLocals
            \/ /\ pc'[t] = "value" /\ my' = my /\ vectors' = vectors /\ my[t].slot # 0
               /\ my[t].vector = vector
            \/ /\ pc'[t] = "reserve" /\ my' = my /\ vectors' = vectors /\ my[t].slot # 0
               /\ my[t].vector = vector /\ ~vectors[vector].moved
               /\ KeyAt(my[t].vector, my[t].slot) = Free /\ threshold > 0
<1>1. pc[t] = "check" /\ request[t].op = "put" /\ owner # t
  BY NotOwner DEF CheckForPut, Owning
<1>2. CASE GoOn(t, "error")
  BY <1>1, <1>2, HoldStep
<1>3. CASE Restart(t, vectors)
  BY <1>1, <1>3, RestartStep DEF Same
<1>4. CASE my[t].slot # 0 /\ ~VectorReplaced(t) /\ MySlot(t).key # Free /\ GoOn(t, "value")
  <2>1. KeyAt(my[t].vector, my[t].slot) # Free
    BY <1>4 DEF KeyAt, MySlot, MyVector
  <2> QED
    BY <1>1, <1>4, <2>1, HoldStep DEF VectorReplaced
<1>5. CASE /\ my[t].slot # 0 /\ ~VectorReplaced(t) /\ MySlot(t).key = Free
           /\ ~KeysMoved(t) /\ HasRoom(t) /\ GoOn(t, "reserve")
  <2>1. KeyAt(my[t].vector, my[t].slot) = Free
    BY <1>5 DEF KeyAt, MySlot, MyVector
  <2> QED
    BY <1>1, <1>5, <2>1, HoldStep DEF VectorReplaced, KeysMoved, HasRoom, MyVector
<1> QED
  BY <1>2, <1>3, <1>4, <1>5 DEF CheckForPut

LEMMA GetValueIs ==
  ASSUME Structure, NEW t \in Threads, GetValue(t)
  PROVE  LET value == MySlot(t).value IN
         /\ Structure' /\ Does(t, MySlot(t), 0) /\ pc[t] = "value" /\ request[t].op = "get"
         /\ my'[t] = NoLocals /\ threshold' = threshold
         /\ \/ pc'[t] = "rehash" /\ Same
            \/ /\ pc'[t] = "idle" /\ request'[t] = Idle
               /\ answer' = [thread |-> t, value |-> IF value \in {Deleted, Free} THEN None ELSE value]
               /\ value # Rehashing
<1>1. pc[t] = "value" /\ request[t].op = "get" /\ owner # t
  BY NotOwner DEF GetValue, Owning
<1>2. CASE Restart(t, vectors)
  BY <1>1, <1>2, RestartStep DEF Same
<1>3. ASSUME NEW x, Return(t, vectors, x), MySlot(t).value # Rehashing,
             x = IF MySlot(t).value \in {Deleted, Free} THEN None ELSE MySlot(t).value
      PROVE  /\ Structure' /\ Does(t, MySlot(t), 0) /\ my'[t] = NoLocals /\ threshold' = threshold
             /\ pc'[t] = "idle" /\ request'[t] = Idle /\ answer' = [thread |-> t, value |-> x]
  BY <1>1, <1>3, ReturnStep
<1> QED
  BY <1>1, <1>2, <1>3 DEF GetValue

(* The value in the slot is kept for the store.                            *)
LEMMA KeepOldStep ==
  ASSUME Structure, NEW t \in Threads, pc[t] = "value", request[t].op \in {"put", "rem"},
         MySlot(t).value \notin {Free, Deleted, Rehashing}, KeepOld(t)
  PROVE  /\ Structure' /\ Does(t, MySlot(t), 0) /\ pc'[t] = "swap" /\ vectors' = vectors
         /\ my'[t].vector = my[t].vector /\ my'[t].slot = my[t].slot
         /\ my'[t].old = MySlot(t).value /\ MySlot(t).value \in Values /\ Same
<1> DEFINE val == MySlot(t).value
<1> DEFINE x == [my[t] EXCEPT !.address = 0, !.old = val]
<1>1. /\ UNCHANGED <<vector, vectors, threshold, owner, copy, address, request>> /\ answer' = NoAnswer
      /\ Goto(t, "swap") /\ my' = [my EXCEPT ![t] = x]
  BY DEF KeepOld, Keep, tableVars, rehashVars
<1>2. /\ owner # t /\ my[t] \in Locals /\ my[t].vector \in Vectors
      /\ OpAt(t) /\ HandAt(t) /\ CellAt(t) /\ my[t].slot \in 1..Size(my[t].vector)
  BY NotOwner, HandIs DEF Owning, HandAt, AtSlot
<1>3. val \in Values
  <2>1. MySlot(t) \in Cells
    BY <1>2, StoresAre DEF Structure
  <2> QED
    BY <2>1 DEF Cells
<1> HIDE DEF val
<1>4. /\ x \in Locals /\ x.vector = my[t].vector /\ x.slot = my[t].slot /\ x.old = val
  <2> DEFINE y == [my[t] EXCEPT !.address = 0]
  <2>1. y \in Locals /\ y.vector = my[t].vector /\ y.slot = my[t].slot
    BY <1>2 DEF Locals
  <2>2. x = [y EXCEPT !.old = val]
    OBVIOUS
  <2> HIDE DEF y, x
  <2>3. x \in Locals /\ x.vector = y.vector /\ x.slot = y.slot
    BY <1>3, <2>1, <2>2 DEF Locals
  <2>4. x.old = val
    BY <2>1, <2>2 DEF Locals
  <2> QED
    BY <2>1, <2>3, <2>4
<1> HIDE DEF x
<1>5. /\ my' \in [Threads -> Locals] /\ my'[t] = x /\ \A u \in Threads \ {t} : my'[u] = my[u]
  BY <1>1, <1>4 DEF Structure, Shape
<1>6. Moves(t, vectors) /\ pc'[t] = "swap"
  <2>1. "swap" \in Points /\ threshold' \in Int /\ Shape /\ my'[t].vector = my[t].vector
    BY <1>1, <1>4, <1>5 DEF Structure, Shape, Points
  <2> QED
    BY <1>1, <1>5, <2>1, KeepMoves, NothingWritten
<1>7. Does(t, MySlot(t), 0)
  BY <1>2, <1>6, PassDoes DEF Mine
<1>8. (OpAt(t) /\ HandAt(t))'
  <2>1. my[t].vector # 0
    BY <1>2, ConstantTypes
  <2> QED
    BY <1>1, <1>2, <1>3, <1>4, <1>5, <1>6, <2>1 DEF OpAt, HandAt, AtSlot, Owning, Size
<1>9. CellAt(t)'
  BY <1>1, <1>2, <1>4, <1>5, <1>6 DEF CellAt, KeyAt, Key
<1> QED
  BY <1>1, <1>3, <1>4, <1>5, <1>6, <1>7, <1>8, <1>9, DoesStep DEF Same, val

LEMMA RemoveValueIs ==
  ASSUME Structure, NEW t \in Threads, RemoveValue(t)
  PROVE  /\ Structure' /\ Does(t, MySlot(t), 0) /\ pc[t] = "value" /\ request[t].op = "rem"
         /\ threshold' = threshold
         /\ \/ pc'[t] = "rehash" /\ my'[t] = NoLocals /\ Same
            \/ /\ pc'[t] = "idle" /\ my'[t] = NoLocals /\ request'[t] = Idle
               /\ MySlot(t).value \in {Deleted, Free} \/ MySlot(t).key = Deleted
               /\ MySlot(t).value # Rehashing
               /\ answer' = [thread |-> t, value |-> None]
            \/ /\ pc'[t] = "swap" /\ my'[t].vector = my[t].vector /\ my'[t].slot = my[t].slot
               /\ my'[t].old \in Values /\ my'[t].old = MySlot(t).value /\ vectors' = vectors
               /\ MySlot(t).key # Deleted /\ Same
<1>1. pc[t] = "value" /\ request[t].op = "rem" /\ owner # t
  BY NotOwner DEF RemoveValue, Owning
<1>2. CASE Restart(t, vectors)
  BY <1>1, <1>2, RestartStep DEF Same
<1>3. CASE /\ Return(t, vectors, None) /\ MySlot(t).value # Rehashing
           /\ MySlot(t).value \in {Deleted, Free} \/ MySlot(t).key = Deleted
  BY <1>1, <1>3, ReturnStep
<1>4. CASE /\ MySlot(t).value \notin {Free, Deleted, Rehashing} /\ KeepOld(t)
           /\ ~(MySlot(t).value \in Values /\ MySlot(t).key = Deleted)
  <2>1. /\ Structure' /\ Does(t, MySlot(t), 0) /\ pc'[t] = "swap" /\ vectors' = vectors
        /\ my'[t].vector = my[t].vector /\ my'[t].slot = my[t].slot
        /\ my'[t].old = MySlot(t).value /\ MySlot(t).value \in Values /\ Same
    BY <1>1, <1>4, KeepOldStep
  <2> QED
    BY <1>1, <1>4, <2>1 DEF Same
<1>5. MySlot(t).value \in Values => MySlot(t).value # Rehashing
  BY KeysAssumption
<1> QED
  BY <1>2, <1>3, <1>4, <1>5, KeysAssumption DEF RemoveValue

LEMMA PutValueIs ==
  ASSUME Structure, NEW t \in Threads, PutValue(t)
  PROVE  /\ Structure' /\ Does(t, MySlot(t), 0) /\ pc[t] = "value" /\ request[t].op = "put" /\ Same
         /\ \/ pc'[t] = "rehash" /\ my'[t] = NoLocals
            \/ /\ pc'[t] = "swap" /\ my'[t].vector = my[t].vector /\ my'[t].slot = my[t].slot
               /\ my'[t].old \in Values /\ my'[t].old = MySlot(t).value /\ vectors' = vectors
<1>1. pc[t] = "value" /\ request[t].op = "put" /\ owner # t
  BY NotOwner DEF PutValue, Owning
<1>2. CASE Restart(t, vectors)
  BY <1>1, <1>2, RestartStep DEF Same
<1>3. CASE MySlot(t).value \notin {Free, Deleted, Rehashing} /\ KeepOld(t)
  <2>1. /\ Structure' /\ Does(t, MySlot(t), 0) /\ pc'[t] = "swap" /\ vectors' = vectors
        /\ my'[t].vector = my[t].vector /\ my'[t].slot = my[t].slot
        /\ my'[t].old = MySlot(t).value /\ MySlot(t).value \in Values /\ Same
    BY <1>1, <1>3, KeepOldStep
  <2> QED
    BY <1>1, <2>1
<1> QED
  BY <1>2, <1>3 DEF PutValue

-----------------------------------------------------------------------------
LEMMA SlotParts == \A k, x : Slot(k, x).key = k /\ Slot(k, x).value = x
BY DEF Slot

(* What is in the hands of who has a slot.                                 *)
LEMMA InHand ==
  ASSUME Structure, NEW t \in Threads, pc[t] \in AtSlot
  PROVE  LET d == MySlot(t) IN
         /\ my[t].vector \in Vectors /\ my[t].slot \in 1..Size(my[t].vector)
         /\ owner # t /\ request[t] # Idle /\ Key(t) \in Keys /\ d \in Cells
         /\ d.key = KeyAt(my[t].vector, my[t].slot) /\ d.value = ValueAt(my[t].vector, my[t].slot)
         /\ d.key = Free => d.value \in {Free, Rehashing}
         /\ d.key = Deleted => d.value \notin Values
<1>1. OpAt(t) /\ HandAt(t) /\ my[t].vector # 0 => my[t].vector \in Vectors
  BY HandIs
<1>2. my[t].vector \in Vectors /\ my[t].slot \in 1..Size(my[t].vector) /\ request[t] # Idle
  BY HandIs DEF HandAt, OpAt, AtSlot
<1>3. owner # t
  BY NotOwner DEF AtSlot, Owning
<1>4. Key(t) \in Keys /\ MySlot(t) \in Cells
  BY <1>2, Asked, StoresAre DEF Structure
<1> QED
  BY <1>2, <1>3, <1>4 DEF KeyAt, ValueAt, MySlot, MyVector, Structure, SlotInv

(* A store to the slot in hand, after which the thread still has it.       *)
LEMMA StoreStep ==
  ASSUME Structure, NEW t \in Threads, pc[t] \in AtSlot,
         NEW w, NEW c \in Cells, NEW n \in Int, Written(t, w, c, n), Touches(t, c),
         NEW p \in Points, Store(t, w, p),
         p \in Mine => pc[t] \in Mine \/ MySlot(t).value \in Values \/ MySlot(t).key = Free
  PROVE  /\ Does(t, c, n) /\ pc'[t] = p /\ my' = my /\ Same
         /\ MySlot(t)' = c /\ Size(my[t].vector)' = Size(my[t].vector)
<1>1. /\ Moves(t, w) /\ pc'[t] = p /\ vectors' = w
      /\ UNCHANGED <<threshold, request, my>> /\ answer' = NoAnswer
  BY StoreMoves
<1>2. my[t].vector \in Vectors /\ my[t].slot \in 1..Size(my[t].vector) /\ owner # t
  BY InHand
<1>3. Takes(t)
  BY <1>1, <1>2 DEF Takes
<1>4. MySlot(t)' = c /\ Size(my[t].vector)' = Size(my[t].vector)
  BY <1>1, <1>2 DEF Written, MySlot, MyVector, Size
<1> QED
  BY <1>1, <1>2, <1>3, <1>4 DEF Does, Same

LEMMA SwapValueIs ==
  ASSUME Structure, NEW t \in Threads, SwapValue(t)
  PROVE  LET d == MySlot(t) IN
         /\ Structure' /\ pc[t] = "swap" /\ Same
         /\ \/ Does(t, d, 0) /\ pc'[t] = "rehash" /\ my'[t] = NoLocals
            \/ /\ d.value \in Values /\ request[t].op = "rem"
               /\ Does(t, Slot(d.key, Deleted), 0) /\ pc'[t] = "decrement" /\ my' = my
            \/ /\ d.value \in Values /\ request[t].op = "put"
               /\ Does(t, Slot(d.key, request[t].value), 0) /\ pc'[t] = "done" /\ my'[t] = NoLocals
<1> DEFINE d == MySlot(t)
<1>1. pc[t] = "swap" /\ pc[t] \in AtSlot
  BY DEF SwapValue, AtSlot
<1>2. /\ my[t].vector \in Vectors /\ my[t].slot \in 1..Size(my[t].vector)
      /\ owner # t /\ request[t] # Idle /\ Key(t) \in Keys /\ d \in Cells
      /\ d.key = KeyAt(my[t].vector, my[t].slot) /\ d.value = ValueAt(my[t].vector, my[t].slot)
      /\ d.key = Free => d.value \in {Free, Rehashing}
      /\ d.key = Deleted => d.value \notin Values
  BY <1>1, InHand
<1>3. OpAt(t) /\ HandAt(t) /\ CellAt(t) /\ my[t].old \in Values /\ request[t].op \in {"put", "rem"}
  BY <1>1, HandIs DEF OpAt
<1>4. d.key # Free
  BY <1>1, <1>2, <1>3 DEF CellAt
<1>5. CASE Restart(t, vectors)
  <2>1. Structure' /\ Does(t, MySlot(t), 0) /\ pc'[t] = "rehash" /\ my'[t] = NoLocals /\ Same
    BY <1>1, <1>2, <1>5, RestartStep DEF Same
  <2> QED
    BY <1>1, <2>1, Zenon
<1>6. CASE d.value = my[t].old /\ request[t].op = "rem" /\ Store(t, WithValue(t, Deleted), "decrement")
  <2> DEFINE c == Slot(d.key, Deleted)
  <2>1. Written(t, WithValue(t, Deleted), c, 0)
    BY <1>2, StoresAre DEF Structure
  <2>2. c \in Cells /\ c.key = d.key /\ c.value = Deleted
    BY <1>2, CellParts
  <2>3. d.value \in Values /\ Deleted \notin Values /\ Rehashing \notin Values
    BY <1>3, <1>6, KeysAssumption
  <2> HIDE DEF c
  <2>4. Touches(t, c)
    BY <1>2, <1>4, <2>2, <2>3 DEF Touches
  <2>5. /\ Does(t, c, 0) /\ pc'[t] = "decrement" /\ my' = my /\ Same
        /\ MySlot(t)' = c /\ Size(my[t].vector)' = Size(my[t].vector)
    BY <1>1, <1>6, <2>1, <2>2, <2>3, <2>4, StoreStep DEF Points
  <2>6. owner' = owner
    BY <2>5, DoesAfter
  <2>7. OpAt(t)'
    BY <1>3, <1>6, <1>1, <2>5 DEF OpAt, Same
  <2>8. HandAt(t)'
    BY <1>1, <1>2, <1>3, <2>5, <2>6 DEF HandAt, AtSlot, Owning
  <2>9. CellAt(t)'
    <3>1. d.key = Key(t)
      BY <1>1, <1>2, <1>3, <1>6, <2>3 DEF CellAt
    <3>2. Key(t)' = Key(t) /\ (KeyAt(my[t].vector, my[t].slot) = MySlot(t).key)'
          /\ (ValueAt(my[t].vector, my[t].slot) = MySlot(t).value)'
      BY <2>5 DEF Same, Key, KeyAt, ValueAt, MySlot, MyVector
    <3> QED
      BY <2>2, <2>5, <3>1, <3>2 DEF CellAt
  <2> QED
    BY <1>1, <1>6, <2>3, <2>5, <2>7, <2>8, <2>9, DoesStep DEF c
<1>7. CASE /\ d.value = my[t].old /\ request[t].op # "rem"
           /\ LetGo(t, WithValue(t, request[t].value), "done")
           /\ Keep(<<vector, threshold, rehashVars, address, request, calls>>)
  <2> DEFINE x == request[t].value
  <2> DEFINE c == Slot(d.key, x)
  <2>0. request[t].op = "put" /\ x \in Values
    BY <1>2, <1>3, <1>7, Asked DEF Structure
  <2>1. Written(t, WithValue(t, x), c, 0)
    BY <1>2, <2>0, StoresAre DEF Structure
  <2>2. c \in Cells /\ c.key = d.key /\ c.value = x
    BY <1>2, <2>0, CellParts
  <2>3. d.value \in Values /\ Deleted \notin Values /\ Rehashing \notin Values
    BY <1>3, <1>7, KeysAssumption
  <2>4. Touches(t, c)
    <3> HIDE DEF c
    <3> QED
      BY <1>2, <1>4, <2>2, <2>3 DEF Touches
  <2>5. Moves(t, WithValue(t, x)) /\ pc'[t] = "done" /\ my'[t] = NoLocals /\ Same
    <3>1. UNCHANGED <<vector, threshold, owner, copy, address, request>> /\ answer' = NoAnswer
      BY <1>7 DEF Keep, rehashVars
    <3>2. /\ request' \in [Threads -> Requests] /\ request'[t] \in {Idle} \cup Calls(t)
          /\ threshold' \in Int /\ "done" \in Points
      BY <3>1 DEF Structure, Shape, Points
    <3> HIDE DEF c
    <3> QED
      BY <1>7, <2>1, <3>1, <3>2, LetGoMoves DEF Same
  <2>6. Does(t, c, 0)
    BY <1>2, <2>1, <2>4, <2>5 DEF Does, Takes, Mine
  <2>7. Structure'
    <3> HIDE DEF c
    <3> QED
      BY <1>1, <2>0, <2>5, <2>6, EndStep DEF Same
  <2> QED
    BY <1>1, <2>0, <2>3, <2>5, <2>6, <2>7
<1> QED
  BY <1>1, <1>5, <1>6, <1>7 DEF SwapValue, StillHolds

LEMMA DoneIs ==
  ASSUME Structure, NEW t \in Threads, Done(t)
  PROVE  /\ Structure' /\ Does(t, MySlot(t), 0) /\ pc[t] = "done" /\ pc'[t] = "idle"
         /\ my'[t] = NoLocals /\ request'[t] = Idle /\ request[t].op = "put"
         /\ threshold' = threshold /\ answer' = [thread |-> t, value |-> "done"]
<1>1. pc[t] = "done" /\ owner # t /\ OpAt(t) /\ Return(t, vectors, "done")
  BY NotOwner, HandIs DEF Done, Owning
<1>2. request[t].op = "put"
  BY <1>1 DEF OpAt
<1> QED
  BY <1>1, <1>2, ReturnStep

LEMMA CountRemovedIs ==
  ASSUME Structure, NEW t \in Threads, CountRemoved(t)
  PROVE  /\ Structure' /\ Does(t, MySlot(t), -1) /\ pc[t] = "decrement" /\ pc'[t] = "clear"
         /\ my' = my /\ Same
<1>1. pc[t] = "decrement" /\ pc[t] \in AtSlot /\ pc[t] \in Mine /\ Store(t, WithCount(t, -1), "clear")
  BY DEF CountRemoved, AtSlot, Mine
<1>2. /\ my[t].vector \in Vectors /\ my[t].slot \in 1..Size(my[t].vector)
      /\ owner # t /\ MySlot(t) \in Cells /\ OpAt(t) /\ HandAt(t) /\ CellAt(t)
  BY <1>1, InHand, HandIs
<1>3. -1 \in Int /\ Written(t, WithCount(t, -1), MySlot(t), -1) /\ Touches(t, MySlot(t))
  BY <1>2, CountWritten DEF Touches, Structure
<1>4. /\ Does(t, MySlot(t), -1) /\ pc'[t] = "clear" /\ my' = my /\ Same
      /\ MySlot(t)' = MySlot(t) /\ Size(my[t].vector)' = Size(my[t].vector)
  BY <1>1, <1>2, <1>3, StoreStep DEF Points
<1>5. owner' = owner
  BY <1>4, DoesAfter
<1>6. OpAt(t)' /\ HandAt(t)'
  BY <1>1, <1>2, <1>4, <1>5 DEF OpAt, HandAt, AtSlot, Owning, Same
<1>7. CellAt(t)'
  BY <1>1, <1>2, <1>4 DEF CellAt, Same, Key, KeyAt, ValueAt, MySlot, MyVector
<1> QED
  BY <1>1, <1>4, <1>6, <1>7, DoesStep

LEMMA ClearKeyIs ==
  ASSUME Structure, NEW t \in Threads, ClearKey(t)
  PROVE  /\ Structure' /\ Does(t, Slot(Deleted, MySlot(t).value), 0) /\ pc[t] = "clear"
         /\ pc'[t] = "idle" /\ my'[t] = NoLocals /\ request'[t] = Idle /\ request[t].op = "rem"
         /\ MySlot(t).key = Key(t) /\ MySlot(t).value \in {Deleted, Rehashing}
         /\ threshold' = threshold /\ answer' = [thread |-> t, value |-> "done"]
<1> DEFINE d == MySlot(t)
<1> DEFINE c == Slot(Deleted, d.value)
<1>1. pc[t] = "clear" /\ pc[t] \in AtSlot /\ pc[t] \in Mine /\ Return(t, WithKey(t, Deleted), "done")
  BY DEF ClearKey, AtSlot, Mine
<1>2. /\ my[t].vector \in Vectors /\ my[t].slot \in 1..Size(my[t].vector)
      /\ owner # t /\ d \in Cells /\ OpAt(t) /\ CellAt(t)
      /\ d.key = KeyAt(my[t].vector, my[t].slot) /\ d.value = ValueAt(my[t].vector, my[t].slot)
  BY <1>1, InHand, HandIs
<1>3. d.key = Key(t) /\ d.value \in {Deleted, Rehashing} /\ request[t].op = "rem"
  BY <1>1, <1>2 DEF CellAt, OpAt
<1>4. Written(t, WithKey(t, Deleted), c, 0) /\ c \in Cells /\ c.key = Deleted /\ c.value = d.value
  BY <1>2, StoresAre, CellParts DEF Structure
<1> HIDE DEF c
<1>5. Touches(t, c)
  BY <1>1, <1>2, <1>3, <1>4, KeysAssumption DEF Touches
<1>6. /\ Moves(t, WithKey(t, Deleted)) /\ pc'[t] = "idle" /\ my'[t] = NoLocals /\ request'[t] = Idle
      /\ threshold' = threshold /\ answer' = [thread |-> t, value |-> "done"]
  BY <1>1, <1>4, ReturnMoves
<1>7. Does(t, c, 0)
  BY <1>2, <1>4, <1>5, <1>6 DEF Does, Takes, Mine
<1>8. Structure'
  BY <1>6, <1>7, EndStep
<1> QED
  BY <1>1, <1>3, <1>6, <1>7, <1>8 DEF c

LEMMA ReserveIs ==
  ASSUME Structure, NEW t \in Threads, Reserve(t)
  PROVE  /\ Structure' /\ Does(t, MySlot(t), 0) /\ pc[t] = "reserve" /\ pc'[t] = "claim"
         /\ my' = my /\ request' = request /\ vectors' = vectors /\ threshold' = threshold - 1
         /\ answer' = NoAnswer
<1>1. /\ pc[t] = "reserve" /\ pc[t] \in AtSlot /\ Goto(t, "claim") /\ threshold' = threshold - 1
      /\ UNCHANGED <<vector, vectors, owner, copy, address, request, my>> /\ answer' = NoAnswer
  BY DEF Reserve, Keep, rehashVars, AtSlot
<1>2. /\ owner # t /\ OpAt(t) /\ HandAt(t) /\ my[t].slot \in 1..Size(my[t].vector)
      /\ my[t].vector # 0 /\ my' \in [Threads -> Locals] /\ threshold' \in Int /\ "claim" \in Points
  BY <1>1, InHand, HandIs, ConstantTypes DEF Structure, Shape, Points
<1>3. Moves(t, vectors) /\ pc'[t] = "claim"
  BY <1>1, <1>2, KeepMoves, NothingWritten DEF Structure
<1>4. Does(t, MySlot(t), 0)
  BY <1>2, <1>3, PassDoes DEF Mine
<1>5. (OpAt(t) /\ HandAt(t) /\ CellAt(t))'
  BY <1>1, <1>2, <1>3 DEF OpAt, HandAt, CellAt, AtSlot, Owning, Size
<1> QED
  BY <1>1, <1>3, <1>4, <1>5, DoesStep

LEMMA ClaimKeyIs ==
  ASSUME Structure, NEW t \in Threads, ClaimKey(t)
  PROVE  LET d == MySlot(t) IN
         /\ Structure' /\ pc[t] = "claim" /\ request[t].op = "put" /\ Same
         /\ \/ Does(t, d, 0) /\ pc'[t] = "rehash" /\ my'[t] = NoLocals /\ d.key # Free
            \/ /\ d.key = Free /\ d.value \in {Free, Rehashing}
               /\ Does(t, Slot(Key(t), d.value), 0) /\ pc'[t] = "store" /\ my' = my
<1> DEFINE d == MySlot(t)
<1> DEFINE c == Slot(Key(t), d.value)
<1>1. pc[t] = "claim" /\ pc[t] \in AtSlot
  BY DEF ClaimKey, AtSlot
<1>2. /\ my[t].vector \in Vectors /\ my[t].slot \in 1..Size(my[t].vector)
      /\ owner # t /\ request[t] # Idle /\ Key(t) \in Keys /\ d \in Cells
      /\ d.key = Free => d.value \in {Free, Rehashing}
      /\ OpAt(t) /\ HandAt(t)
  BY <1>1, InHand, HandIs
<1>3. request[t].op = "put"
  BY <1>1, <1>2 DEF OpAt
<1>4. CASE Restart(t, vectors) /\ d.key # Free
  <2>1. Structure' /\ Does(t, MySlot(t), 0) /\ pc'[t] = "rehash" /\ my'[t] = NoLocals /\ Same
    BY <1>1, <1>2, <1>4, RestartStep DEF Same
  <2> QED
    BY <1>1, <1>3, <1>4, <2>1, Zenon
<1>5. CASE d.key = Free /\ Store(t, WithKey(t, Key(t)), "store")
  <2>1. Written(t, WithKey(t, Key(t)), c, 0) /\ c \in Cells /\ c.key = Key(t) /\ c.value = d.value
    BY <1>2, StoresAre, CellParts DEF Structure
  <2> HIDE DEF c
  <2>2. Touches(t, c)
    BY <1>2, <1>5, <2>1, KeysAssumption DEF Touches
  <2>3. /\ Does(t, c, 0) /\ pc'[t] = "store" /\ my' = my /\ Same
        /\ MySlot(t)' = c /\ Size(my[t].vector)' = Size(my[t].vector)
    BY <1>1, <1>5, <2>1, <2>2, StoreStep DEF Points
  <2>4. owner' = owner /\ my[t].vector # 0
    BY <1>2, <2>3, DoesAfter, ConstantTypes
  <2>5. OpAt(t)' /\ HandAt(t)'
    BY <1>1, <1>2, <1>3, <2>3, <2>4 DEF OpAt, HandAt, AtSlot, Owning, Same
  <2>6. CellAt(t)'
    <3>1. Key(t)' = Key(t) /\ (KeyAt(my[t].vector, my[t].slot) = MySlot(t).key)'
          /\ (ValueAt(my[t].vector, my[t].slot) = MySlot(t).value)'
      BY <2>3 DEF Same, Key, KeyAt, ValueAt, MySlot, MyVector
    <3> QED
      BY <1>2, <1>5, <2>1, <2>3, <3>1 DEF CellAt
  <2> QED
    BY <1>1, <1>2, <1>3, <1>5, <2>3, <2>5, <2>6, DoesStep DEF c
<1> QED
  BY <1>1, <1>4, <1>5 DEF ClaimKey

LEMMA CheckMovedIs ==
  ASSUME Structure, NEW t \in Threads, CheckMoved(t)
  PROVE  LET d == MySlot(t) IN
         /\ Structure' /\ pc[t] = "store" /\ request[t].op = "put" /\ Same
         /\ d.key = Key(t) /\ d.value \in {Free, Rehashing}
         /\ \/ /\ Does(t, d, 0) /\ pc'[t] = "fill" /\ my' = my /\ address[Key(t)] = my[t].address
               /\ vectors' = vectors
            \/ /\ Does(t, Slot(Deleted, d.value), 0) /\ pc'[t] = "rehash" /\ my'[t] = NoLocals
               /\ address[Key(t)] # my[t].address
<1> DEFINE d == MySlot(t)
<1> DEFINE c == Slot(Deleted, d.value)
<1>1. pc[t] = "store" /\ pc[t] \in AtSlot /\ pc[t] \in Mine
  BY DEF CheckMoved, AtSlot, Mine
<1>2. /\ my[t].vector \in Vectors /\ my[t].slot \in 1..Size(my[t].vector)
      /\ owner # t /\ request[t] # Idle /\ Key(t) \in Keys /\ d \in Cells
      /\ d.key = KeyAt(my[t].vector, my[t].slot) /\ d.value = ValueAt(my[t].vector, my[t].slot)
      /\ OpAt(t) /\ HandAt(t) /\ CellAt(t)
  BY <1>1, InHand, HandIs
<1>3. request[t].op = "put" /\ d.key = Key(t) /\ d.value \in {Free, Rehashing}
  BY <1>1, <1>2 DEF OpAt, CellAt
<1>4. CASE KeyStayed(t) /\ GoOn(t, "fill")
  <2>1. "fill" \in Points /\ Takes(t)
    <3>1. my' = my
      BY <1>4 DEF GoOn, Keep
    <3> QED
      BY <1>1, <1>2, <3>1 DEF Points, Takes
  <2>2. /\ Moves(t, vectors) /\ pc'[t] = "fill" /\ vectors' = vectors
        /\ UNCHANGED <<threshold, request, my>> /\ answer' = NoAnswer
    BY <1>4, <2>1, GoOnMoves
  <2>3. Does(t, d, 0) /\ owner' = owner
    BY <1>2, <2>1, <2>2, NothingWritten DEF Does, Touches, Structure, Moves
  <2>4. (OpAt(t) /\ HandAt(t) /\ CellAt(t))'
    BY <1>1, <1>2, <2>2, <2>3 DEF OpAt, HandAt, CellAt, AtSlot, Owning, Size, KeyAt, ValueAt, Key
  <2>5. Structure'
    BY <2>3, <2>4, DoesStep
  <2> HIDE DEF d
  <2>6. Structure' /\ Does(t, d, 0) /\ pc'[t] = "fill" /\ my' = my /\ address[Key(t)] = my[t].address
        /\ vectors' = vectors /\ Same
    BY <1>4, <2>2, <2>3, <2>5 DEF KeyStayed, Same
  <2> QED
    BY <1>1, <1>3, <2>6, Zenon DEF d
<1>5. CASE ~KeyStayed(t) /\ Restart(t, WithKey(t, Deleted))
  <2>1. Written(t, WithKey(t, Deleted), c, 0) /\ c \in Cells /\ c.key = Deleted /\ c.value = d.value
    BY <1>2, StoresAre, CellParts DEF Structure
  <2> HIDE DEF c
  <2>2. Touches(t, c)
    BY <1>1, <1>2, <1>3, <2>1, KeysAssumption DEF Touches
  <2>3. /\ Moves(t, WithKey(t, Deleted)) /\ pc'[t] = "rehash" /\ my'[t] = NoLocals /\ Same
    BY <1>5, <2>1, RestartMoves DEF Same
  <2>4. Does(t, c, 0)
    BY <1>2, <2>1, <2>2, <2>3 DEF Does, Takes, Mine
  <2>5. Structure'
    BY <1>1, <2>3, <2>4, EndStep DEF Same
  <2>6. address[Key(t)] # my[t].address
    BY <1>5 DEF KeyStayed
  <2> QED
    BY <1>1, <1>3, <2>3, <2>4, <2>5, <2>6, Zenon DEF c
<1> QED
  BY <1>1, <1>4, <1>5 DEF CheckMoved

LEMMA FillValueIs ==
  ASSUME Structure, NEW t \in Threads, FillValue(t)
  PROVE  LET d == MySlot(t) IN
         /\ Structure' /\ pc[t] = "fill" /\ request[t].op = "put" /\ request[t].value \in Values
         /\ d.key = Key(t) /\ Same
         /\ \/ Does(t, d, 0) /\ pc'[t] = "rehash" /\ my'[t] = NoLocals /\ d.value = Rehashing
            \/ /\ d.value = Free /\ Does(t, Slot(d.key, request[t].value), 0)
               /\ pc'[t] = "increment" /\ my' = my
<1> DEFINE d == MySlot(t)
<1> DEFINE x == request[t].value
<1> DEFINE c == Slot(d.key, x)
<1>1. pc[t] = "fill" /\ pc[t] \in AtSlot /\ pc[t] \in Mine
  BY DEF FillValue, AtSlot, Mine
<1>2. /\ my[t].vector \in Vectors /\ my[t].slot \in 1..Size(my[t].vector)
      /\ owner # t /\ request[t] # Idle /\ Key(t) \in Keys /\ d \in Cells
      /\ d.key = KeyAt(my[t].vector, my[t].slot) /\ d.value = ValueAt(my[t].vector, my[t].slot)
      /\ OpAt(t) /\ HandAt(t) /\ CellAt(t)
  BY <1>1, InHand, HandIs
<1>3. request[t].op = "put" /\ d.key = Key(t) /\ d.value \in {Free, Rehashing} /\ x \in Values
  BY <1>1, <1>2, Asked DEF OpAt, CellAt, Structure
<1>4. CASE d.value # Free /\ Restart(t, vectors)
  <2>1. Structure' /\ Does(t, MySlot(t), 0) /\ pc'[t] = "rehash" /\ my'[t] = NoLocals /\ Same
    BY <1>1, <1>2, <1>4, RestartStep DEF Same
  <2>2. d.value = Rehashing
    BY <1>3, <1>4
  <2> QED
    BY <1>1, <1>3, <2>1, <2>2, Zenon
<1>5. CASE d.value = Free /\ Store(t, WithValue(t, x), "increment")
  <2>1. Written(t, WithValue(t, x), c, 0) /\ c \in Cells /\ c.key = d.key /\ c.value = x
    BY <1>2, <1>3, StoresAre, CellParts DEF Structure
  <2> HIDE DEF c, x
  <2>2. Touches(t, c)
    BY <1>1, <1>2, <1>3, <1>5, <2>1, KeysAssumption DEF Touches
  <2>3. /\ Does(t, c, 0) /\ pc'[t] = "increment" /\ my' = my /\ Same
        /\ MySlot(t)' = c /\ Size(my[t].vector)' = Size(my[t].vector)
    <3>1. "increment" \in Points /\ "increment" \notin Mine /\ 0 \in Int
      BY DEF Points, Mine
    <3> QED
      BY <1>1, <1>5, <2>1, <2>2, <3>1, StoreStep
  <2>4. owner' = owner /\ my[t].vector # 0
    BY <1>2, <2>3, DoesAfter, ConstantTypes
  <2>5. OpAt(t)' /\ HandAt(t)' /\ CellAt(t)'
    BY <1>1, <1>2, <1>3, <2>3, <2>4 DEF OpAt, HandAt, CellAt, AtSlot, Owning, Same
  <2>6. Structure'
    BY <2>3, <2>5, DoesStep
  <2> QED
    BY <1>1, <1>3, <1>5, <2>3, <2>6, Zenon DEF c, x
<1> QED
  BY <1>1, <1>4, <1>5 DEF FillValue, StillHolds

LEMMA CountAddedIs ==
  ASSUME Structure, NEW t \in Threads, CountAdded(t)
  PROVE  /\ Structure' /\ Does(t, MySlot(t), 1) /\ pc[t] = "increment" /\ pc'[t] = "idle"
         /\ my'[t] = NoLocals /\ request'[t] = Idle /\ request[t].op = "put"
         /\ threshold' = threshold /\ answer' = [thread |-> t, value |-> "done"]
<1>1. pc[t] = "increment" /\ pc[t] \in AtSlot /\ Return(t, WithCount(t, 1), "done")
  BY DEF CountAdded, AtSlot
<1>2. my[t].vector \in Vectors /\ owner # t /\ OpAt(t)
  BY <1>1, InHand, HandIs
<1>3. 1 \in Int /\ Written(t, WithCount(t, 1), MySlot(t), 1) /\ Touches(t, MySlot(t))
  BY <1>2, CountWritten DEF Touches, Structure
<1>4. /\ Moves(t, WithCount(t, 1)) /\ pc'[t] = "idle" /\ my'[t] = NoLocals /\ request'[t] = Idle
      /\ threshold' = threshold /\ answer' = [thread |-> t, value |-> "done"]
  BY <1>1, <1>3, ReturnMoves
<1>5. Does(t, MySlot(t), 1)
  BY <1>2, <1>3, <1>4 DEF Does, Takes, Mine
<1>6. Structure'
  BY <1>4, <1>5, EndStep
<1> QED
  BY <1>1, <1>2, <1>4, <1>5, <1>6 DEF OpAt

-----------------------------------------------------------------------------
(* The steps of the thread that rehashes: the slots that somebody has in   *)
(* hand keep their keys, and their values but for the marker.              *)
LEMMA RehasherStep ==
  ASSUME Structure, NEW t \in Threads, pc[t] \in {"rehash"} \cup Owning,
         owner \in {t, None}, owner' \in {t, None},
         NEW p \in Owning \cup {"retry", "error"}, Goto(t, p),
         owner' = t <=> p \in Owning \cup {"error"},
         p \in {"decide", "retry"} => copy' = NoCopy,
         UNCHANGED <<my, request, address>>,
         vector' \in Vectors, threshold' \in Int, copy' \in Copies,
         vectors' \in [Vectors -> Tables],
         \A v \in Vectors : (\E u \in Threads : Holds(u, v)) =>
             /\ Size(v)' = Size(v)
             /\ \A i \in 1..Size(v) : /\ KeyAt(v, i)' = KeyAt(v, i)
                                      /\ ValueAt(v, i)' \in {ValueAt(v, i), Rehashing},
         \A v \in Vectors : \A i \in 1..Size(v)' :
             /\ KeyAt(v, i)' = Free => ValueAt(v, i)' \in {Free, Rehashing}
             /\ KeyAt(v, i)' = Deleted => ValueAt(v, i)' \notin Values,
         HeldInv', CopyAt(t)'
  PROVE  Structure'
<1>1. /\ pc' \in [Threads -> Points] /\ pc'[t] = p /\ \A u \in Threads \ {t} : pc'[u] = pc[u]
      /\ p \in Points
  BY DEF Goto, Structure, Shape, Points, Owning
<1>2. Shape'
  BY <1>1, ConstantTypes DEF Structure, Shape, Calls
<1>3. OpAt(t) /\ HandAt(t) /\ my[t].vector = 0
  BY HandIs DEF HandAt, AtSlot, Owning
<1>4. OpAt(t)' /\ HandAt(t)' /\ CellAt(t)'
  BY <1>1, <1>3 DEF OpAt, HandAt, CellAt, AtSlot, Owning
<1>5. ASSUME NEW u \in Threads \ {t} PROVE (OpAt(u) /\ HandAt(u) /\ CellAt(u))'
  <2> DEFINE v == my[u].vector
  <2> DEFINE i == my[u].slot
  <2>1. /\ OpAt(u) /\ HandAt(u) /\ CellAt(u) /\ pc'[u] = pc[u] /\ u # None
        /\ v # 0 => v \in Vectors
    BY <1>1, HandIs, ConstantTypes
  <2>2. OpAt(u)'
    BY <2>1 DEF OpAt
  <2>3. pc[u] \in AtSlot \cup {"check"} => v \in Vectors
    BY <2>1 DEF HandAt, AtSlot
  <2>4. v \in Vectors => /\ Size(v)' = Size(v)
                         /\ \A j \in 1..Size(v) : /\ KeyAt(v, j)' = KeyAt(v, j)
                                                  /\ ValueAt(v, j)' \in {ValueAt(v, j), Rehashing}
    BY DEF Holds
  <2>5. (my[u].vector)' = v /\ (my[u].slot)' = i /\ owner # u /\ owner' # u
    BY <2>1
  <2>6. HandAt(u)'
    <3>1. pc[u] \in AtSlot \cup {"check"} => Size(my[u].vector)' = Size(v)
      BY <2>3, <2>4 DEF Size
    <3> HIDE DEF v, i
    <3> QED
      BY <2>1, <2>5, <3>1 DEF HandAt, v, i
  <2>7. CellAt(u)'
    <3>1. CASE pc[u] \notin AtSlot \cup {"check"} \/ (pc[u] = "check" /\ i = 0)
      BY <2>1, <3>1 DEF CellAt, AtSlot
    <3>2. CASE pc[u] \in AtSlot \cup {"check"} /\ ~(pc[u] = "check" /\ i = 0)
      <4>1. v \in Vectors /\ i \in 1..Size(v) /\ Key(u)' = Key(u)
        BY <2>1, <2>3, <3>2 DEF HandAt, AtSlot, Key
      <4>2. /\ KeyAt(my[u].vector, my[u].slot)' = KeyAt(v, i)
            /\ ValueAt(my[u].vector, my[u].slot)' \in {ValueAt(v, i), Rehashing}
        BY <2>4, <4>1 DEF KeyAt, ValueAt
      <4> QED
        BY <2>1, <4>1, <4>2 DEF CellAt
    <3> QED
      BY <3>1, <3>2
  <2> QED
    BY <2>2, <2>6, <2>7
<1>6. ThreadInv'
  BY <1>4, <1>5 DEF ThreadInv
<1>7. SlotInv'
  <2>1. p \notin Mine /\ pc[t] \notin Mine
    BY DEF Mine, Owning
  <2> QED
    BY <1>1, <2>1 DEF Structure, SlotInv
<1>8. CopyInv'
  <2>1. ASSUME NEW u \in Threads \ {t} PROVE CopyAt(u)'
    <3>1. HandAt(u)' /\ owner' # u
      BY <1>5, ConstantTypes
    <3>2. pc'[u] \notin Owning /\ ~(pc'[u] = "error" /\ owner' = u)
      BY <3>1 DEF HandAt, Owning
    <3> QED
      BY <3>2 DEF CopyAt, Copying, Owning
  <2>2. (\A u \in Threads : ~Rehasher(u)') => copy' = NoCopy
    BY <1>1 DEF Rehasher, Owning
  <2> QED
    BY <2>1, <2>2 DEF CopyInv
<1> QED
  BY <1>2, <1>6, <1>7, <1>8 DEF Structure

LEMMA HeldStays ==
  ASSUME Structure, my' = my, vector' = vector, Size(vector)' = Size(vector),
         copy.to \in {0, (copy.to)'},
         \A v \in Vectors \ {vector, (copy.to)'} : vectors'[v] = vectors[v]
  PROVE  HeldInv'
<1>1. Size(vector) > 0 /\ Size(vector)' > 0
  BY DEF Structure, HeldInv
<1>2. ASSUME NEW v \in Vectors \ {vector, (copy.to)'}
      PROVE  /\ v \in Vectors \ {vector, copy.to} /\ vectors'[v] = vectors[v]
             /\ Size(v)' = Size(v) /\ \A i \in 1..Size(v) : ValueAt(v, i)' = ValueAt(v, i)
  BY <1>2, ConstantTypes DEF Size, ValueAt
<1>3. \A u \in Threads, v \in Vectors : Holds(u, v)' <=> Holds(u, v)
  BY DEF Holds
<1> QED
  BY <1>1, <1>2, <1>3 DEF Structure, HeldInv

(* Vectors that do not change.                                             *)
LEMMA SameVectors ==
  ASSUME Structure, vectors' = vectors, my' = my, vector' = vector, copy.to \in {0, (copy.to)'}
  PROVE  /\ HeldInv' /\ vectors' \in [Vectors -> Tables] /\ vector' \in Vectors
         /\ \A v \in Vectors : Size(v)' = Size(v) /\ \A i \in 1..Size(v) :
                KeyAt(v, i)' = KeyAt(v, i) /\ ValueAt(v, i)' \in {ValueAt(v, i), Rehashing}
         /\ \A v \in Vectors : \A i \in 1..Size(v)' :
                /\ KeyAt(v, i)' = Free => ValueAt(v, i)' \in {Free, Rehashing}
                /\ KeyAt(v, i)' = Deleted => ValueAt(v, i)' \notin Values
         /\ Size(vector)' = Size(vector) /\ Size(vector) \in Nat
<1>1. Size(vector)' = Size(vector) /\ \A v \in Vectors : Size(v)' = Size(v)
  BY DEF Size
<1>2. \A v \in Vectors : \A i : KeyAt(v, i)' = KeyAt(v, i) /\ ValueAt(v, i)' = ValueAt(v, i)
  BY DEF KeyAt, ValueAt
<1>3. Size(vector) \in Nat
  BY DEF Structure, Shape, Tables, Size
<1> QED
  BY <1>1, <1>2, <1>3, HeldStays DEF Structure, Shape, SlotInv

LEMMA NobodyRehashes ==
  ASSUME Structure, NEW t \in Threads, owner \in {t, None}, pc[t] \in {"rehash", "decide"}
  PROVE  copy = NoCopy
<1>1. pc[t] = "rehash" => owner # t
  BY HandIs DEF HandAt, Owning
<1> QED
  BY <1>1, ConstantTypes DEF Structure, CopyInv, Rehasher

LEMMA StepLock == ASSUME Structure, NEW t \in Threads, Lock(t) PROVE Structure'
<1>1. /\ pc[t] = "rehash" /\ owner = None /\ owner' = t /\ Goto(t, "decide")
      /\ UNCHANGED <<vector, vectors, threshold, copy, address, request, my>>
  BY DEF Lock, Keep, tableVars
<1>2. copy = NoCopy /\ copy' = NoCopy
  BY <1>1, NobodyRehashes
<1>3. threshold' \in Int /\ copy' \in Copies /\ CopyAt(t)'
  BY <1>1 DEF Structure, Shape, CopyAt, Goto, Copying
<1>4. copy.to \in {0, (copy.to)'}
  BY <1>1
<1>5. "decide" \in Owning \cup {"retry", "error"} /\ "decide" \in Owning
  BY DEF Owning
<1> QED
  BY <1>1, <1>2, <1>3, <1>4, <1>5, SameVectors, RehasherStep

LEMMA CopyParts ==
  ASSUME Structure
  PROVE  /\ copy \in Copies /\ copy.to \in {0} \cup Vectors /\ copy.index \in Nat /\ copy.count \in Nat
         /\ copy.full \in Nat /\ copy.room \in Nat /\ copy.carry \in Carries
         /\ NoCopy.to = 0 /\ NoCopy.carry = NoCarry /\ NoCopy \in Copies
<1>1. NoCopy \in Copies /\ NoCopy.to = 0 /\ NoCopy.carry = NoCarry
  BY DEF NoCopy, NoCarry, Copies, Carries
<1> QED
  BY <1>1 DEF Structure, Shape, Copies

LEMMA DecideIs ==
  ASSUME Structure, NEW t \in Threads, Decide(t)
  PROVE  /\ pc[t] = "decide" /\ owner = t /\ copy = NoCopy
         /\ UNCHANGED <<vector, vectors, address, request, my>> /\ answer' = NoAnswer
         /\ \/ /\ threshold' = 0 /\ (copy.to)' = 0 /\ (copy.index)' = 1 /\ (copy.carry)' = NoCarry
               /\ copy' \in Copies /\ Goto(t, "count") /\ owner' = t
            \/ owner' = None /\ Goto(t, "retry") /\ threshold' = threshold /\ copy' = NoCopy
<1>1. /\ pc[t] = "decide"
      /\ UNCHANGED <<vector, vectors, address, request, my>> /\ answer' = NoAnswer
  BY DEF Decide, Keep
<1>2. owner = t
  BY <1>1, HandIs DEF HandAt, Owning
<1>3. copy = NoCopy
  BY <1>1, <1>2, NobodyRehashes
<1>4. ASSUME NEW g \in BOOLEAN, NEW x, x = [NoCopy EXCEPT !.index = 1, !.grow = g]
      PROVE  x.to = 0 /\ x.index = 1 /\ x.carry = NoCarry /\ x \in Copies
  BY <1>4 DEF NoCopy, NoCarry, Copies, Carries
<1>5. (threshold <= 0) \in BOOLEAN
  BY DEF Structure, Shape
<1> QED
  BY <1>1, <1>2, <1>3, <1>4, <1>5 DEF Decide

LEMMA StepDecide == ASSUME Structure, NEW t \in Threads, Decide(t) PROVE Structure'
<1>1. /\ pc[t] = "decide" /\ owner = t /\ copy = NoCopy
      /\ UNCHANGED <<vector, vectors, address, request, my>>
  BY DecideIs
<1>2. threshold \in Int /\ pc[t] \in {"rehash"} \cup Owning /\ pc \in [Threads -> Points]
      /\ t # None /\ Size(vector) \in Nat
  BY <1>1, ConstantTypes DEF Structure, Shape, Owning, Tables, Size
<1>3. CASE /\ threshold' = 0 /\ (copy.to)' = 0 /\ (copy.index)' = 1 /\ (copy.carry)' = NoCarry
           /\ copy' \in Copies /\ Goto(t, "count") /\ owner' = t
  <2>1. copy.to \in {0, (copy.to)'} /\ "count" \in Owning /\ threshold' \in Int
    BY <1>1, <1>3, CopyParts DEF Owning
  <2>2. CopyAt(t)'
    BY <1>1, <1>2, <1>3, SameVectors, <2>1 DEF CopyAt, Goto, Copying
  <2> QED
    BY <1>1, <1>2, <1>3, <2>1, <2>2, SameVectors, RehasherStep
<1>4. CASE owner' = None /\ Goto(t, "retry") /\ threshold' = threshold /\ copy' = NoCopy
  <2>1. copy.to \in {0, (copy.to)'} /\ "retry" \notin Owning \cup {"error"} /\ copy' \in Copies
    BY <1>1, <1>4, CopyParts DEF Owning
  <2>2. CopyAt(t)'
    BY <1>2, <1>4 DEF CopyAt, Goto, Copying
  <2> QED
    BY <1>1, <1>2, <1>4, <2>1, <2>2, SameVectors, RehasherStep
<1> QED
  BY <1>3, <1>4, DecideIs

-----------------------------------------------------------------------------
(* The rehash: what the thread that does it knows.                         *)
LEMMA RehashParts ==
  ASSUME Structure, NEW t \in Threads, pc[t] \in {"count"} \cup Copying
  PROVE  /\ owner = t /\ CopyAt(t) /\ t # None /\ my[t].vector = 0
         /\ vector \in Vectors /\ vectors[vector] \in Tables /\ Size(vector) \in Nat \ {0}
         /\ Last = Size(vector) /\ copy.index \in 1..Size(vector) + 1
         /\ pc[t] \in Copying => /\ copy.to \in Vectors \ {vector} /\ Size(copy.to) \in Nat
                                 /\ \A u \in Threads : ~Holds(u, copy.to)
                                 /\ copy.room \in Nat /\ copy.room > 0
         /\ pc[t] = "count" => copy.to = 0
         /\ \A u \in Threads \ {t} : pc[u] \notin {"count"} \cup Copying
<1>1. owner = t /\ my[t].vector = 0
  BY HandIs DEF HandAt, Owning, Copying, AtSlot
<1>2. CopyAt(t)
  BY DEF Structure, CopyInv
<1>3. vector \in Vectors /\ vectors[vector] \in Tables /\ Size(vector) \in Nat \ {0}
  BY DEF Structure, Shape, HeldInv, Tables, Size
<1>4. Last = Size(vector) /\ copy.index \in 1..Size(vector) + 1
  BY <1>2 DEF Last, Size, CopyAt, Copying
<1>5. pc[t] \in Copying => /\ copy.to \in Vectors \ {vector}
                           /\ \A u \in Threads : ~Holds(u, copy.to)
                           /\ copy.room \in Nat /\ copy.room > 0
  BY <1>2, CopyParts DEF CopyAt
<1>6. \A v \in Vectors : Size(v) \in Nat
  BY DEF Structure, Shape, Tables, Size
<1>7. ASSUME NEW u \in Threads \ {t} PROVE pc[u] \notin {"count"} \cup Copying
  BY <1>1, HandIs DEF HandAt, Owning, Copying
<1> QED
  BY <1>1, <1>2, <1>3, <1>4, <1>5, <1>6, <1>7, ConstantTypes DEF CopyAt

LEMMA StepCountSlot == ASSUME Structure, NEW t \in Threads, CountSlot(t) PROVE Structure'
<1> DEFINE n == IF IsLive(vectors[vector].slots[copy.index]) THEN 1 ELSE 0
<1>1. /\ pc[t] = "count" /\ copy.index <= Last
      /\ copy' = [copy EXCEPT !.index = @ + 1, !.count = @ + n]
      /\ UNCHANGED <<vector, vectors, threshold, owner, address, pc, request, my>>
  BY DEF CountSlot, Keep, tableVars, threadVars
<1>2. /\ owner = t /\ CopyAt(t) /\ Size(vector) \in Nat /\ Last = Size(vector)
      /\ copy.index \in 1..Size(vector) + 1 /\ copy.to = 0 /\ copy.carry = NoCarry
  BY <1>1, RehashParts DEF CopyAt
<1>3. copy' \in Copies /\ (copy.to)' = 0 /\ (copy.index)' = copy.index + 1 /\ (copy.carry)' = NoCarry
  <2>1. n \in Nat
    OBVIOUS
  <2> HIDE DEF n
  <2> DEFINE y == [copy EXCEPT !.index = @ + 1]
  <2>2. /\ y \in Copies /\ y.to = copy.to /\ y.index = copy.index + 1 /\ y.carry = copy.carry
        /\ y.count = copy.count /\ copy.count \in Nat
    BY CopyParts DEF Copies
  <2>3. copy' = [y EXCEPT !.count = copy.count + n]
    BY <1>1
  <2> HIDE DEF y
  <2>4. /\ copy' \in Copies
        /\ copy'.to = copy.to /\ copy'.index = copy.index + 1 /\ copy'.carry = copy.carry
    BY <2>1, <2>2, <2>3 DEF Copies
  <2> QED
    BY <1>2, <2>4
<1>4. Size(vector)' = Size(vector)
  BY <1>1 DEF Size
<1>5. CopyAt(t)'
  BY <1>1, <1>2, <1>3, <1>4 DEF CopyAt, Copying
<1>6. Goto(t, "count") /\ "count" \in Owning
  BY <1>1 DEF Goto, Structure, Shape, Owning
<1>7. threshold' \in Int /\ copy.to \in {0, (copy.to)'}
  BY <1>1, <1>2 DEF Structure, Shape
<1> QED
  BY <1>1, <1>2, <1>3, <1>5, <1>6, <1>7, SameVectors, RehasherStep

(* There is a vector for every thread, the table's and a new one.          *)
LEMMA SomeUnused ==
  ASSUME Structure, copy.to = 0
  PROVE  \E v \in Vectors : vectors[v] = Unused
<1> DEFINE V == Vectors \ {vector}
<1> DEFINE f == [v \in V |-> CHOOSE u \in Threads : Holds(u, v)]
<1>1. SUFFICES ASSUME \A v \in V : \E u \in Threads : Holds(u, v) PROVE FALSE
  <2>1. \A v \in V : (\A u \in Threads : ~Holds(u, v)) => vectors[v] = Unused
    BY ConstantTypes DEF Structure, HeldInv
  <2> QED
    BY <1>1, <2>1
<1>2. f \in [V -> Threads] /\ \A v \in V : Holds(f[v], v)
  BY <1>1
<1>3. IsFiniteSet(V) /\ Cardinality(V) = Cardinality(Threads) + 1
  <2>1. IsFiniteSet(Vectors) /\ Cardinality(Vectors) = Cardinality(Threads) + 2
    BY ConstantTypes, FS_Interval DEF Vectors
  <2>2. vector \in Vectors
    BY DEF Structure, Shape
  <2> QED
    BY <2>1, <2>2, FS_RemoveElement, ConstantTypes
<1> HIDE DEF f, V
<1>4. PICK x, y \in V : x # y /\ f[x] = f[y]
  BY <1>2, <1>3, ConstantTypes, FS_PigeonHole
<1> QED
  BY <1>2, <1>4 DEF Holds

(* A vector for so many entries.                                           *)
LEMMA NewSizeIs ==
  ASSUME NEW n \in Nat, NEW inc \in Nat
  PROVE  /\ NewSize(n, inc) \in Nat /\ NewSize(n, inc) > n
         /\ NewSize(n, inc) >= MinSize /\ NewSize(n, inc) > 0
<1> DEFINE more == MoreThan(n, inc)
<1>1. more \in Int /\ more > n /\ MinSize \in Nat /\ MinSize > 0
  BY SizesAssumption DEF MoreThan
<1> HIDE DEF more
<1> DEFINE S == {MinSize, more}
<1>2. \E x \in S : \A y \in S : x >= y
  BY <1>1
<1>3. Max(S) \in S /\ \A y \in S : Max(S) >= y
  <2> HIDE DEF S
  <2> QED
    BY <1>2 DEF Max
<1>4. Max(S) \in Int /\ Max(S) >= MinSize /\ Max(S) >= more
  BY <1>1, <1>3
<1> QED
  BY <1>1, <1>4 DEF NewSize, more

(* A new vector has only free slots.                                       *)
LEMMA NewVectorIs ==
  ASSUME NEW n \in Nat
  PROVE  /\ NewVector(n) \in Tables /\ Len(NewVector(n).slots) = n + Slack
         /\ \A i \in 1..n + Slack : NewVector(n).slots[i].key = Free /\ NewVector(n).slots[i].value = Free
         /\ NewVector(n).moved = FALSE /\ NewVector(n).count = 0
<1> DEFINE m == n + Slack
<1> DEFINE s == [i \in 1..m |-> Slot(Free, Free)]
<1>1. m \in Nat
  BY SizesAssumption
<1>2. s \in Seq(Cells) /\ Len(s) = m /\ \A i \in 1..m : s[i].key = Free /\ s[i].value = Free
  <2> DEFINE c == Slot(Free, Free)
  <2>1. c \in Cells /\ c.key = Free /\ c.value = Free
    BY DEF Slot, Cells
  <2> HIDE DEF c, m
  <2>2. s = [i \in 1..m |-> c]
    BY DEF c
  <2> HIDE DEF s
  <2> QED
    BY <1>1, <2>1, <2>2
<1>3. NewVector(n) = [Unused EXCEPT !.slots = s]
  BY DEF NewVector
<1> HIDE DEF s, m
<1>4. NewVector(n) \in Tables /\ NewVector(n).slots = s /\ NewVector(n).moved = FALSE
      /\ NewVector(n).count = 0
  <2>1. \A tb \in Tables : LET y == [tb EXCEPT !.slots = s] IN
          y \in Tables /\ y.slots = s /\ y.moved = tb.moved /\ y.count = tb.count
    BY <1>2 DEF Tables
  <2>2. Unused \in Tables /\ Unused.moved = FALSE /\ Unused.count = 0
    BY UnusedTable DEF Unused
  <2> QED
    BY <1>3, <2>1, <2>2
<1> QED
  BY <1>2, <1>4 DEF m

(* What making the new vector does.                                        *)
LEMMA MakeVectorIs ==
  ASSUME Structure, NEW t \in Threads, MakeVector(t)
  PROVE  \E new \in Vectors \ {vector}, size \in Nat :
           /\ vectors[new] = Unused /\ \A u \in Threads : ~Holds(u, new)
           /\ size > copy.count /\ size > 0 /\ size >= MinSize
           /\ vectors' = [vectors EXCEPT ![new] = NewVector(size)]
           /\ pc[t] = "count" /\ copy.index > Last /\ Goto(t, "copy")
           /\ copy' \in Copies /\ (copy.to)' = new /\ (copy.index)' = 1 /\ (copy.full)' = size
           /\ (copy.room)' = size /\ (copy.carry)' = NoCarry
           /\ UNCHANGED <<vector, threshold, owner, address, request, my>>
           /\ answer' = NoAnswer
<1> DEFINE inc == IF copy.grow THEN RehashSize ELSE 1
<1> DEFINE size == NewSize(copy.count, inc)
<1> DEFINE V == {v \in Vectors : vectors[v] = Unused}
<1> DEFINE new == Min(V)
<1>1. /\ pc[t] = "count" /\ copy.index > Last /\ Goto(t, "copy")
      /\ vectors' = [vectors EXCEPT ![new] = NewVector(size)]
      /\ copy' = [copy EXCEPT !.to = new, !.index = 1, !.full = size, !.room = size]
      /\ UNCHANGED <<vector, threshold, owner, address, request, my>> /\ answer' = NoAnswer
  BY DEF MakeVector, Keep
<1>2. copy.to = 0 /\ copy.carry = NoCarry /\ copy \in Copies /\ copy.count \in Nat
  BY <1>1, RehashParts, CopyParts DEF CopyAt
<1>3. size \in Nat /\ size > copy.count /\ size > 0 /\ size >= MinSize
  <2>1. inc \in Nat
    BY SizesAssumption
  <2> HIDE DEF inc
  <2> QED
    BY <1>2, <2>1, NewSizeIs
<1>4. new \in V
  <2>1. V \subseteq Nat /\ V # {}
    BY <1>2, SomeUnused, ConstantTypes
  <2> QED
    BY <2>1, LeastIs
<1>5. new \in Vectors /\ vectors[new] = Unused /\ new # vector
  <2>1. Size(vector) > 0
    BY DEF Structure, HeldInv
  <2> HIDE DEF new
  <2> QED
    BY <1>4, <2>1, UnusedTable DEF Size
<1>6. \A u \in Threads : ~Holds(u, new)
  <2>1. new \in Vectors \ {vector, copy.to} /\ Size(new) = 0
    BY <1>2, <1>5, ConstantTypes, UnusedTable DEF Size
  <2> HIDE DEF new
  <2> QED
    BY <2>1 DEF Structure, HeldInv
<1>7. copy' \in Copies /\ (copy.to)' = new /\ (copy.index)' = 1 /\ (copy.full)' = size
      /\ (copy.room)' = size /\ (copy.carry)' = NoCarry
  <2> HIDE DEF new, size
  <2> QED
    BY <1>1, <1>2, <1>3, <1>5 DEF Copies
<1> HIDE DEF new, size
<1> QED
  BY <1>1, <1>3, <1>5, <1>6, <1>7

LEMMA EmptyUsed ==
  ASSUME NEW v, \A i \in 1..Size(v) : KeyAt(v, i) = Free
  PROVE  Used(v) = {} /\ Cardinality(Used(v)) = 0
BY FS_EmptySet DEF Used

LEMMA StepMakeVector == ASSUME Structure, NEW t \in Threads, MakeVector(t) PROVE Structure'
<1>1. PICK new \in Vectors \ {vector}, size \in Nat :
           /\ vectors[new] = Unused /\ \A u \in Threads : ~Holds(u, new)
           /\ size > copy.count /\ size > 0 /\ size >= MinSize
           /\ vectors' = [vectors EXCEPT ![new] = NewVector(size)]
           /\ pc[t] = "count" /\ copy.index > Last /\ Goto(t, "copy")
           /\ copy' \in Copies /\ (copy.to)' = new /\ (copy.index)' = 1 /\ (copy.full)' = size
           /\ (copy.room)' = size /\ (copy.carry)' = NoCarry
           /\ UNCHANGED <<vector, threshold, owner, address, request, my>>
  BY MakeVectorIs
<1>2. /\ owner = t /\ vector \in Vectors /\ Size(vector) \in Nat \ {0} /\ copy.to = 0
  BY <1>1, RehashParts
<1>3. /\ vectors' \in [Vectors -> Tables] /\ vectors'[new] = NewVector(size)
      /\ \A v \in Vectors \ {new} : vectors'[v] = vectors[v]
      /\ Len(vectors'[new].slots) = size + Slack
      /\ \A i \in 1..size + Slack : vectors'[new].slots[i].key = Free /\ vectors'[new].slots[i].value = Free
  BY <1>1, NewVectorIs DEF Structure, Shape
<1>4. /\ Size(vector)' = Size(vector) /\ Size(copy.to)' = size + Slack
      /\ \A i \in 1..size + Slack : KeyAt(copy.to, i)' = Free /\ ValueAt(copy.to, i)' = Free
  BY <1>1, <1>2, <1>3 DEF Size, KeyAt, ValueAt
<1>5. Used(copy.to)' = {} /\ Cardinality(Used(copy.to))' = 0
  <2>1. \A i \in 1..Size(copy.to)' : KeyAt(copy.to, i)' = Free
    BY <1>4
  <2> QED
    BY <2>1, FS_EmptySet DEF Used
<1>6. CopyAt(t)'
  <2>1. pc'[t] = "copy"
    BY <1>1 DEF Goto, Structure, Shape
  <2>2. \A u \in Threads : ~Holds(u, copy.to)'
    BY <1>1 DEF Holds
  <2> QED
    BY <1>1, <1>2, <1>4, <1>5, <2>1, <2>2 DEF CopyAt, Copying
<1>7. HeldInv'
  BY <1>1, <1>2, <1>3, <1>4, HeldStays
<1>8. \A v \in Vectors : (\E u \in Threads : Holds(u, v)) =>
             /\ Size(v)' = Size(v)
             /\ \A i \in 1..Size(v) : /\ KeyAt(v, i)' = KeyAt(v, i)
                                      /\ ValueAt(v, i)' \in {ValueAt(v, i), Rehashing}
  BY <1>1, <1>3 DEF Size, KeyAt, ValueAt
<1>9. \A v \in Vectors : \A i \in 1..Size(v)' :
             /\ KeyAt(v, i)' = Free => ValueAt(v, i)' \in {Free, Rehashing}
             /\ KeyAt(v, i)' = Deleted => ValueAt(v, i)' \notin Values
  <2> SUFFICES ASSUME NEW v \in Vectors, NEW i \in 1..Size(v)'
               PROVE  /\ KeyAt(v, i)' = Free => ValueAt(v, i)' \in {Free, Rehashing}
                      /\ KeyAt(v, i)' = Deleted => ValueAt(v, i)' \notin Values
    OBVIOUS
  <2>1. CASE v = new
    BY <1>3, <2>1, KeysAssumption DEF KeyAt, ValueAt, Size
  <2>2. CASE v # new
    BY <1>3, <2>2 DEF KeyAt, ValueAt, Size, Structure, SlotInv
  <2> QED
    BY <2>1, <2>2
<1>10. threshold' \in Int /\ "copy" \in Owning
  BY <1>1 DEF Structure, Shape, Owning
<1>11. pc[t] \in {"rehash"} \cup Owning
  BY <1>1 DEF Owning
<1> QED
  BY <1>1, <1>2, <1>3, <1>6, <1>7, <1>8, <1>9, <1>10, <1>11, RehasherStep

-----------------------------------------------------------------------------
(* Slots with an entry, and slots in use.                                  *)
LEMMA LiveIs ==
  ASSUME Structure, NEW v \in Vectors, NEW i \in 1..Size(v)
  PROVE  /\ vectors[v].slots[i] \in Cells
         /\ IsLive(vectors[v].slots[i]) <=> ValueAt(v, i) \in Values
         /\ IsLive(vectors[v].slots[i]) => KeyAt(v, i) \in Keys
<1>1. vectors[v].slots[i] \in Cells
  BY DEF Structure, Shape, Tables, Size
<1>2. /\ KeyAt(v, i) \in Keys \cup {Free, Deleted}
      /\ ValueAt(v, i) \in Values \cup {Free, Deleted, Rehashing}
  BY <1>1 DEF Cells, KeyAt, ValueAt
<1>3. /\ KeyAt(v, i) = Free => ValueAt(v, i) \in {Free, Rehashing}
      /\ KeyAt(v, i) = Deleted => ValueAt(v, i) \notin Values
  BY DEF Structure, SlotInv
<1> QED
  BY <1>1, <1>2, <1>3, KeysAssumption DEF IsLive, KeyAt, ValueAt

LEMMA UsedFinite ==
  ASSUME Structure, NEW v \in Vectors
  PROVE  /\ Size(v) \in Nat /\ IsFiniteSet(1..Size(v)) /\ Cardinality(1..Size(v)) = Size(v)
         /\ IsFiniteSet(Used(v)) /\ Cardinality(Used(v)) \in Nat /\ Cardinality(Used(v)) <= Size(v)
<1>1. Size(v) \in Nat
  BY DEF Structure, Shape, Tables, Size
<1>2. IsFiniteSet(1..Size(v)) /\ Cardinality(1..Size(v)) = Size(v)
  BY <1>1, FS_Interval
<1>3. Used(v) \in SUBSET (1..Size(v))
  BY DEF Used
<1> QED
  BY <1>1, <1>2, <1>3, FS_Subset, FS_CardinalityType

(* A key hashes to a free slot of the new vector.                          *)
LEMMA PlaceFound ==
  ASSUME Structure, NEW t \in Threads, pc[t] = "copy", NEW k \in Keys
  PROVE  LET s == Probe(vectors[copy.to].slots, address[k], {Free, Deleted}) IN
         /\ s \in 1..Size(copy.to) /\ KeyAt(copy.to, s) = Free
         /\ \E n \in 0..Size(copy.to)-1 :
               /\ s = At(vectors[copy.to].slots, address[k], n)
               /\ \A m \in 0..n-1 : KeyAt(copy.to, At(vectors[copy.to].slots, address[k], m)) # Free
<1> DEFINE v == copy.to
<1> DEFINE slots == vectors[v].slots
<1> DEFINE s == Probe(slots, address[k], {Free, Deleted})
<1>1. /\ CopyAt(t) /\ v \in Vectors /\ Size(v) \in Nat /\ copy.room \in Nat /\ copy.room > 0
      /\ copy.full \in Nat
  BY RehashParts, CopyParts DEF Copying
<1>2. /\ Size(v) = copy.full + Slack /\ copy.full = Cardinality(Used(v)) + copy.room
      /\ \A i \in Used(v) : KeyAt(v, i) \in Keys
  BY <1>1 DEF CopyAt, Copying
<1>3. Cardinality(Used(v)) \in Nat /\ Cardinality(1..Size(v)) = Size(v)
  BY <1>1, UsedFinite
<1>4. Cardinality(Used(v)) # Size(v)
  BY <1>1, <1>2, <1>3, SizesAssumption
<1>5. PICK r \in 1..Size(v) : KeyAt(v, r) = Free
  <2>1. Used(v) # 1..Size(v)
    BY <1>3, <1>4
  <2> QED
    BY <2>1 DEF Used
<1>6. address[k] \in Int /\ Len(slots) = Size(v)
  BY DEF Structure, Shape, Size
<1>7. /\ s \in 0..Size(v)
      /\ s # 0 => \E i \in 0..Size(v)-1 :
             /\ s = At(slots, address[k], i) /\ s \in 1..Size(v) /\ slots[s].key \in {Free, Deleted}
             /\ \A j \in 0..i-1 : slots[At(slots, address[k], j)].key \notin {Free, Deleted}
      /\ s = 0 => \A x \in 1..Size(v) : slots[x].key \notin {Free, Deleted}
  <2> DEFINE n == Len(slots)
  <2>1. /\ s \in 0..n
        /\ s # 0 => \E i \in 0..n-1 :
             /\ s = At(slots, address[k], i) /\ s \in 1..n /\ slots[s].key \in {Free, Deleted}
             /\ \A j \in 0..i-1 : slots[At(slots, address[k], j)].key \notin {Free, Deleted}
        /\ s = 0 => \A x \in 1..n : slots[x].key \notin {Free, Deleted}
    <3>1. Len(slots) \in Nat
      BY <1>1, <1>6
    <3> HIDE DEF slots
    <3> QED
      BY <1>6, <3>1, ProbeIs
  <2>2. n = Size(v)
    BY <1>6
  <2> HIDE DEF n, s
  <2> QED
    BY <2>1, <2>2
<1>8. s # 0
  BY <1>5, <1>7 DEF KeyAt
<1>9. slots[s].key # Deleted
  <2>1. s \in 1..Size(v)
    BY <1>7, <1>8
  <2>2. KeyAt(v, s) # Free => KeyAt(v, s) \in Keys
    BY <1>2, <2>1 DEF Used
  <2> QED
    BY <2>2, KeysAssumption DEF KeyAt
<1> QED
  BY <1>7, <1>8, <1>9 DEF KeyAt

(* What copying a slot does.                                               *)
LEMMA CopySlotIs ==
  ASSUME Structure, NEW t \in Threads, CopySlot(t)
  PROVE  LET slot == vectors[vector].slots[copy.index]
             to == Probe(vectors[copy.to].slots, address[slot.key], {Free, Deleted})
         IN
         /\ pc[t] = "copy" /\ copy.index \in 1..Size(vector) /\ slot \in Cells
         /\ vectors' \in [Vectors -> Tables]
         /\ \A v \in Vectors \ {vector} : vectors'[v] = vectors[v]
         /\ Size(vector)' = Size(vector)
         /\ (vectors[vector].moved)' = vectors[vector].moved
         /\ (vectors[vector].count)' = vectors[vector].count
         /\ \A i \in 1..Size(vector) : vectors'[vector].slots[i] =
                IF i = copy.index THEN Slot(slot.key, Rehashing) ELSE vectors[vector].slots[i]
         /\ UNCHANGED <<vector, threshold, owner, address, request, my>> /\ answer' = NoAnswer
         /\ copy' \in Copies /\ (copy.to)' = copy.to
         /\ (copy.full)' = copy.full /\ (copy.room)' = copy.room
         /\ \/ /\ slot.value \in Values /\ slot.key \in Keys /\ Goto(t, "place")
               /\ (copy.index)' = copy.index
               /\ (copy.carry)' = [key |-> slot.key, value |-> slot.value, slot |-> to]
            \/ /\ slot.value \notin Values /\ Goto(t, "copy")
               /\ (copy.index)' = copy.index + 1 /\ (copy.carry)' = NoCarry
<1> DEFINE i == copy.index
<1> DEFINE slot == vectors[vector].slots[i]
<1> DEFINE to == Probe(vectors[copy.to].slots, address[slot.key], {Free, Deleted})
<1>1. /\ pc[t] = "copy" /\ i <= Last
      /\ vectors' = [vectors EXCEPT ![vector].slots[i].value = Rehashing]
      /\ UNCHANGED <<vector, threshold, owner, address, request, my>> /\ answer' = NoAnswer
  BY DEF CopySlot, Keep
<1>2. /\ CopyAt(t) /\ vector \in Vectors /\ i \in 1..Size(vector) /\ copy.carry = NoCarry
      /\ copy.to \in Vectors
  BY <1>1, RehashParts DEF CopyAt, Copying
<1>3. /\ slot \in Cells
      /\ IsLive(slot) <=> slot.value \in Values
      /\ IsLive(slot) => slot.key \in Keys
  BY <1>2, LiveIs DEF KeyAt, ValueAt
<1>4. PICK c \in Cells : c = Slot(slot.key, Rehashing) /\ c = [slot EXCEPT !.value = Rehashing]
  <2> HIDE DEF slot
  <2>1. \A value \in Values \cup {Free, Deleted, Rehashing} :
            Slot(slot.key, value) \in Cells /\ Slot(slot.key, value) = [slot EXCEPT !.value = value]
    BY <1>3, CellParts, Zenon
  <2>2. /\ Slot(slot.key, Rehashing) \in Cells
        /\ Slot(slot.key, Rehashing) = [slot EXCEPT !.value = Rehashing]
    BY <2>1
  <2> QED
    BY <2>2
<1>5. vectors' = Put(vector, i, c)
  BY <1>1, <1>4 DEF Put
<1>6. /\ vectors' \in [Vectors -> Tables] /\ \A x \in Vectors : x # vector => vectors'[x] = vectors[x]
      /\ Len(vectors'[vector].slots) = Size(vector) /\ vectors'[vector].moved = vectors[vector].moved
      /\ vectors'[vector].count = vectors[vector].count
      /\ \A j \in 1..Size(vector) : vectors'[vector].slots[j] = IF j = i THEN c ELSE vectors[vector].slots[j]
  <2>1. Shape
    BY DEF Structure
  <2> HIDE DEF slot
  <2> QED
    BY <1>2, <1>4, <1>5, <2>1, CellPut
<1>7. Size(vector)' = Size(vector)
  BY <1>1, <1>6 DEF Size
<1>8. CASE IsLive(slot)
  <2> DEFINE carry == [key |-> slot.key, value |-> slot.value, slot |-> to]
  <2>1. copy' = [copy EXCEPT !.carry = carry] /\ Goto(t, "place")
    BY <1>8 DEF CopySlot, Goto
  <2>2. to \in 1..Size(copy.to) /\ Size(copy.to) \in Nat
    BY <1>1, <1>2, <1>3, <1>8, PlaceFound, UsedFinite
  <2>3. carry \in Carries
    <3> HIDE DEF to, slot
    <3> QED
      BY <1>3, <1>8, <2>2 DEF Carries
  <2>4. /\ copy' \in Copies /\ copy'.to = copy.to /\ copy'.full = copy.full /\ copy'.room = copy.room
        /\ copy'.index = i /\ copy'.carry = carry
    <3> HIDE DEF carry
    <3> QED
      BY <2>1, <2>3, CopyParts DEF Copies
  <2> QED
    BY <1>1, <1>2, <1>3, <1>4, <1>6, <1>7, <1>8, <2>1, <2>4
<1>9. CASE ~IsLive(slot)
  <2>1. copy' = [copy EXCEPT !.index = @ + 1] /\ pc' = pc
    BY <1>9 DEF CopySlot
  <2>2. Goto(t, "copy")
    BY <1>1, <2>1 DEF Goto, Structure, Shape
  <2>3. /\ copy' \in Copies /\ copy'.to = copy.to /\ copy'.full = copy.full /\ copy'.room = copy.room
        /\ copy'.index = i + 1 /\ copy'.carry = NoCarry
    BY <1>2, <2>1, CopyParts DEF Copies
  <2> QED
    BY <1>1, <1>2, <1>3, <1>4, <1>6, <1>7, <1>9, <2>2, <2>3
<1> QED
  BY <1>8, <1>9

(* The new vector does not change when the old one's slots are marked.     *)
LEMMA SameNew ==
  ASSUME Structure, NEW v \in Vectors, vectors'[v] = vectors[v], copy.to = v, (copy.to)' = v
  PROVE  /\ Size(copy.to)' = Size(copy.to) /\ Used(copy.to)' = Used(copy.to)
         /\ \A i \in 1..Size(copy.to) :
                KeyAt(copy.to, i)' = KeyAt(copy.to, i) /\ ValueAt(copy.to, i)' = ValueAt(copy.to, i)
BY DEF Size, Used, KeyAt, ValueAt

LEMMA StepCopySlot == ASSUME Structure, NEW t \in Threads, CopySlot(t) PROVE Structure'
<1> DEFINE n == Size(vector)
<1> DEFINE slot == vectors[vector].slots[copy.index]
<1> DEFINE to == Probe(vectors[copy.to].slots, address[slot.key], {Free, Deleted})
<1>1. /\ pc[t] = "copy" /\ copy.index \in 1..n /\ slot \in Cells
      /\ vectors' \in [Vectors -> Tables]
      /\ \A v \in Vectors \ {vector} : vectors'[v] = vectors[v]
      /\ Size(vector)' = n
      /\ \A i \in 1..n : vectors'[vector].slots[i] =
             IF i = copy.index THEN Slot(slot.key, Rehashing) ELSE vectors[vector].slots[i]
      /\ UNCHANGED <<vector, threshold, owner, address, request, my>>
      /\ copy' \in Copies /\ (copy.to)' = copy.to
      /\ (copy.full)' = copy.full /\ (copy.room)' = copy.room
  BY CopySlotIs
<1>2. \/ /\ slot.value \in Values /\ slot.key \in Keys /\ Goto(t, "place")
         /\ (copy.index)' = copy.index
         /\ (copy.carry)' = [key |-> slot.key, value |-> slot.value, slot |-> to]
      \/ /\ Goto(t, "copy") /\ (copy.index)' = copy.index + 1 /\ (copy.carry)' = NoCarry
  BY CopySlotIs
<1>3. /\ owner = t /\ CopyAt(t) /\ t # None /\ vector \in Vectors /\ n \in Nat
      /\ copy.to \in Vectors \ {vector} /\ \A u \in Threads : ~Holds(u, copy.to)
  BY <1>1, RehashParts DEF Copying
<1> HIDE DEF slot, n
<1>4. \A i \in 1..n : /\ KeyAt(vector, i)' = KeyAt(vector, i)
                      /\ ValueAt(vector, i)' \in {ValueAt(vector, i), Rehashing}
                      /\ i = copy.index => ValueAt(vector, i)' = Rehashing
                      /\ i # copy.index => ValueAt(vector, i)' = ValueAt(vector, i)
  BY <1>1, SlotParts DEF KeyAt, ValueAt, slot
<1>5. /\ Size(copy.to)' = Size(copy.to) /\ Used(copy.to)' = Used(copy.to)
      /\ \A i \in 1..Size(copy.to) :
             KeyAt(copy.to, i)' = KeyAt(copy.to, i) /\ ValueAt(copy.to, i)' = ValueAt(copy.to, i)
  BY <1>1, <1>3, SameNew
<1>6. \A u \in Threads : ~Holds(u, copy.to)'
  BY <1>1, <1>3 DEF Holds
<1>7. /\ (Size(copy.to) = copy.full + Slack)'
      /\ (copy.full = Cardinality(Used(copy.to)) + copy.room /\ copy.room > 0)'
      /\ (\A i \in Used(copy.to) : KeyAt(copy.to, i) \in Keys /\ ValueAt(copy.to, i) \in Values)'
  <2>1. /\ Size(copy.to) = copy.full + Slack
        /\ copy.full = Cardinality(Used(copy.to)) + copy.room /\ copy.room > 0
        /\ \A i \in Used(copy.to) : KeyAt(copy.to, i) \in Keys /\ ValueAt(copy.to, i) \in Values
    BY <1>1, <1>3 DEF CopyAt, Copying
  <2> QED
    BY <1>1, <1>5, <2>1 DEF Used
<1>8. \A i \in 1..copy.index - 1 : ValueAt(vector, i) = Rehashing
  BY <1>1, <1>3 DEF CopyAt, Copying
<1>9. \A i \in 1..copy.index : ValueAt(vector, i)' = Rehashing
  BY <1>1, <1>3, <1>4, <1>8
<1>10. CopyAt(t)'
  <2>1. CASE /\ slot.value \in Values /\ slot.key \in Keys /\ Goto(t, "place")
             /\ (copy.index)' = copy.index
             /\ (copy.carry)' = [key |-> slot.key, value |-> slot.value, slot |-> to]
    <3>1. pc'[t] = "place"
      BY <2>1 DEF Goto, Structure, Shape
    <3>2. to \in 1..Size(copy.to) /\ KeyAt(copy.to, to) = Free
      BY <1>1, <2>1, PlaceFound
    <3> HIDE DEF to
    <3>3. KeyAt(copy.to, copy.carry.slot)' = Free /\ (copy.carry.slot)' = to
          /\ (copy.carry.key)' = slot.key /\ (copy.carry.value)' = slot.value
      BY <1>1, <1>5, <2>1, <3>2 DEF KeyAt
    <3>4. ValueAt(vector, copy.index)' = Rehashing
      BY <1>1, <1>4, <2>1 DEF ValueAt
    <3> QED
      BY <1>1, <1>3, <1>5, <1>6, <1>7, <1>8, <1>9, <2>1, <3>1, <3>2, <3>3, <3>4 DEF CopyAt, Copying
  <2>2. CASE Goto(t, "copy") /\ (copy.index)' = copy.index + 1 /\ (copy.carry)' = NoCarry
    <3>1. pc'[t] = "copy"
      BY <2>2 DEF Goto, Structure, Shape
    <3> QED
      BY <1>1, <1>3, <1>6, <1>7, <1>9, <2>2, <3>1 DEF CopyAt, Copying
  <2> QED
    BY <1>2, <2>1, <2>2
<1>11. HeldInv'
  BY <1>1, <1>3, HeldStays DEF n
<1>12. \A v \in Vectors : Size(v)' = Size(v) /\ \A i \in 1..Size(v) :
           /\ KeyAt(v, i)' = KeyAt(v, i)
           /\ ValueAt(v, i)' \in {ValueAt(v, i), Rehashing}
  <2> SUFFICES ASSUME NEW v \in Vectors, v # vector
               PROVE  Size(v)' = Size(v) /\ \A i \in 1..Size(v) :
                         KeyAt(v, i)' = KeyAt(v, i) /\ ValueAt(v, i)' \in {ValueAt(v, i), Rehashing}
    BY <1>1, <1>4 DEF n, Size, KeyAt, ValueAt
  <2> QED
    BY <1>1 DEF Size, KeyAt, ValueAt
<1>13. \A v \in Vectors : \A i \in 1..Size(v)' :
           /\ KeyAt(v, i)' = Free => ValueAt(v, i)' \in {Free, Rehashing}
           /\ KeyAt(v, i)' = Deleted => ValueAt(v, i)' \notin Values
  <2> SUFFICES ASSUME NEW v \in Vectors, NEW i \in 1..Size(v)'
               PROVE  /\ KeyAt(v, i)' = Free => ValueAt(v, i)' \in {Free, Rehashing}
                      /\ KeyAt(v, i)' = Deleted => ValueAt(v, i)' \notin Values
    OBVIOUS
  <2>1. /\ i \in 1..Size(v) /\ KeyAt(v, i)' = KeyAt(v, i)
        /\ ValueAt(v, i)' \in {ValueAt(v, i), Rehashing}
    BY <1>12
  <2> QED
    BY <2>1, KeysAssumption DEF Structure, SlotInv
<1>14. threshold' \in Int /\ vector' \in Vectors
  BY <1>1, <1>3 DEF Structure, Shape
<1>15. pc[t] \in {"rehash"} \cup Owning /\ {"copy", "place"} \subseteq Owning
  BY <1>1 DEF Owning
<1> HIDE DEF to
<1>16. PICK p \in {"copy", "place"} : Goto(t, p)
  BY <1>2
<1> QED
  BY <1>1, <1>3, <1>10, <1>11, <1>12, <1>13, <1>14, <1>15, <1>16, RehasherStep

(* What storing the entry does.                                            *)
LEMMA PlaceEntryIs ==
  ASSUME Structure, NEW t \in Threads, PlaceEntry(t)
  PROVE  LET v == copy.to
             s == copy.carry.slot
         IN
         /\ pc[t] = "place" /\ vectors' \in [Vectors -> Tables]
         /\ \A x \in Vectors \ {v} : vectors'[x] = vectors[x]
         /\ s \in 1..Size(v) /\ KeyAt(v, s) = Free
         /\ Size(copy.to)' = Size(v) /\ (vectors[v].moved)' = vectors[v].moved
         /\ \A i \in 1..Size(v) : vectors'[v].slots[i] =
                IF i = s THEN Slot(copy.carry.key, copy.carry.value) ELSE vectors[v].slots[i]
         /\ Used(v)' = Used(v) \cup {s} /\ s \notin Used(v)
         /\ UNCHANGED <<vector, threshold, owner, address, request, my>> /\ answer' = NoAnswer
         /\ copy' \in Copies /\ (copy.to)' = v
         /\ (copy.full)' = copy.full /\ (copy.room)' = copy.room - 1
         /\ (copy.index)' = copy.index + 1 /\ (copy.carry)' = NoCarry
         /\ Goto(t, IF copy.room - 1 <= 0 THEN "error" ELSE "copy")
<1> DEFINE v == copy.to
<1> DEFINE s == copy.carry.slot
<1> DEFINE c == Slot(copy.carry.key, copy.carry.value)
<1>1. /\ pc[t] = "place" /\ Goto(t, IF copy.room - 1 <= 0 THEN "error" ELSE "copy")
      /\ vectors' = [vectors EXCEPT ![v].slots[s] = c]
      /\ copy' = [copy EXCEPT !.index = @ + 1, !.room = @ - 1, !.carry = NoCarry]
      /\ UNCHANGED <<vector, threshold, owner, address, request, my>> /\ answer' = NoAnswer
  BY DEF PlaceEntry, Keep
<1>2. /\ CopyAt(t) /\ v \in Vectors /\ copy.room \in Nat /\ copy.room > 0 /\ copy.index \in Nat
  BY <1>1, RehashParts, CopyParts DEF Copying
<1>3. /\ s \in 1..Size(v) /\ KeyAt(v, s) = Free
      /\ copy.carry.key \in Keys /\ copy.carry.value \in Values
  BY <1>1, <1>2 DEF CopyAt
<1>4. c \in Cells /\ c.key \in Keys
  BY <1>3 DEF Cells, Slot
<1>5. vectors' = Put(v, s, c)
  BY <1>1 DEF Put
<1> HIDE DEF c
<1>6. /\ vectors' \in [Vectors -> Tables] /\ \A x \in Vectors : x # v => vectors'[x] = vectors[x]
      /\ Len(vectors'[v].slots) = Size(v) /\ vectors'[v].moved = vectors[v].moved
      /\ vectors'[v].count = vectors[v].count
      /\ \A j \in 1..Size(v) : vectors'[v].slots[j] = IF j = s THEN c ELSE vectors[v].slots[j]
  BY <1>2, <1>3, <1>4, <1>5, CellPut DEF Structure
<1>7. /\ copy' \in Copies /\ (copy.to)' = v
      /\ (copy.full)' = copy.full /\ (copy.room)' = copy.room - 1
      /\ (copy.index)' = copy.index + 1 /\ (copy.carry)' = NoCarry
  <2> DEFINE x == [copy EXCEPT !.index = copy.index + 1]
  <2>1. /\ x \in Copies /\ x.to = v /\ x.full = copy.full /\ x.room = copy.room
        /\ x.index = copy.index + 1
    BY <1>2, CopyParts DEF Copies
  <2> DEFINE y == [x EXCEPT !.room = copy.room - 1]
  <2>2. /\ y \in Copies /\ y.to = v /\ y.full = copy.full /\ y.room = copy.room - 1
        /\ y.index = copy.index + 1
    <3> HIDE DEF x
    <3>1. copy.room - 1 \in Nat
      BY <1>2
    <3> QED
      BY <2>1, <3>1 DEF Copies
  <2>3. copy' = [y EXCEPT !.carry = NoCarry]
    BY <1>1
  <2>4. NoCarry \in Carries
    BY DEF NoCarry, Carries
  <2> HIDE DEF x, y
  <2> QED
    BY <2>2, <2>3, <2>4 DEF Copies
<1>8. Size(copy.to)' = Size(v)
  BY <1>6, <1>7 DEF Size
<1>9. Used(v)' = Used(v) \cup {s} /\ s \notin Used(v)
  <2>1. \A i \in 1..Size(v) : vectors'[v].slots[i].key # Free <=> i = s \/ KeyAt(v, i) # Free
    BY <1>3, <1>4, <1>6, KeysAssumption DEF KeyAt
  <2>2. Used(v)' = {i \in 1..Len(vectors'[v].slots) : vectors'[v].slots[i].key # Free}
    BY <1>7 DEF Used, Size, KeyAt
  <2>3. Used(v) = {i \in 1..Size(v) : KeyAt(v, i) # Free}
    BY DEF Used
  <2> HIDE DEF v, s
  <2> QED
    BY <1>3, <1>6, <2>1, <2>2, <2>3
<1> QED
  BY <1>1, <1>3, <1>6, <1>7, <1>8, <1>9 DEF c

LEMMA StepPlaceEntry == ASSUME Structure, NEW t \in Threads, PlaceEntry(t) PROVE Structure'
<1> DEFINE v == copy.to
<1> DEFINE s == copy.carry.slot
<1> DEFINE p == IF copy.room - 1 <= 0 THEN "error" ELSE "copy"
<1>1. /\ pc[t] = "place" /\ vectors' \in [Vectors -> Tables]
      /\ \A x \in Vectors \ {v} : vectors'[x] = vectors[x]
      /\ s \in 1..Size(v) /\ KeyAt(v, s) = Free
      /\ Size(copy.to)' = Size(v) /\ (vectors[v].moved)' = vectors[v].moved
      /\ \A i \in 1..Size(v) : vectors'[v].slots[i] =
             IF i = s THEN Slot(copy.carry.key, copy.carry.value) ELSE vectors[v].slots[i]
      /\ Used(v)' = Used(v) \cup {s} /\ s \notin Used(v)
      /\ UNCHANGED <<vector, threshold, owner, address, request, my>>
      /\ copy' \in Copies /\ (copy.to)' = v
      /\ (copy.full)' = copy.full /\ (copy.room)' = copy.room - 1
      /\ (copy.index)' = copy.index + 1 /\ (copy.carry)' = NoCarry
      /\ Goto(t, p)
  BY PlaceEntryIs
<1>2. /\ owner = t /\ CopyAt(t) /\ t # None /\ vector \in Vectors /\ Size(vector) \in Nat
      /\ v \in Vectors \ {vector} /\ \A u \in Threads : ~Holds(u, v)
      /\ copy.room \in Nat
  BY <1>1, RehashParts DEF Copying
<1>3. /\ copy.index \in 1..Size(vector) /\ ValueAt(vector, copy.index) = Rehashing
      /\ copy.carry.key \in Keys /\ copy.carry.value \in Values
      /\ Size(v) = copy.full + Slack /\ copy.full = Cardinality(Used(v)) + copy.room
      /\ \A i \in 1..copy.index - 1 : ValueAt(vector, i) = Rehashing
      /\ \A i \in Used(v) : KeyAt(v, i) \in Keys /\ ValueAt(v, i) \in Values
  BY <1>1, <1>2 DEF CopyAt, Copying
<1>4. /\ Size(vector)' = Size(vector)
      /\ \A i \in 1..Size(vector) : ValueAt(vector, i)' = ValueAt(vector, i)
  BY <1>1, <1>2 DEF Size, ValueAt
<1>5. \A i \in 1..Size(v) : /\ KeyAt(copy.to, i)' = IF i = s THEN copy.carry.key ELSE KeyAt(v, i)
                            /\ ValueAt(copy.to, i)' = IF i = s THEN copy.carry.value ELSE ValueAt(v, i)
  <2>1. (copy.to)' = v
    BY <1>1
  <2> QED
    BY <1>1, <2>1, SlotParts DEF KeyAt, ValueAt
<1>6. Used(copy.to)' = Used(v) \cup {s}
  BY <1>1 DEF Used
<1>7. Cardinality(Used(copy.to))' = Cardinality(Used(v)) + 1 /\ Cardinality(Used(v)) \in Nat
  <2>1. IsFiniteSet(Used(v)) /\ Cardinality(Used(v)) \in Nat
    BY <1>2, UsedFinite
  <2>2. Cardinality(Used(v) \cup {s}) = Cardinality(Used(v)) + 1
    BY <1>1, <2>1, FS_AddElement
  <2> QED
    BY <1>6, <2>1, <2>2
<1>8. \A u \in Threads : ~Holds(u, copy.to)'
  BY <1>1, <1>2 DEF Holds
<1>9. \A i \in Used(copy.to)' : KeyAt(copy.to, i)' \in Keys /\ ValueAt(copy.to, i)' \in Values
  <2> SUFFICES ASSUME NEW i \in Used(v) \cup {s}
               PROVE  KeyAt(copy.to, i)' \in Keys /\ ValueAt(copy.to, i)' \in Values
    BY <1>6
  <2>1. i \in 1..Size(v)
    BY <1>1 DEF Used
  <2> QED
    BY <1>3, <1>5, <2>1
<1>10. \A i \in 1..copy.index : ValueAt(vector, i)' = Rehashing
  BY <1>2, <1>3, <1>4
<1>11. pc'[t] = p /\ (p = "copy" => copy.room - 1 > 0)
  BY <1>1, <1>2 DEF Goto, Structure, Shape
<1>12. CopyAt(t)'
  <2>1. p \in {"copy", "error"}
    OBVIOUS
  <2> HIDE DEF p
  <2>2. (copy.to)' \in Vectors \ {vector} /\ vector' = vector
    BY <1>1, <1>2
  <2>3. CASE p = "copy"
    BY <1>1, <1>2, <1>3, <1>4, <1>7, <1>8, <1>9, <1>10, <1>11, <2>2, <2>3 DEF CopyAt, Copying
  <2>4. CASE p = "error"
    BY <1>8, <1>11, <2>2, <2>4 DEF CopyAt, Copying
  <2> QED
    BY <2>1, <2>3, <2>4
<1>13. HeldInv'
  BY <1>1, <1>2, <1>4, HeldStays
<1>14. \A x \in Vectors : (\E u \in Threads : Holds(u, x)) =>
           /\ Size(x)' = Size(x)
           /\ \A i \in 1..Size(x) : /\ KeyAt(x, i)' = KeyAt(x, i)
                                    /\ ValueAt(x, i)' \in {ValueAt(x, i), Rehashing}
  BY <1>1, <1>2 DEF Size, KeyAt, ValueAt
<1>15. \A x \in Vectors : \A i \in 1..Size(x)' :
           /\ KeyAt(x, i)' = Free => ValueAt(x, i)' \in {Free, Rehashing}
           /\ KeyAt(x, i)' = Deleted => ValueAt(x, i)' \notin Values
  <2> SUFFICES ASSUME NEW x \in Vectors, NEW i \in 1..Size(x)'
               PROVE  /\ KeyAt(x, i)' = Free => ValueAt(x, i)' \in {Free, Rehashing}
                      /\ KeyAt(x, i)' = Deleted => ValueAt(x, i)' \notin Values
    OBVIOUS
  <2>1. CASE x # v \/ i # s
    <3>1. i \in 1..Size(x)
      BY <1>1 DEF Size
    <3>2. vectors'[x].slots[i] = vectors[x].slots[i]
      BY <1>1, <2>1, <3>1
    <3> QED
      BY <3>1, <3>2 DEF KeyAt, ValueAt, Structure, SlotInv
  <2>2. CASE x = v /\ i = s
    <3>1. KeyAt(x, i)' = copy.carry.key
      BY <1>1, <2>2, SlotParts DEF KeyAt
    <3> QED
      BY <1>3, <3>1, KeysAssumption
  <2> QED
    BY <2>1, <2>2
<1>16. threshold' \in Int /\ vector' \in Vectors
  BY <1>1, <1>2 DEF Structure, Shape
<1>17. pc[t] \in {"rehash"} \cup Owning /\ p \in Owning \cup {"error"} /\ p \notin {"decide", "retry"}
  BY <1>1 DEF Owning
<1> HIDE DEF p
<1> QED
  BY <1>1, <1>2, <1>12, <1>13, <1>14, <1>15, <1>16, <1>17, RehasherStep

-----------------------------------------------------------------------------
(* Entries laid out in slots: each where it was placed, and nothing else.  *)
LEMMA StoredIs ==
  ASSUME NEW n \in Nat, NEW entries, NEW place \in Injection(DOMAIN entries, 1..n),
         \A e \in DOMAIN entries : entries[e] \in Cells
  PROVE  LET s == Stored(n, entries, place) IN
         /\ s \in Seq(Cells) /\ Len(s) = n
         /\ \A e \in DOMAIN entries : place[e] \in 1..n /\ s[place[e]] = entries[e]
         /\ \A i \in 1..n : \/ \E e \in DOMAIN entries : place[e] = i /\ s[i] = entries[e]
                            \/ /\ s[i] = Slot(Free, Free)
                               /\ \A e \in DOMAIN entries : place[e] # i
<1> DEFINE D == DOMAIN entries
<1> DEFINE s == Stored(n, entries, place)
<1> DEFINE at(i) == CHOOSE e \in D : place[e] = i
<1>1. place \in [D -> 1..n] /\ \A d, e \in D : place[d] = place[e] => d = e
  BY DEF Injection, IsInjective
<1>2. \A i \in 1..n : (\E e \in D : place[e] = i) => at(i) \in D /\ place[at(i)] = i
  OBVIOUS
<1>3. Slot(Free, Free) \in Cells
  BY DEF Slot, Cells
<1>4. s = [i \in 1..n |-> IF \E e \in D : place[e] = i THEN entries[at(i)] ELSE Slot(Free, Free)]
  BY DEF Stored
<1> HIDE DEF s, at, D
<1>5. /\ \A i \in 1..n : s[i] = IF \E e \in D : place[e] = i THEN entries[at(i)] ELSE Slot(Free, Free)
      /\ s \in [1..n -> Cells]
  <2>1. \A e \in D : entries[e] \in Cells
    BY DEF D
  <2> QED
    BY <1>2, <1>3, <1>4, <2>1
<1>6. s \in Seq(Cells) /\ Len(s) = n
  BY <1>5
<1>7. \A e \in D : place[e] \in 1..n /\ s[place[e]] = entries[e]
  <2> SUFFICES ASSUME NEW e \in D PROVE place[e] \in 1..n /\ s[place[e]] = entries[e]
    OBVIOUS
  <2>1. place[e] \in 1..n
    BY <1>1
  <2>2. at(place[e]) = e
    BY <1>1, <1>2, <2>1
  <2> QED
    BY <1>5, <2>1, <2>2
<1>8. \A i \in 1..n : \/ \E e \in D : place[e] = i /\ s[i] = entries[e]
                      \/ s[i] = Slot(Free, Free) /\ \A e \in D : place[e] # i
  BY <1>2, <1>5
<1> QED
  BY <1>6, <1>7, <1>8 DEF s, D

(* The slots in use.                                                      *)
UsedIn(s) == {i \in 1..Len(s) : s[i].key # Free}

(* The slots of a layout: as many in use as there are entries.             *)
LEMMA LayoutIs ==
  ASSUME NEW n \in Nat, NEW D, NEW entries, DOMAIN entries = D,
         NEW s \in Layouts(n, entries),
         \A e \in D : entries[e] \in Cells /\ entries[e].key # Free
  PROVE  /\ s \in Seq(Cells) /\ Len(s) = n /\ Laid(s)
         /\ \A e \in D : \E i \in 1..n : s[i] = entries[e]
         /\ \A i \in 1..n : \/ \E e \in D : s[i] = entries[e]
                            \/ s[i] = Slot(Free, Free)
         /\ (\A d, e \in D : entries[d].key = entries[e].key => d = e) =>
                \A i, j \in 1..n : s[i].key # Free /\ s[i].key = s[j].key => i = j
         /\ IsFiniteSet(D) =>
                Cardinality(UsedIn(s)) = Cardinality(D)
<1> DEFINE U == {i \in 1..n : s[i].key # Free}
<1>1. Laid(s)
  BY DEF Layouts
<1>2. PICK place \in Injection(D, 1..n) : s = Stored(n, entries, place)
  BY DEF Layouts
<1>3. place \in [D -> 1..n] /\ \A d, e \in D : place[d] = place[e] => d = e
  BY <1>2 DEF Injection, IsInjective
<1>4. /\ s \in Seq(Cells) /\ Len(s) = n
      /\ \A e \in D : place[e] \in 1..n /\ s[place[e]] = entries[e]
      /\ \A i \in 1..n : \/ \E e \in D : place[e] = i /\ s[i] = entries[e]
                         \/ s[i] = Slot(Free, Free) /\ \A e \in D : place[e] # i
  BY <1>2, StoredIs
<1>5. Slot(Free, Free).key = Free
  BY DEF Slot
<1>6. \A e \in D : place[e] \in U
  BY <1>4
<1>7. \A i \in U : \E e \in D : place[e] = i
  BY <1>4, <1>5
<1>8. place \in Bijection(D, U)
  BY <1>3, <1>6, <1>7 DEF Bijection, Injection, Surjection, IsInjective
<1>9. IsFiniteSet(D) => IsFiniteSet(U) /\ Cardinality(U) = Cardinality(D)
  BY <1>8, FS_Bijection DEF ExistsBijection
<1>10. ASSUME NEW i \in 1..n, NEW j \in 1..n, s[i].key # Free, s[i].key = s[j].key,
              \A d, e \in D : entries[d].key = entries[e].key => d = e
       PROVE  i = j
  <2>1. s[j].key # Free
    BY <1>10
  <2>2. PICK a \in D : place[a] = i /\ s[i] = entries[a]
    BY <1>4, <1>5, <1>10
  <2>3. PICK b \in D : place[b] = j /\ s[j] = entries[b]
    BY <1>4, <1>5, <1>10, <2>1
  <2> QED
    BY <1>10, <2>2, <2>3
<1>11. \A e \in D : \E i \in 1..n : s[i] = entries[e]
  BY <1>4
<1>12. UsedIn(s) = U
  BY <1>4 DEF UsedIn
<1> HIDE DEF U
<1> QED
  BY <1>1, <1>4, <1>9, <1>10, <1>11, <1>12

-----------------------------------------------------------------------------
(* The slots s hold what the slots old do, perhaps elsewhere.              *)
Relaid(s, old) ==
    /\ s \in Seq(Cells) /\ Len(s) = Len(old)
    /\ \A i \in 1..Len(s) : s[i].key = Free => s[i].value \in {Free, Rehashing}
    /\ \A i \in UsedIn(s) : \E j \in UsedIn(old) : old[j] = s[i]
    /\ \A j \in UsedIn(old) : \E i \in UsedIn(s) : s[i] = old[j]
    /\ Cardinality(UsedIn(s)) = Cardinality(UsedIn(old))
    /\ (\A i, j \in UsedIn(old) : old[i].key = old[j].key => i = j) =>
           \A i, j \in UsedIn(s) : s[i].key = s[j].key => i = j

(* A rehash in place, when all that is in use is an entry.                 *)
LEMMA RehashedIs ==
  ASSUME NEW old \in Seq(Cells), NEW s \in Rehashed(old), IsFiniteSet(UsedIn(old)),
         {i \in 1..Len(old) : IsLive(old[i])} = UsedIn(old)
  PROVE  Relaid(s, old) /\ Laid(s)
<1> DEFINE n == Len(old)
<1> DEFINE D == UsedIn(old)
<1> DEFINE entries == [i \in D |-> old[i]]
<1>1. n \in Nat /\ DOMAIN old = 1..n
  OBVIOUS
<1>2. {i \in DOMAIN old : IsLive(old[i])} = D
  BY <1>1
<1>3. s \in Layouts(n, entries)
  BY <1>2 DEF Rehashed
<1>4. DOMAIN entries = D /\ D \subseteq 1..n /\ \A e \in D : entries[e] = old[e]
  BY DEF UsedIn
<1>5. \A e \in D : entries[e] \in Cells /\ entries[e].key # Free
  BY <1>4 DEF UsedIn
<1> HIDE DEF entries, D, n
<1>6. /\ s \in Seq(Cells) /\ Len(s) = n /\ Laid(s)
      /\ \A e \in D : \E i \in 1..n : s[i] = entries[e]
      /\ \A i \in 1..n : \/ \E e \in D : s[i] = entries[e]
                         \/ s[i] = Slot(Free, Free)
      /\ (\A d, e \in D : entries[d].key = entries[e].key => d = e) =>
             \A i, j \in 1..n : s[i].key # Free /\ s[i].key = s[j].key => i = j
      /\ IsFiniteSet(D) => Cardinality(UsedIn(s)) = Cardinality(D)
  <2>1. n \in Nat /\ DOMAIN entries = D /\ s \in Layouts(n, entries)
    BY <1>1, <1>3, <1>4
  <2>2. \A e \in D : entries[e] \in Cells /\ entries[e].key # Free
    BY <1>5
  <2>3. s \in Seq(Cells)
    BY <2>1, <2>2, LayoutIs
  <2>4. Len(s) = n /\ Laid(s)
    BY <2>1, <2>2, LayoutIs
  <2>5. \A e \in D : \E i \in 1..n : s[i] = entries[e]
    BY <2>1, <2>2, LayoutIs
  <2>6. \A i \in 1..n : (\E e \in D : s[i] = entries[e]) \/ s[i] = Slot(Free, Free)
    BY <2>1, <2>2, LayoutIs
  <2>7. (\A d, e \in D : entries[d].key = entries[e].key => d = e) =>
             \A i, j \in 1..n : s[i].key # Free /\ s[i].key = s[j].key => i = j
    BY <2>1, <2>2, LayoutIs
  <2>8. IsFiniteSet(D) => Cardinality(UsedIn(s)) = Cardinality(D)
    BY <2>1, <2>2, LayoutIs
  <2> QED
    BY <2>3, <2>4, <2>5, <2>6, <2>7, <2>8
<1>7. Slot(Free, Free).key = Free /\ Slot(Free, Free).value = Free
  BY SlotParts
<1>8. UsedIn(s) = {i \in 1..n : s[i].key # Free}
  BY <1>6 DEF UsedIn
<1>9. Cardinality(UsedIn(s)) = Cardinality(D)
  BY <1>6, <1>8 DEF D
<1>10. \A i \in 1..n : s[i].key = Free => s[i].value \in {Free, Rehashing}
  BY <1>4, <1>5, <1>6, <1>7
<1>11. \A i \in UsedIn(s) : \E j \in D : old[j] = s[i]
  <2> SUFFICES ASSUME NEW i \in UsedIn(s) PROVE \E j \in D : old[j] = s[i]
    OBVIOUS
  <2>1. i \in 1..n /\ s[i] # Slot(Free, Free)
    BY <1>7, <1>8
  <2>2. PICK e \in D : s[i] = entries[e]
    BY <1>6, <2>1
  <2> QED
    BY <1>4, <2>2
<1>12. \A j \in D : \E i \in UsedIn(s) : s[i] = old[j]
  BY <1>4, <1>5, <1>6, <1>8
<1>13. (\A i, j \in D : old[i].key = old[j].key => i = j) =>
           \A i, j \in UsedIn(s) : s[i].key = s[j].key => i = j
  BY <1>4, <1>6, <1>8
<1> QED
  BY <1>6, <1>9, <1>10, <1>11, <1>12, <1>13 DEF Relaid, D, n

(* What the end of the copy does.                                          *)
LEMMA FinishCopyIs ==
  ASSUME Structure, NEW t \in Threads, FinishCopy(t)
  PROVE  LET v == copy.to IN
         /\ pc[t] = "copy" /\ copy.index = Size(vector) + 1
         /\ \E s \in Seq(Cells), tb \in Tables :
              /\ tb.slots = s /\ tb.moved = FALSE /\ tb.count = Cardinality(Used(v))
              /\ Relaid(s, vectors[v].slots)
              /\ IF vectors[v].moved THEN Laid(s) ELSE s = vectors[v].slots
              /\ vectors' = [vectors EXCEPT ![v] = tb]
         /\ threshold' = copy.room /\ Goto(t, "install")
         /\ UNCHANGED <<vector, owner, copy, address, request, my>> /\ answer' = NoAnswer
<1> DEFINE v == copy.to
<1> DEFINE old == vectors[v].slots
<1>1. /\ pc[t] = "copy" /\ copy.index > Last /\ threshold' = copy.room /\ Goto(t, "install")
      /\ UNCHANGED <<vector, owner, copy, address, request, my>> /\ answer' = NoAnswer
  BY DEF FinishCopy, Keep, rehashVars
<1>2. /\ CopyAt(t) /\ v \in Vectors /\ copy.index = Size(vector) + 1 /\ Size(vector) \in Nat
      /\ copy.room \in Nat /\ copy.full \in Nat
  BY <1>1, RehashParts, CopyParts DEF Copying
<1>3. /\ copy.full = Cardinality(Used(v)) + copy.room
      /\ \A i \in Used(v) : KeyAt(v, i) \in Keys /\ ValueAt(v, i) \in Values
  BY <1>1, <1>2 DEF CopyAt, Copying
<1>4. IsFiniteSet(Used(v)) /\ Cardinality(Used(v)) \in Nat
  BY <1>2, UsedFinite
<1>5. copy.full - copy.room = Cardinality(Used(v))
  BY <1>2, <1>3, <1>4
<1>6. PICK s \in IF vectors[v].moved THEN Rehashed(old) ELSE {old} :
          vectors' = [vectors EXCEPT ![v] = [slots |-> s, moved |-> FALSE, count |-> copy.full - copy.room]]
  BY DEF FinishCopy
<1>7. old \in Seq(Cells) /\ Len(old) = Size(v) /\ UsedIn(old) = Used(v)
  BY <1>2 DEF Structure, Shape, Tables, Size, UsedIn, Used, KeyAt
<1>8. {i \in 1..Len(old) : IsLive(old[i])} = UsedIn(old)
  <2>1. ASSUME NEW i \in 1..Size(v) PROVE IsLive(old[i]) <=> i \in Used(v)
    <3>1. /\ IsLive(old[i]) <=> ValueAt(v, i) \in Values
          /\ IsLive(old[i]) => KeyAt(v, i) \in Keys
      BY <1>2, LiveIs
    <3> QED
      BY <1>3, <3>1, KeysAssumption DEF Used
  <2>2. Used(v) \subseteq 1..Size(v)
    BY DEF Used
  <2> QED
    BY <1>7, <2>1, <2>2
<1>9. s \in Seq(Cells) /\ Relaid(s, old) /\ IF vectors[v].moved THEN Laid(s) ELSE s = old
  <2>1. CASE vectors[v].moved
    <3>1. s \in Rehashed(old)
      BY <1>6, <2>1
    <3>2. Relaid(s, old) /\ Laid(s)
      BY <1>4, <1>7, <1>8, <3>1, RehashedIs
    <3> QED
      BY <2>1, <3>2 DEF Relaid
  <2>2. CASE ~vectors[v].moved
    <3>1. s = old
      BY <1>6, <2>2
    <3>2. \A i \in 1..Size(v) : old[i].key = Free => old[i].value \in {Free, Rehashing}
      BY <1>2 DEF Structure, SlotInv, KeyAt, ValueAt
    <3> HIDE DEF old
    <3>3. Relaid(old, old)
      BY <1>7, <3>2 DEF Relaid
    <3> QED
      BY <1>7, <2>2, <3>1, <3>3
  <2> QED
    BY <2>1, <2>2
<1> DEFINE tb == [slots |-> s, moved |-> FALSE, count |-> copy.full - copy.room]
<1>10. tb \in Tables /\ tb.slots = s /\ tb.moved = FALSE /\ tb.count = Cardinality(Used(v))
  BY <1>4, <1>5, <1>9 DEF Tables
<1>11. vectors' = [vectors EXCEPT ![v] = tb]
  BY <1>6
<1> HIDE DEF tb
<1>12. \E x \in Seq(Cells), y \in Tables :
              /\ y.slots = x /\ y.moved = FALSE /\ y.count = Cardinality(Used(v))
              /\ Relaid(x, old) /\ (IF vectors[v].moved THEN Laid(x) ELSE x = old)
              /\ vectors' = [vectors EXCEPT ![v] = y]
  BY <1>9, <1>10, <1>11
<1> QED
  BY <1>1, <1>2, <1>12

LEMMA StepFinishCopy == ASSUME Structure, NEW t \in Threads, FinishCopy(t) PROVE Structure'
<1> DEFINE v == copy.to
<1> DEFINE old == vectors[v].slots
<1>1. /\ pc[t] = "copy" /\ copy.index = Size(vector) + 1
      /\ threshold' = copy.room /\ Goto(t, "install")
      /\ UNCHANGED <<vector, owner, copy, address, request, my>>
  BY FinishCopyIs
<1>2. PICK s \in Seq(Cells), tb \in Tables :
              /\ tb.slots = s /\ tb.moved = FALSE /\ tb.count = Cardinality(Used(v))
              /\ Relaid(s, old)
              /\ vectors' = [vectors EXCEPT ![v] = tb]
  BY FinishCopyIs
<1>3. /\ owner = t /\ CopyAt(t) /\ t # None /\ vector \in Vectors /\ Size(vector) \in Nat
      /\ v \in Vectors \ {vector} /\ \A u \in Threads : ~Holds(u, v)
      /\ copy.room \in Nat /\ copy.full \in Nat
  BY <1>1, RehashParts, CopyParts DEF Copying
<1>4. /\ vectors' \in [Vectors -> Tables] /\ vectors'[v] = tb
      /\ \A x \in Vectors \ {v} : vectors'[x] = vectors[x]
  BY <1>2, <1>3 DEF Structure, Shape
<1>5. /\ Size(copy.to)' = Size(v) /\ Used(copy.to)' = UsedIn(s) /\ UsedIn(old) = Used(v)
      /\ Len(s) = Size(v)
      /\ \A i \in 1..Size(v) : KeyAt(copy.to, i)' = s[i].key /\ ValueAt(copy.to, i)' = s[i].value
  BY <1>1, <1>2, <1>4 DEF Relaid, UsedIn, Used, Size, KeyAt, ValueAt
<1>6. /\ Size(v) = copy.full + Slack
      /\ copy.full = Cardinality(Used(v)) + copy.room /\ copy.room > 0
      /\ \A i \in 1..copy.index - 1 : ValueAt(vector, i) = Rehashing
      /\ \A i \in Used(v) : KeyAt(v, i) \in Keys /\ ValueAt(v, i) \in Values
      /\ copy.carry = NoCarry
  BY <1>1, <1>3 DEF CopyAt, Copying
<1>7. \A i \in UsedIn(s) : s[i].key \in Keys /\ s[i].value \in Values
  BY <1>2, <1>5, <1>6 DEF Relaid, KeyAt, ValueAt
<1>8. CopyAt(t)'
  <2>1. pc'[t] = "install"
    BY <1>1 DEF Goto, Structure, Shape
  <2>2. \A u \in Threads : ~Holds(u, copy.to)'
    BY <1>1, <1>3 DEF Holds
  <2>3. Size(vector)' = Size(vector) /\ \A i \in 1..copy.index-1 : ValueAt(vector, i)' = Rehashing
    BY <1>1, <1>3, <1>4, <1>6 DEF Size, ValueAt
  <2>4. Cardinality(Used(copy.to))' = Cardinality(Used(v))
    BY <1>2, <1>5 DEF Relaid
  <2>5. \A i \in Used(copy.to)' : KeyAt(copy.to, i)' \in Keys /\ ValueAt(copy.to, i)' \in Values
    BY <1>5, <1>7 DEF UsedIn
  <2>6. copy.index \in 1..Size(vector) + 1
    BY <1>1, <1>3
  <2> QED
    BY <1>1, <1>3, <1>5, <1>6, <2>1, <2>2, <2>3, <2>4, <2>5, <2>6 DEF CopyAt, Copying
<1>9. HeldInv'
  <2>1. Size(vector)' = Size(vector)
    BY <1>1, <1>3, <1>4 DEF Size
  <2> QED
    BY <1>1, <1>3, <1>4, <2>1, HeldStays
<1>10. \A x \in Vectors : (\E u \in Threads : Holds(u, x)) =>
           /\ Size(x)' = Size(x)
           /\ \A i \in 1..Size(x) : /\ KeyAt(x, i)' = KeyAt(x, i)
                                    /\ ValueAt(x, i)' \in {ValueAt(x, i), Rehashing}
  BY <1>3, <1>4 DEF Size, KeyAt, ValueAt
<1>11. \A x \in Vectors : \A i \in 1..Size(x)' :
           /\ KeyAt(x, i)' = Free => ValueAt(x, i)' \in {Free, Rehashing}
           /\ KeyAt(x, i)' = Deleted => ValueAt(x, i)' \notin Values
  <2> SUFFICES ASSUME NEW x \in Vectors, NEW i \in 1..Size(x)'
               PROVE  /\ KeyAt(x, i)' = Free => ValueAt(x, i)' \in {Free, Rehashing}
                      /\ KeyAt(x, i)' = Deleted => ValueAt(x, i)' \notin Values
    OBVIOUS
  <2>1. CASE x # v
    BY <1>4, <2>1 DEF KeyAt, ValueAt, Size, Structure, SlotInv
  <2>2. CASE x = v
    <3>1. i \in 1..Len(s) /\ KeyAt(x, i)' = s[i].key /\ ValueAt(x, i)' = s[i].value
      BY <1>2, <1>4, <2>2 DEF KeyAt, ValueAt, Size
    <3>2. s[i].key = Free => s[i].value \in {Free, Rehashing}
      BY <1>2, <3>1 DEF Relaid
    <3>3. s[i].key # Free => s[i].key \in Keys
      BY <1>7, <3>1 DEF UsedIn
    <3> QED
      BY <3>1, <3>2, <3>3, KeysAssumption
  <2> QED
    BY <2>1, <2>2
<1>12. threshold' \in Int /\ vector' \in Vectors /\ copy' \in Copies
  BY <1>1, <1>3, CopyParts
<1>13. pc[t] \in {"rehash"} \cup Owning /\ "install" \in Owning
  BY <1>1 DEF Owning
<1> QED
  BY <1>1, <1>3, <1>4, <1>8, <1>9, <1>10, <1>11, <1>12, <1>13, RehasherStep

LEMMA InstallIs ==
  ASSUME Structure, NEW t \in Threads, Install(t)
  PROVE  /\ pc[t] = "install" /\ vector' = copy.to /\ owner' = None /\ copy' = NoCopy
         /\ vectors' \in [Vectors -> Tables]
         /\ \A v \in Vectors \ {vector} : vectors'[v] = vectors[v]
         /\ IF \E u \in Threads : Holds(u, vector) THEN vectors'[vector] = vectors[vector]
            ELSE vectors'[vector] = Unused
         /\ Goto(t, "retry")
         /\ UNCHANGED <<threshold, address, request, my>> /\ answer' = NoAnswer
<1>1. /\ pc[t] = "install" /\ vector' = copy.to /\ owner' = None /\ copy' = NoCopy /\ Goto(t, "retry")
      /\ UNCHANGED <<threshold, address, request, my>> /\ answer' = NoAnswer
      /\ vectors' = IF \E u \in Threads : Holds(u, vector) THEN vectors
                    ELSE [vectors EXCEPT ![vector] = Unused]
  BY DEF Install, Keep, Holds
<1>2. vectors \in [Vectors -> Tables] /\ vector \in Vectors
  BY DEF Structure, Shape
<1> QED
  BY <1>1, <1>2, UnusedTable

LEMMA StepInstall == ASSUME Structure, NEW t \in Threads, Install(t) PROVE Structure'
<1>1. /\ pc[t] = "install" /\ vector' = copy.to /\ owner' = None /\ copy' = NoCopy
      /\ vectors' \in [Vectors -> Tables]
      /\ \A v \in Vectors \ {vector} : vectors'[v] = vectors[v]
      /\ Goto(t, "retry")
      /\ UNCHANGED <<threshold, address, request, my>>
  BY InstallIs
<1>2. IF \E u \in Threads : Holds(u, vector) THEN vectors'[vector] = vectors[vector]
      ELSE vectors'[vector] = Unused
  BY InstallIs
<1>3. /\ owner = t /\ CopyAt(t) /\ t # None /\ vector \in Vectors /\ Size(vector) \in Nat
      /\ copy.to \in Vectors \ {vector} /\ \A u \in Threads : ~Holds(u, copy.to)
  BY <1>1, RehashParts DEF Copying
<1>4. /\ Size(copy.to) > 0 /\ \A i \in 1..Size(vector) : ValueAt(vector, i) = Rehashing
  <2>1. /\ Size(copy.to) = copy.full + Slack /\ copy.full \in Nat /\ copy.index = Size(vector) + 1
        /\ \A i \in 1..copy.index - 1 : ValueAt(vector, i) = Rehashing
    BY <1>1, <1>3, CopyParts DEF CopyAt, Copying
  <2> QED
    BY <1>3, <2>1, SizesAssumption
<1>5. CopyAt(t)'
  <2>1. pc'[t] = "retry"
    BY <1>1 DEF Goto, Structure, Shape
  <2> QED
    BY <2>1 DEF CopyAt, Copying
<1>6. \A v \in Vectors : (\E u \in Threads : Holds(u, v)) => vectors'[v] = vectors[v]
  BY <1>1, <1>2
<1>7. \A v \in Vectors : vectors'[v] = vectors[v] \/ (v = vector /\ vectors'[v] = Unused)
  BY <1>1, <1>2
<1>8. HeldInv'
  <2>1. Size(vector)' > 0
    BY <1>1, <1>3, <1>4 DEF Size
  <2>2. ASSUME NEW v \in Vectors \ {copy.to}
        PROVE  /\ \/ Size(v)' > 0 /\ \A i \in 1..Size(v)' : ValueAt(v, i)' = Rehashing
                  \/ vectors'[v] = Unused /\ \A u \in Threads : ~Holds(u, v)
               /\ (\A u \in Threads : ~Holds(u, v)) => vectors'[v] = Unused
    <3>1. CASE v = vector
      <4>1. CASE \E u \in Threads : Holds(u, vector)
        BY <1>2, <1>4, <3>1, <4>1 DEF Structure, HeldInv, Size, ValueAt
      <4>2. CASE \A u \in Threads : ~Holds(u, vector)
        BY <1>2, <3>1, <4>2
      <4> QED
        BY <4>1, <4>2
    <3>2. CASE v # vector
      <4>1. vectors'[v] = vectors[v] /\ v \in Vectors \ {vector, copy.to}
        BY <1>1, <3>2
      <4> QED
        BY <4>1 DEF Structure, HeldInv, Size, ValueAt
    <3> QED
      BY <3>1, <3>2
  <2>3. ASSUME NEW u \in Threads, NEW v PROVE Holds(u, v)' <=> Holds(u, v)
    BY <1>1 DEF Holds
  <2>4. (copy.to)' = 0 /\ vector' = copy.to
    BY <1>1, CopyParts
  <2> QED
    BY <2>1, <2>2, <2>3, <2>4 DEF HeldInv, Holds
<1>9. \A v \in Vectors : (\E u \in Threads : Holds(u, v)) =>
           /\ Size(v)' = Size(v)
           /\ \A i \in 1..Size(v) : /\ KeyAt(v, i)' = KeyAt(v, i)
                                    /\ ValueAt(v, i)' \in {ValueAt(v, i), Rehashing}
  BY <1>6 DEF Size, KeyAt, ValueAt
<1>10. \A v \in Vectors : \A i \in 1..Size(v)' :
           /\ KeyAt(v, i)' = Free => ValueAt(v, i)' \in {Free, Rehashing}
           /\ KeyAt(v, i)' = Deleted => ValueAt(v, i)' \notin Values
  <2> SUFFICES ASSUME NEW v \in Vectors, NEW i \in 1..Size(v)'
               PROVE  /\ KeyAt(v, i)' = Free => ValueAt(v, i)' \in {Free, Rehashing}
                      /\ KeyAt(v, i)' = Deleted => ValueAt(v, i)' \notin Values
    OBVIOUS
  <2>1. vectors'[v] # Unused
    <3> SUFFICES ASSUME vectors'[v] = Unused PROVE FALSE
      OBVIOUS
    <3>1. Len(vectors'[v].slots) = 0
      BY UnusedTable
    <3> QED
      BY <3>1 DEF Size
  <2>2. vectors'[v] = vectors[v]
    BY <1>7, <2>1
  <2> QED
    BY <2>2 DEF KeyAt, ValueAt, Size, Structure, SlotInv
<1>11. threshold' \in Int /\ vector' \in Vectors /\ copy' \in Copies
  BY <1>1, <1>3, CopyParts DEF Structure, Shape
<1>12. pc[t] \in {"rehash"} \cup Owning /\ "retry" \notin Owning \cup {"error"} /\ owner' # t
  BY <1>1, <1>3 DEF Owning
<1> QED
  BY <1>1, <1>3, <1>5, <1>8, <1>9, <1>10, <1>11, <1>12, RehasherStep

-----------------------------------------------------------------------------
(* What a collection does: keys move, and slots stay as they are.          *)
MovedIn(v) == \E i \in 1..Size(v) : KeyAt(v, i) \in Keys /\ address'[KeyAt(v, i)] # address[KeyAt(v, i)]

LEMMA CollectIs ==
  ASSUME Structure, Collect
  PROVE  /\ address' \in [Keys -> 1..MaxAddress]
         /\ \A k \in Keys : address'[k] <= address[k]
         /\ CollectInWindow \/ \A t \in Threads : pc[t] # "place"
         /\ vectors' \in [Vectors -> Tables]
         /\ \A v \in Vectors :
              /\ vectors'[v].slots = vectors[v].slots /\ vectors'[v].count = vectors[v].count
              /\ vectors'[v].moved <=> vectors[v].moved \/ MovedIn(v)
              /\ vectors[v] = Unused => vectors'[v] = Unused
         /\ UNCHANGED <<vector, threshold, owner, copy, pc, request, my>> /\ answer' = NoAnswer
<1>1. /\ UNCHANGED <<vector, threshold, owner, copy, pc, request, my>> /\ answer' = NoAnswer
      /\ CollectInWindow \/ \A t \in Threads : pc[t] # "place"
  BY DEF Collect, Keep, rehashVars, threadVars
<1> DEFINE flag(v) == vectors[v].moved \/ \E i \in DOMAIN vectors[v].slots :
                           LET key == vectors[v].slots[i].key
                           IN  key \in Keys /\ address'[key] # address[key]
<1>2. /\ address' \in [Keys -> 1..MaxAddress] /\ \A k \in Keys : address'[k] <= address[k]
      /\ vectors' = [v \in Vectors |-> [vectors[v] EXCEPT !.moved = flag(v)]]
  BY DEF Collect
<1>3. ASSUME NEW v \in Vectors
      PROVE  /\ vectors'[v] \in Tables
             /\ vectors'[v].slots = vectors[v].slots /\ vectors'[v].count = vectors[v].count
             /\ vectors'[v].moved <=> vectors[v].moved \/ MovedIn(v)
             /\ vectors[v] = Unused => vectors'[v] = Unused
  <2>1. vectors[v] \in Tables /\ DOMAIN vectors[v].slots = 1..Size(v)
    BY DEF Structure, Shape, Tables, Size
  <2>2. flag(v) <=> vectors[v].moved \/ MovedIn(v)
    BY <2>1 DEF MovedIn, KeyAt
  <2>3. flag(v) \in BOOLEAN
    BY <2>1 DEF Tables
  <2>4. vectors'[v] = [vectors[v] EXCEPT !.moved = flag(v)]
    BY <1>2
  <2> HIDE DEF flag
  <2>5. /\ vectors'[v] \in Tables /\ vectors'[v].moved = flag(v)
        /\ vectors'[v].slots = vectors[v].slots /\ vectors'[v].count = vectors[v].count
    BY <2>1, <2>3, <2>4 DEF Tables
  <2>6. ASSUME vectors[v] = Unused PROVE vectors'[v] = Unused
    <3>1. Size(v) = 0 /\ ~vectors[v].moved
      BY <2>6, UnusedTable DEF Size
    <3>2. flag(v) = FALSE
      BY <2>2, <2>3, <3>1 DEF MovedIn
    <3>3. /\ vectors'[v].slots = Unused.slots /\ vectors'[v].moved = Unused.moved
          /\ vectors'[v].count = Unused.count /\ Unused \in Tables
      BY <2>5, <2>6, <3>2, UnusedTable
    <3> QED
      BY <2>5, <3>3 DEF Tables
  <2> QED
    BY <2>2, <2>5, <2>6
<1>4. vectors' \in [Vectors -> Tables]
  <2>1. DOMAIN vectors' = Vectors /\ vectors' = [v \in Vectors |-> vectors'[v]]
    BY <1>2
  <2> QED
    BY <1>3, <2>1
<1> QED
  BY <1>1, <1>2, <1>3, <1>4

(* A step that leaves the slots and everything of the threads as they are. *)
LEMMA SameSlots ==
  ASSUME Structure, UNCHANGED <<vector, threshold, owner, copy, pc, request, my>>,
         address' \in [Keys -> Int], vectors' \in [Vectors -> Tables],
         \A v \in Vectors : /\ vectors'[v].slots = vectors[v].slots
                            /\ vectors[v] = Unused => vectors'[v] = Unused
  PROVE  Structure'
<1>1. Shape'
  BY DEF Structure, Shape, Calls
<1>2. ASSUME NEW v \in Vectors
      PROVE  /\ Size(v)' = Size(v) /\ Used(v)' = Used(v)
             /\ \A i : KeyAt(v, i)' = KeyAt(v, i) /\ ValueAt(v, i)' = ValueAt(v, i)
  BY DEF Size, KeyAt, ValueAt, Used
<1>3. ASSUME NEW t \in Threads PROVE (OpAt(t) /\ HandAt(t) /\ CellAt(t))'
  <2>1. OpAt(t) /\ HandAt(t) /\ CellAt(t) /\ my[t].vector \in {0} \cup Vectors
    BY HandIs DEF Locals
  <2>2. OpAt(t)'
    BY <2>1 DEF OpAt
  <2>3. pc[t] \in AtSlot \cup {"check"} => my[t].vector \in Vectors
    BY <2>1 DEF HandAt, AtSlot
  <2>4. pc[t] \in AtSlot \cup {"check"} => Size(my[t].vector)' = Size(my[t].vector)
    BY <1>2, <2>3
  <2>5. HandAt(t)'
    BY <2>1, <2>4 DEF HandAt
  <2>6. CellAt(t)'
    <3>1. CASE pc[t] \notin AtSlot \cup {"check"}
      BY <3>1 DEF CellAt, AtSlot
    <3>2. CASE pc[t] \in AtSlot \cup {"check"}
      <4>1. /\ KeyAt(my[t].vector, my[t].slot)' = KeyAt(my[t].vector, my[t].slot)
            /\ ValueAt(my[t].vector, my[t].slot)' = ValueAt(my[t].vector, my[t].slot)
        BY <1>2, <2>3, <3>2 DEF KeyAt, ValueAt
      <4> QED
        BY <2>1, <4>1 DEF CellAt, Key
    <3> QED
      BY <3>1, <3>2
  <2> QED
    BY <2>2, <2>5, <2>6
<1>4. SlotInv'
  <2>1. \A v \in Vectors : \A i \in 1..Size(v)' :
           /\ KeyAt(v, i)' = Free => ValueAt(v, i)' \in {Free, Rehashing}
           /\ KeyAt(v, i)' = Deleted => ValueAt(v, i)' \notin Values
    BY <1>2 DEF Structure, SlotInv
  <2>2. \A t, u \in Threads :
           /\ pc'[t] \in Mine /\ pc'[u] \in Mine
           /\ my'[t].vector = my'[u].vector /\ my'[t].slot = my'[u].slot
           => t = u
    BY DEF Structure, SlotInv
  <2> QED
    BY <2>1, <2>2 DEF SlotInv
<1>5. vector \in Vectors /\ copy.to \in {0} \cup Vectors
  BY CopyParts DEF Structure, Shape
<1>6. HeldInv'
  <2>1. Size(vector)' > 0
    BY <1>2, <1>5 DEF Structure, HeldInv, Size
  <2>2. ASSUME NEW v \in Vectors \ {vector, copy.to}
        PROVE  /\ \/ Size(v)' > 0 /\ \A i \in 1..Size(v)' : ValueAt(v, i)' = Rehashing
                  \/ vectors'[v] = Unused /\ \A u \in Threads : ~Holds(u, v)'
               /\ (\A u \in Threads : ~Holds(u, v)') => vectors'[v] = Unused
    BY <1>2 DEF Structure, HeldInv, Holds
  <2> QED
    BY <2>1, <2>2 DEF HeldInv, Holds
<1>7. ASSUME NEW t \in Threads PROVE CopyAt(t)'
  <2>1. CopyAt(t)
    BY DEF Structure, CopyInv
  <2>2. Size(vector)' = Size(vector) /\ \A i : ValueAt(vector, i)' = ValueAt(vector, i)
    BY <1>2, <1>5 DEF Size, ValueAt
  <2>3. copy.to \in Vectors =>
           /\ Size(copy.to)' = Size(copy.to) /\ Used(copy.to)' = Used(copy.to)
           /\ \A i : KeyAt(copy.to, i)' = KeyAt(copy.to, i) /\ ValueAt(copy.to, i)' = ValueAt(copy.to, i)
    <3> SUFFICES ASSUME copy.to \in Vectors
                 PROVE  /\ Size(copy.to)' = Size(copy.to) /\ Used(copy.to)' = Used(copy.to)
                        /\ \A i : KeyAt(copy.to, i)' = KeyAt(copy.to, i)
                                  /\ ValueAt(copy.to, i)' = ValueAt(copy.to, i)
      OBVIOUS
    <3>1. PICK x \in Vectors : x = copy.to
      OBVIOUS
    <3>2. vectors'[x].slots = vectors[x].slots /\ (copy.to)' = x
      BY <3>1
    <3> QED
      BY <3>1, <3>2 DEF Size, KeyAt, ValueAt, Used
  <2>4. pc[t] \in Copying \/ (pc[t] = "error" /\ owner = t) => copy.to \in Vectors
    BY <2>1 DEF CopyAt
  <2> QED
    BY <2>1, <2>2, <2>3, <2>4 DEF CopyAt, Copying, Holds
<1>8. CopyInv'
  BY <1>7 DEF Structure, CopyInv, Rehasher
<1> QED
  BY <1>1, <1>3, <1>4, <1>6, <1>8 DEF Structure, ThreadInv

LEMMA StepCollect == ASSUME Structure, Collect PROVE Structure'
<1>1. address' \in [Keys -> Int]
  BY CollectIs
<1> QED
  BY <1>1, CollectIs, SameSlots

LEMMA SameStructure == ASSUME Structure, UNCHANGED vars PROVE Structure'
<1>1. UNCHANGED <<vector, vectors, threshold, owner, copy, address, pc, request, my>>
  BY DEF vars, tableVars, rehashVars, threadVars
<1>2. address' \in [Keys -> Int] /\ vectors' \in [Vectors -> Tables]
  BY <1>1 DEF Structure, Shape
<1> QED
  BY <1>1, <1>2, SameSlots

-----------------------------------------------------------------------------
(* What there is initially: one vector with some entries.                  *)
LEMMA InitIs ==
  ASSUME Init
  PROVE  /\ vector = 1 /\ vectors \in [Vectors -> Tables] /\ address \in [Keys -> Consed]
         /\ threshold \in {0, 1} /\ vectors[1].count \in Nat
         /\ Size(1) = MinSize + Slack /\ Cardinality(Used(1)) = vectors[1].count
         /\ vectors[1].count + threshold <= MinSize
         /\ ~vectors[1].moved /\ Laid(vectors[1].slots)
         /\ \A i \in 1..Size(1) :
              /\ KeyAt(1, i) \in Keys \cup {Free}
              /\ KeyAt(1, i) = Free => ValueAt(1, i) = Free
              /\ KeyAt(1, i) # Free => ValueAt(1, i) \in Values
         /\ \A i, j \in 1..Size(1) : KeyAt(1, i) # Free /\ KeyAt(1, i) = KeyAt(1, j) => i = j
         /\ \A v \in Vectors \ {1} : vectors[v] = Unused
         /\ owner = None /\ copy = NoCopy
         /\ pc = [t \in Threads |-> "idle"] /\ request = [t \in Threads |-> Idle]
         /\ my = [t \in Threads |-> NoLocals]
<1>1. PICK held \in SUBSET Keys, value \in Values :
           /\ threshold \in {0, 1} /\ Cardinality(held) + threshold <= MinSize
           /\ \E slots \in Layouts(MinSize + Slack, [k \in held |-> Slot(k, value)]) :
                  vectors = [v \in Vectors |->
                      IF v = 1 THEN [slots |-> slots, moved |-> FALSE, count |-> Cardinality(held)]
                      ELSE Unused]
  BY DEF Init
<1> DEFINE entries == [k \in held |-> Slot(k, value)]
<1> DEFINE n == MinSize + Slack
<1>2. PICK s \in Layouts(n, entries) :
          vectors = [v \in Vectors |->
              IF v = 1 THEN [slots |-> s, moved |-> FALSE, count |-> Cardinality(held)] ELSE Unused]
  BY <1>1
<1>3. n \in Nat /\ DOMAIN entries = held
  BY SizesAssumption
<1>4. \A k \in held : /\ entries[k] \in Cells /\ entries[k].key = k /\ entries[k].value = value
                      /\ entries[k].key # Free /\ k \in Keys
  BY KeysAssumption DEF Slot, Cells
<1>5. IsFiniteSet(held) /\ Cardinality(held) \in Nat
  BY KeysAssumption, FS_Subset, FS_CardinalityType
<1> HIDE DEF entries, n
<1>6. \A k \in held : entries[k] \in Cells /\ entries[k].key # Free
  BY <1>4
<1>7. s \in Seq(Cells) /\ Len(s) = n /\ Laid(s)
  BY <1>3, <1>6, LayoutIs
<1>8. \A i \in 1..n : (\E k \in held : s[i] = entries[k]) \/ s[i] = Slot(Free, Free)
  BY <1>3, <1>6, LayoutIs
<1>9. \A i, j \in 1..n : s[i].key # Free /\ s[i].key = s[j].key => i = j
  <2>1. \A d, e \in held : entries[d].key = entries[e].key => d = e
    BY <1>4
  <2> QED
    BY <1>3, <1>6, <2>1, LayoutIs
<1>10. Cardinality(UsedIn(s)) = Cardinality(held)
  BY <1>3, <1>5, <1>6, LayoutIs
<1>11. Slot(Free, Free).key = Free /\ Slot(Free, Free).value = Free
  BY SlotParts
<1>12. ASSUME NEW i \in 1..n
       PROVE  /\ s[i].key \in Keys \cup {Free} /\ (s[i].key = Free => s[i].value = Free)
              /\ s[i].key # Free => s[i].value \in Values
  BY <1>4, <1>8, <1>11
<1> DEFINE tb == [slots |-> s, moved |-> FALSE, count |-> Cardinality(held)]
<1>13. tb \in Tables /\ tb.slots = s /\ tb.moved = FALSE /\ tb.count = Cardinality(held)
  BY <1>5, <1>7 DEF Tables
<1> HIDE DEF tb
<1>14. vectors = [v \in Vectors |-> IF v = 1 THEN tb ELSE Unused]
  BY <1>2 DEF tb
<1>15. /\ vectors \in [Vectors -> Tables] /\ vectors[1] = tb
       /\ \A v \in Vectors \ {1} : vectors[v] = Unused
  BY <1>13, <1>14, ConstantTypes, UnusedTable
<1>16. /\ Size(1) = n /\ Used(1) = UsedIn(s)
       /\ \A i \in 1..n : KeyAt(1, i) = s[i].key /\ ValueAt(1, i) = s[i].value
  BY <1>7, <1>13, <1>15 DEF Size, Used, UsedIn, KeyAt, ValueAt
<1>17. address \in [Keys -> Consed]
  BY KeysAssumption DEF Init
<1>18. /\ vector = 1 /\ owner = None /\ copy = NoCopy
       /\ pc = [t \in Threads |-> "idle"] /\ request = [t \in Threads |-> Idle]
       /\ my = [t \in Threads |-> NoLocals]
  BY DEF Init
<1>19. /\ Size(1) = MinSize + Slack /\ vectors[1].count \in Nat
       /\ Cardinality(Used(1)) = vectors[1].count /\ vectors[1].count + threshold <= MinSize
       /\ ~vectors[1].moved /\ Laid(vectors[1].slots)
  BY <1>1, <1>5, <1>7, <1>10, <1>13, <1>15, <1>16 DEF n
<1>20. \A i \in 1..Size(1) :
              /\ KeyAt(1, i) \in Keys \cup {Free}
              /\ KeyAt(1, i) = Free => ValueAt(1, i) = Free
              /\ KeyAt(1, i) # Free => ValueAt(1, i) \in Values
  BY <1>12, <1>16
<1>21. \A i, j \in 1..Size(1) : KeyAt(1, i) # Free /\ KeyAt(1, i) = KeyAt(1, j) => i = j
  BY <1>9, <1>16
<1> QED
  BY <1>1, <1>15, <1>17, <1>18, <1>19, <1>20, <1>21

LEMMA InitStructure == Init => Structure
<1> SUFFICES ASSUME Init PROVE Structure
  OBVIOUS
<1>1. Consed \subseteq Int
  <2>1. Cardinality(Keys) \in Nat
    BY KeysAssumption, FS_CardinalityType
  <2> QED
    BY <2>1, SizesAssumption DEF Consed
<1>2. address \in [Keys -> Int]
  BY <1>1, InitIs
<1>3. NoLocals \in Locals /\ NoLocals.vector = 0 /\ NoLocals.slot = 0
  BY DEF NoLocals, Locals
<1>4. NoCopy \in Copies /\ NoCopy.to = 0 /\ NoCopy.carry = NoCarry
  BY DEF NoCopy, NoCarry, Copies, Carries
<1>5. Idle \in Requests /\ "idle" \in Points
  BY DEF Requests, Points
<1>6. Shape
  BY <1>2, <1>3, <1>4, <1>5, InitIs, ConstantTypes DEF Shape
<1>7. ThreadInv
  BY <1>3, InitIs, KeysAssumption DEF ThreadInv, OpAt, HandAt, CellAt, AtSlot, Owning
<1>8. SlotInv
  <2>1. ASSUME NEW v \in Vectors, NEW i \in 1..Size(v)
        PROVE  /\ KeyAt(v, i) = Free => ValueAt(v, i) \in {Free, Rehashing}
               /\ KeyAt(v, i) = Deleted => ValueAt(v, i) \notin Values
    <3>1. v = 1
      <4> SUFFICES ASSUME v # 1 PROVE FALSE
        OBVIOUS
      <4>1. Size(v) = 0
        BY InitIs, UnusedTable DEF Size
      <4> QED
        BY <4>1
    <3>2. KeyAt(1, i) \in Keys \cup {Free} /\ (KeyAt(1, i) = Free => ValueAt(1, i) = Free)
      BY <3>1, InitIs
    <3> QED
      BY <3>1, <3>2, KeysAssumption
  <2>2. \A t \in Threads : pc[t] \notin Mine
    BY InitIs DEF Mine
  <2> QED
    BY <2>1, <2>2 DEF SlotInv
<1>9. HeldInv
  <2>1. Size(vector) > 0
    BY InitIs, SizesAssumption
  <2>2. \A u \in Threads, v \in Vectors : ~Holds(u, v)
    BY <1>3, InitIs, ConstantTypes DEF Holds
  <2> QED
    BY <2>1, <2>2, InitIs DEF HeldInv
<1>10. CopyInv
  BY InitIs, ConstantTypes DEF CopyInv, CopyAt, Copying, Rehasher
<1> QED
  BY <1>6, <1>7, <1>8, <1>9, <1>10 DEF Structure

-----------------------------------------------------------------------------
LEMMA NextStructure == ASSUME Structure, [Next]_vars PROVE Structure'
<1>1. CASE UNCHANGED vars
  BY <1>1, SameStructure
<1>2. ASSUME NEW t \in Threads, Call(t) PROVE Structure'
  BY <1>2, CallIs
<1>3. ASSUME NEW t \in Threads, Step(t) PROVE Structure'
  <2>1. CASE Retry(t) \/ FindNew(t) \/ Find(t) \/ CheckFound(t) \/ CheckForPut(t)
    BY <2>1, RetryIs, FindNewIs, FindIs, CheckFoundIs, CheckForPutIs
  <2>2. CASE GetValue(t) \/ RemoveValue(t) \/ PutValue(t) \/ SwapValue(t)
    BY <2>2, GetValueIs, RemoveValueIs, PutValueIs, SwapValueIs
  <2>3. CASE CountRemoved(t) \/ ClearKey(t) \/ Reserve(t) \/ ClaimKey(t)
    BY <2>3, CountRemovedIs, ClearKeyIs, ReserveIs, ClaimKeyIs
  <2>4. CASE CheckMoved(t) \/ FillValue(t) \/ CountAdded(t) \/ Done(t)
    BY <2>4, CheckMovedIs, FillValueIs, CountAddedIs, DoneIs
  <2>5. CASE Lock(t) \/ Decide(t) \/ CountSlot(t) \/ MakeVector(t)
    BY <2>5, StepLock, StepDecide, StepCountSlot, StepMakeVector
  <2>6. CASE CopySlot(t) \/ PlaceEntry(t) \/ FinishCopy(t) \/ Install(t)
    BY <2>6, StepCopySlot, StepPlaceEntry, StepFinishCopy, StepInstall
  <2> QED
    BY <1>3, <2>1, <2>2, <2>3, <2>4, <2>5, <2>6 DEF Step
<1>4. CASE Collect
  BY <1>4, StepCollect
<1> QED
  BY <1>1, <1>2, <1>3, <1>4 DEF Next

(* Whatever runs, each thread has in hand what it should, a slot is at most *)
(* one thread's own, and the vectors are where the rehash and the threads   *)
(* left them.                                                               *)
THEOREM StructureHolds == Spec => []Structure
<1> QED
  BY InitStructure, NextStructure, PTL DEF Spec

-----------------------------------------------------------------------------
(* The threads at a point of an operation on the current vector, and how   *)
(* many there are after a step of thread t.                                *)
Pending(p) == {t \in Threads : pc[t] = p /\ my[t].vector = vector}

LEMMA PendingFinite == \A p : /\ IsFiniteSet(Pending(p)) /\ Uncounted(p) = Cardinality(Pending(p))
                              /\ Uncounted(p) \in Nat
<1> SUFFICES ASSUME NEW p
             PROVE  /\ IsFiniteSet(Pending(p)) /\ Uncounted(p) = Cardinality(Pending(p))
                    /\ Uncounted(p) \in Nat
  OBVIOUS
<1>1. IsFiniteSet(Pending(p))
  BY ConstantTypes, FS_Subset DEF Pending
<1>2. Cardinality(Pending(p)) \in Nat
  BY <1>1, FS_CardinalityType
<1> QED
  BY <1>1, <1>2 DEF Uncounted, Pending

LEMMA PendingAfter ==
  ASSUME NEW t \in Threads, vector' = vector, NEW p,
         \A u \in Threads \ {t} : pc'[u] = pc[u] /\ my'[u] = my[u]
  PROVE  /\ (t \in Pending(p)' <=> t \in Pending(p)) => Uncounted(p)' = Uncounted(p)
         /\ t \in Pending(p)' /\ t \notin Pending(p) => Uncounted(p)' = Uncounted(p) + 1
         /\ t \notin Pending(p)' /\ t \in Pending(p) => Uncounted(p)' = Uncounted(p) - 1
         /\ pc[t] # p /\ pc'[t] # p => Uncounted(p)' = Uncounted(p)
         /\ Uncounted(p)' \in Nat
<1>1. \A u \in Threads \ {t} : u \in Pending(p)' <=> u \in Pending(p)
  BY DEF Pending
<1>2. Pending(p) \subseteq Threads /\ Pending(p)' \subseteq Threads
  BY DEF Pending
<1>3. /\ IsFiniteSet(Pending(p)) /\ Uncounted(p) = Cardinality(Pending(p))
      /\ Uncounted(p)' = Cardinality(Pending(p)')
  BY PendingFinite DEF Uncounted, Pending
<1> DEFINE before == Pending(p)
<1> DEFINE after == Pending(p)'
<1>4. (t \in after <=> t \in before) => after = before
  BY <1>1, <1>2
<1>5. t \in after /\ t \notin before => after = before \cup {t}
  BY <1>1, <1>2
<1>6. t \notin after /\ t \in before => after = before \ {t}
  BY <1>1, <1>2
<1>7. pc[t] # p /\ pc'[t] # p => (t \in after <=> t \in before)
  BY DEF Pending
<1>10. Cardinality(after) \in Nat
  BY <1>2, ConstantTypes, FS_Subset, FS_CardinalityType
<1> HIDE DEF before, after
<1>8. t \notin before => Cardinality(before \cup {t}) = Cardinality(before) + 1
  BY <1>3, FS_AddElement DEF before
<1>9. t \in before => Cardinality(before \ {t}) = Cardinality(before) - 1
  BY <1>3, FS_RemoveElement DEF before
<1> QED
  BY <1>3, <1>4, <1>5, <1>6, <1>7, <1>8, <1>9, <1>10 DEF before, after

-----------------------------------------------------------------------------
(* The slots of a vector that are free.                                    *)
FreeSlots(v) == {i \in 1..Size(v) : KeyAt(v, i) = Free}

LEMMA FreeCount ==
  ASSUME Structure, NEW v \in Vectors
  PROVE  /\ IsFiniteSet(FreeSlots(v)) /\ Cardinality(FreeSlots(v)) \in Nat
         /\ Cardinality(FreeSlots(v)) = Size(v) - Cardinality(Used(v))
<1>1. /\ Size(v) \in Nat /\ IsFiniteSet(1..Size(v)) /\ Cardinality(1..Size(v)) = Size(v)
      /\ IsFiniteSet(Used(v)) /\ Cardinality(Used(v)) \in Nat
  BY UsedFinite
<1>2. FreeSlots(v) = (1..Size(v)) \ Used(v) /\ (1..Size(v)) \cap Used(v) = Used(v)
  BY DEF FreeSlots, Used
<1>3. /\ IsFiniteSet(FreeSlots(v))
      /\ Cardinality(FreeSlots(v)) = Cardinality(1..Size(v)) - Cardinality((1..Size(v)) \cap Used(v))
  BY <1>1, <1>2, FS_Difference
<1>4. Cardinality(FreeSlots(v)) \in Nat
  BY <1>3, FS_CardinalityType
<1> QED
  BY <1>1, <1>2, <1>3, <1>4

(* The slots that are free after a step of an operation.                   *)
LEMMA FreeAfter ==
  ASSUME Structure, NEW t \in Threads, NEW c, NEW n, Does(t, c, n)
  PROVE  /\ (c.key = Free <=> MySlot(t).key = Free) \/ my[t].vector # vector =>
                FreeSlots(vector)' = FreeSlots(vector)
         /\ \A v \in Vectors : v = copy.to /\ my[t].vector # v => vectors'[v].slots = vectors[v].slots
         /\ FreeSlots(vector) \ {my[t].slot} \subseteq FreeSlots(vector)'
         /\ IsFiniteSet(FreeSlots(vector)')
<1>0. PICK v \in Vectors : v = vector
  BY DEF Structure, Shape
<1>1. /\ ~Gone(vector) /\ ~Gone(copy.to) /\ vector' = vector
      /\ v = vector /\ v' = v
  BY <1>0, DoesAfter
<1>2. /\ Size(v)' = Size(v)
      /\ \A i \in 1..Size(v) :
           /\ v = my[t].vector /\ i = my[t].slot => vectors'[v].slots[i] = c
           /\ v # my[t].vector \/ i # my[t].slot => vectors'[v].slots[i] = vectors[v].slots[i]
  BY <1>0, <1>1, DoesAfter
<1>3. ASSUME NEW i \in 1..Size(v), i # my[t].slot \/ my[t].vector # vector
      PROVE  KeyAt(v, i)' = KeyAt(v, i)
  BY <1>1, <1>2, <1>3 DEF KeyAt
<1>4. ASSUME NEW i \in 1..Size(v), i = my[t].slot, my[t].vector = vector
      PROVE  KeyAt(v, i)' = c.key /\ KeyAt(v, i) = MySlot(t).key
  BY <1>1, <1>2, <1>4 DEF KeyAt, MySlot, MyVector
<1>5. /\ FreeSlots(vector) = {i \in 1..Size(v) : KeyAt(v, i) = Free}
      /\ FreeSlots(vector)' = {i \in 1..Size(v) : KeyAt(v, i)' = Free}
  BY <1>1, <1>2 DEF FreeSlots, Size, KeyAt
<1>6. (c.key = Free <=> MySlot(t).key = Free) \/ my[t].vector # vector =>
          \A i \in 1..Size(v) : KeyAt(v, i)' = Free <=> KeyAt(v, i) = Free
  BY <1>3, <1>4
<1>7. FreeSlots(vector) \ {my[t].slot} \subseteq FreeSlots(vector)'
  BY <1>3, <1>5
<1>8. ASSUME NEW x \in Vectors, x = copy.to, my[t].vector # x
      PROVE  vectors'[x].slots = vectors[x].slots
  <2>1. PICK w : Written(t, w, c, n) /\ Moves(t, w)
    BY DEF Does
  <2>2. vectors'[x] = w[x]
    BY <1>1, <1>8, <2>1 DEF Moves
  <2> QED
    BY <1>8, <2>1, <2>2 DEF Written
<1>9. IsFiniteSet(FreeSlots(vector)')
  <2>1. FreeSlots(vector)' \subseteq 1..Size(v) /\ IsFiniteSet(1..Size(v))
    BY <1>5, UsedFinite
  <2> QED
    BY <2>1, FS_Subset
<1> QED
  BY <1>5, <1>6, <1>7, <1>8, <1>9

-----------------------------------------------------------------------------
(* The threshold promises no more slots than are free, those that threads  *)
(* have reserved and not claimed included; and a finished copy has as much *)
(* room as it will be said to have.                                        *)
Room ==
    /\ copy = NoCopy => threshold + Slack + Uncounted("claim") <= Cardinality(FreeSlots(vector))
    /\ \A t \in Threads :
           pc[t] = "install" => threshold + Slack <= Cardinality(FreeSlots(copy.to))

(* A new vector that an operation cannot have stays as it is.              *)
LEMMA NewStays ==
  ASSUME Structure, NEW t \in Threads, NEW c, NEW n, Does(t, c, n),
         NEW u \in Threads, pc'[u] = "install", pc'[t] # "install"
  PROVE  /\ pc[u] = "install" /\ copy.to \in Vectors /\ (copy.to)' = copy.to
         /\ \A v \in Vectors : v = copy.to =>
                vectors'[v].slots = vectors[v].slots /\ vectors'[v].count = vectors[v].count
<1>1. u # t /\ pc[u] = "install" /\ copy' = copy /\ ~Gone(copy.to)
  BY DoesAfter
<1>2. copy.to \in Vectors /\ my[t].vector # copy.to
  BY <1>1, RehashParts DEF Copying, Holds
<1> QED
  BY <1>1, <1>2, FreeAfter, DoesAfter

(* A step that frees nothing, promises nothing and claims nothing.         *)
LEMMA RoomKept ==
  ASSUME Structure, Room, NEW t \in Threads, NEW c, NEW n, Does(t, c, n), Structure',
         pc'[t] \notin {"claim", "install"}, threshold' = threshold,
         c.key = Free <=> MySlot(t).key = Free
  PROVE  Room'
<1>1. copy' = copy /\ vector' = vector
  BY DoesAfter
<1>2. FreeSlots(vector)' = FreeSlots(vector)
  BY FreeAfter
<1>3. Uncounted("claim")' <= Uncounted("claim")
  <2>1. /\ vector' = vector /\ \A u \in Threads \ {t} : pc'[u] = pc[u] /\ my'[u] = my[u]
        /\ t \notin Pending("claim")'
    BY DoesAfter DEF Pending
  <2>2. Uncounted("claim") \in Nat
    BY PendingFinite
  <2> QED
    BY <2>1, <2>2, PendingAfter
<1>4. ASSUME NEW u \in Threads, pc'[u] = "install"
      PROVE  (threshold + Slack <= Cardinality(FreeSlots(copy.to)))'
  <2>1. /\ pc[u] = "install" /\ copy.to \in Vectors /\ (copy.to)' = copy.to
        /\ \A v \in Vectors : v = copy.to => vectors'[v].slots = vectors[v].slots
    BY <1>4, NewStays
  <2>2. FreeSlots(copy.to)' = FreeSlots(copy.to)
    BY <2>1 DEF FreeSlots, Size, KeyAt
  <2> QED
    BY <2>1, <2>2 DEF Room
<1>5. (copy = NoCopy)' => (threshold + Slack + Uncounted("claim") <= Cardinality(FreeSlots(vector)))'
  <2>1. /\ threshold \in Int /\ Slack \in Int /\ Uncounted("claim") \in Nat
        /\ Cardinality(FreeSlots(vector)) \in Nat
    BY PendingFinite, FreeCount, SizesAssumption DEF Structure, Shape
  <2>2. Uncounted("claim")' \in Nat
    BY <1>1, DoesAfter, PendingAfter
  <2> QED
    BY <1>1, <1>2, <1>3, <2>1, <2>2 DEF Room
<1> QED
  BY <1>4, <1>5 DEF Room

(* A step of an operation other than the two that make room and use it.    *)
Operation(t) ==
    \/ Call(t) \/ Retry(t) \/ FindNew(t) \/ Find(t) \/ CheckFound(t) \/ CheckForPut(t)
    \/ GetValue(t) \/ RemoveValue(t) \/ PutValue(t) \/ SwapValue(t)
    \/ CountRemoved(t) \/ ClearKey(t) \/ CheckMoved(t) \/ FillValue(t) \/ CountAdded(t) \/ Done(t)

LEMMA OperationIs ==
  ASSUME Structure, NEW t \in Threads, Operation(t)
  PROVE  /\ threshold' = threshold /\ pc'[t] \notin {"claim"} \cup Owning
         /\ \E c, n : Does(t, c, n) /\ (c.key = Free <=> MySlot(t).key = Free)
<1> DEFINE Good == /\ threshold' = threshold /\ pc'[t] \notin {"claim"} \cup Owning
                   /\ \E c, n : Does(t, c, n) /\ (c.key = Free <=> MySlot(t).key = Free)
<1>1. ASSUME NEW n, Does(t, MySlot(t), n), threshold' = threshold,
             pc'[t] \notin {"claim"} \cup Owning
      PROVE  Good
  BY <1>1
<1>2. ASSUME NEW c, Does(t, c, 0), c.key # Free, MySlot(t).key # Free, threshold' = threshold,
             pc'[t] \notin {"claim"} \cup Owning
      PROVE  Good
  BY <1>2
<1>3. Same => threshold' = threshold
  BY DEF Same
<1>4. ASSUME NEW k, NEW x, k # Free PROVE Slot(k, x).key # Free
  BY <1>4, SlotParts
<1>5. CASE Call(t)
  BY <1>1, <1>5, CallIs DEF Owning
<1>6. CASE Retry(t)
  BY <1>1, <1>3, <1>6, RetryIs DEF Owning
<1>7. CASE FindNew(t)
  BY <1>1, <1>3, <1>7, FindNewIs DEF Owning
<1>8. CASE Find(t)
  BY <1>1, <1>3, <1>8, FindIs DEF Owning
<1>9. CASE CheckFound(t)
  BY <1>1, <1>3, <1>9, CheckFoundIs DEF Owning
<1>10. CASE CheckForPut(t)
  BY <1>1, <1>3, <1>10, CheckForPutIs DEF Owning
<1>11. CASE GetValue(t)
  BY <1>1, <1>3, <1>11, GetValueIs DEF Owning
<1>12. CASE RemoveValue(t)
  BY <1>1, <1>3, <1>12, RemoveValueIs DEF Owning
<1>13. CASE PutValue(t)
  BY <1>1, <1>3, <1>13, PutValueIs DEF Owning
<1>14. CASE SwapValue(t)
  <2>1. MySlot(t).key # Free
    <3>1. pc[t] = "swap" /\ pc[t] \in AtSlot
      BY <1>14, SwapValueIs DEF AtSlot
    <3> QED
      BY <3>1, InHand, HandIs DEF CellAt
  <2> QED
    BY <1>1, <1>2, <1>3, <1>4, <1>14, <2>1, SwapValueIs DEF Owning
<1>15. CASE CountRemoved(t)
  BY <1>1, <1>3, <1>15, CountRemovedIs DEF Owning
<1>16. ASSUME pc[t] \in Mine PROVE MySlot(t).key # Free
  <2>1. pc[t] \in AtSlot
    BY <1>16 DEF Mine, AtSlot
  <2>2. MySlot(t).key = Key(t) /\ Key(t) \in Keys
    BY <1>16, <2>1, InHand, HandIs DEF CellAt, Mine
  <2> QED
    BY <2>2, KeysAssumption
<1>17. CASE ClearKey(t)
  <2>1. pc[t] \in Mine
    BY <1>17, ClearKeyIs DEF Mine
  <2>2. Does(t, Slot(Deleted, MySlot(t).value), 0) /\ threshold' = threshold /\ pc'[t] = "idle"
    BY <1>17, ClearKeyIs
  <2> QED
    BY <1>2, <1>4, <1>16, <2>1, <2>2, KeysAssumption DEF Owning
<1>18. CASE CheckMoved(t)
  <2>1. pc[t] \in Mine
    BY <1>18, CheckMovedIs DEF Mine
  <2> QED
    BY <1>1, <1>2, <1>3, <1>4, <1>16, <1>18, <2>1, CheckMovedIs, KeysAssumption DEF Owning
<1>19. CASE FillValue(t)
  <2>1. pc[t] \in Mine
    BY <1>19, FillValueIs DEF Mine
  <2> QED
    BY <1>1, <1>2, <1>3, <1>4, <1>16, <1>19, <2>1, FillValueIs DEF Owning
<1>20. CASE CountAdded(t)
  BY <1>1, <1>20, CountAddedIs DEF Owning
<1>21. CASE Done(t)
  BY <1>1, <1>21, DoneIs DEF Owning
<1> QED
  BY <1>5, <1>6, <1>7, <1>8, <1>9, <1>10, <1>11, <1>12, <1>13, <1>14, <1>15, <1>17, <1>18,
     <1>19, <1>20, <1>21 DEF Operation

LEMMA RoomReserve == ASSUME Structure, Room, NEW t \in Threads, Reserve(t) PROVE Room'
<1>1. /\ Does(t, MySlot(t), 0) /\ pc'[t] = "claim" /\ threshold' = threshold - 1 /\ vectors' = vectors
      /\ my' = my
  BY ReserveIs
<1>2. /\ vector' = vector /\ copy' = copy
      /\ \A u \in Threads \ {t} : pc'[u] = pc[u] /\ my'[u] = my[u]
  BY <1>1, DoesAfter
<1>3. /\ Uncounted("claim") \in Nat /\ Uncounted("claim")' \in Nat
      /\ Uncounted("claim")' <= Uncounted("claim") + 1
  <2>1. Uncounted("claim") \in Nat
    BY PendingFinite
  <2>2. t \in Pending("claim")' \/ t \notin Pending("claim")'
    OBVIOUS
  <2>3. Uncounted("claim")' \in {Uncounted("claim"), Uncounted("claim") + 1, Uncounted("claim") - 1}
        /\ Uncounted("claim")' \in Nat
    BY <1>2, PendingAfter
  <2> QED
    BY <2>1, <2>3
<1>4. /\ threshold \in Int /\ Slack \in Int /\ Cardinality(FreeSlots(vector)) \in Nat
  BY FreeCount, SizesAssumption DEF Structure, Shape
<1>5. FreeSlots(vector)' = FreeSlots(vector) /\ FreeSlots(copy.to)' = FreeSlots(copy.to)
  BY <1>1, <1>2 DEF FreeSlots, Size, KeyAt
<1>6. ASSUME NEW u \in Threads, pc'[u] = "install"
      PROVE  (threshold + Slack <= Cardinality(FreeSlots(copy.to)))'
  <2>1. pc[u] = "install"
    BY <1>1, <1>2, <1>6
  <2>2. copy.to \in Vectors
    BY <2>1, RehashParts DEF Copying
  <2>3. Cardinality(FreeSlots(copy.to)) \in Nat
    BY <2>2, FreeCount
  <2> QED
    BY <1>1, <1>4, <1>5, <2>1, <2>3 DEF Room
<1>7. (copy = NoCopy)' => (threshold + Slack + Uncounted("claim") <= Cardinality(FreeSlots(vector)))'
  BY <1>1, <1>2, <1>3, <1>4, <1>5 DEF Room
<1> QED
  BY <1>6, <1>7 DEF Room

LEMMA RoomClaim == ASSUME Structure, Room, NEW t \in Threads, ClaimKey(t) PROVE Room'
<1> DEFINE d == MySlot(t)
<1>1. /\ pc[t] = "claim" /\ threshold' = threshold
      /\ \/ Does(t, d, 0) /\ pc'[t] = "rehash"
         \/ /\ d.key = Free /\ Does(t, Slot(Key(t), d.value), 0) /\ pc'[t] = "store" /\ my' = my
  BY ClaimKeyIs DEF Same
<1>2. Structure'
  BY ClaimKeyIs
<1>3. CASE Does(t, d, 0) /\ pc'[t] = "rehash"
  BY <1>1, <1>2, <1>3, RoomKept
<1>4. CASE d.key = Free /\ Does(t, Slot(Key(t), d.value), 0) /\ pc'[t] = "store" /\ my' = my
  <2>1. /\ vector' = vector /\ copy' = copy
        /\ \A u \in Threads \ {t} : pc'[u] = pc[u] /\ my'[u] = my[u]
    BY <1>4, DoesAfter
  <2>2. Uncounted("claim") \in Nat /\ Uncounted("claim")' \in Nat
    BY <2>1, PendingAfter, PendingFinite
  <2>3. /\ threshold \in Int /\ Slack \in Int /\ IsFiniteSet(FreeSlots(vector))
        /\ Cardinality(FreeSlots(vector)) \in Nat
    BY FreeCount, SizesAssumption DEF Structure, Shape
  <2>4. ASSUME NEW u \in Threads, pc'[u] = "install"
        PROVE  (threshold + Slack <= Cardinality(FreeSlots(copy.to)))'
    <3>1. /\ pc[u] = "install" /\ copy.to \in Vectors /\ (copy.to)' = copy.to
          /\ \A v \in Vectors : v = copy.to => vectors'[v].slots = vectors[v].slots
      BY <1>4, <2>4, NewStays
    <3>2. FreeSlots(copy.to)' = FreeSlots(copy.to)
      BY <3>1 DEF FreeSlots, Size, KeyAt
    <3> QED
      BY <1>1, <3>1, <3>2 DEF Room
  <2>5. CASE my[t].vector # vector
    <3>1. FreeSlots(vector)' = FreeSlots(vector)
      BY <1>4, <2>5, FreeAfter
    <3>2. Uncounted("claim")' = Uncounted("claim")
      BY <1>4, <2>1, <2>5, PendingAfter DEF Pending
    <3> QED
      BY <1>1, <2>1, <2>4, <3>1, <3>2 DEF Room
  <2>6. CASE my[t].vector = vector
    <3>1. Uncounted("claim")' = Uncounted("claim") - 1
      <4>1. t \in Pending("claim") /\ t \notin Pending("claim")'
        BY <1>1, <1>4, <2>6 DEF Pending
      <4> QED
        BY <2>1, <4>1, PendingAfter
    <3> DEFINE F == FreeSlots(vector)
    <3> DEFINE s == my[t].slot
    <3>2. F \ {s} \subseteq FreeSlots(vector)' /\ IsFiniteSet(FreeSlots(vector)')
      BY <1>4, FreeAfter
    <3>3. s \in F
      <4>1. s \in 1..Size(vector) /\ d.key = KeyAt(vector, s)
        BY <1>1, <2>6, InHand DEF AtSlot
      <4> QED
        BY <1>4, <4>1 DEF FreeSlots
    <3>4. Cardinality(F \ {s}) = Cardinality(F) - 1
      BY <2>3, <3>3, FS_RemoveElement
    <3>5. Cardinality(F \ {s}) <= Cardinality(FreeSlots(vector)')
      BY <3>2, FS_Subset
    <3>6. Cardinality(FreeSlots(vector)') \in Nat /\ Cardinality(FreeSlots(vector))' = Cardinality(FreeSlots(vector)')
      BY <3>2, FS_CardinalityType
    <3>7. (copy = NoCopy)' => (threshold + Slack + Uncounted("claim") <= Cardinality(FreeSlots(vector)))'
      BY <1>1, <2>1, <2>2, <2>3, <3>1, <3>4, <3>5, <3>6 DEF Room
    <3> QED
      BY <2>4, <3>7 DEF Room
  <2> QED
    BY <2>5, <2>6
<1> QED
  BY <1>1, <1>3, <1>4

-----------------------------------------------------------------------------
(* A step of the rehash leaves the others where they are.                  *)
LEMMA OthersStay ==
  ASSUME Structure, NEW t \in Threads, NEW p, Goto(t, p)
  PROVE  pc'[t] = p /\ \A u \in Threads \ {t} : pc'[u] = pc[u]
BY DEF Goto, Structure, Shape

LEMMA OnlyOneInstalls ==
  ASSUME Structure, NEW t \in Threads, pc[t] \in {"decide", "count"} \cup Copying,
         NEW p, Goto(t, p), NEW u \in Threads, pc'[u] = "install"
  PROVE  u = t /\ p = "install"
<1>1. \A x \in Threads : pc[x] = "install" => owner = x
  BY RehashParts DEF Copying
<1>2. owner = t
  BY HandIs DEF HandAt, Copying, Owning
<1> QED
  BY <1>1, <1>2, OthersStay

LEMMA RoomRehash ==
  ASSUME Structure, Room, Structure', NEW t \in Threads,
         Lock(t) \/ Decide(t) \/ CountSlot(t) \/ MakeVector(t) \/ CopySlot(t) \/ PlaceEntry(t)
  PROVE  Room'
<1>1. NoCopy.to = 0 /\ NoCopy.index = 0 /\ 0 \notin Vectors
  BY ConstantTypes DEF NoCopy
<1>2. CASE Lock(t)
  <2>1. /\ pc[t] = "rehash" /\ Goto(t, "decide")
        /\ UNCHANGED <<vector, vectors, threshold, copy, my>>
    BY <1>2 DEF Lock, Keep, tableVars
  <2>2. \A u \in Threads : pc'[u] = "install" => pc[u] = "install"
    BY <2>1, OthersStay
  <2>3. Uncounted("claim")' = Uncounted("claim")
    BY <2>1, OthersStay, PendingAfter
  <2>4. FreeSlots(vector)' = FreeSlots(vector) /\ FreeSlots(copy.to)' = FreeSlots(copy.to)
    BY <2>1 DEF FreeSlots, Size, KeyAt
  <2> QED
    BY <2>1, <2>2, <2>3, <2>4 DEF Room
<1>3. CASE Decide(t)
  <2>1. /\ pc[t] = "decide" /\ copy = NoCopy
        /\ UNCHANGED <<vector, vectors, my>>
        /\ \/ (copy.index)' = 1 /\ Goto(t, "count")
           \/ Goto(t, "retry") /\ threshold' = threshold /\ copy' = NoCopy
    BY <1>3, DecideIs
  <2>2. \A u \in Threads : pc'[u] # "install"
    BY <2>1, OnlyOneInstalls
  <2>3. CASE (copy.index)' = 1
    BY <1>1, <2>2, <2>3 DEF Room
  <2>4. CASE Goto(t, "retry") /\ threshold' = threshold /\ copy' = NoCopy
    <3>1. Uncounted("claim")' = Uncounted("claim")
      BY <2>1, <2>4, OthersStay, PendingAfter
    <3>2. FreeSlots(vector)' = FreeSlots(vector)
      BY <2>1 DEF FreeSlots, Size, KeyAt
    <3> QED
      BY <2>1, <2>2, <2>4, <3>1, <3>2 DEF Room
  <2> QED
    BY <2>1, <2>3, <2>4
<1>4. CASE CountSlot(t)
  <2>1. pc[t] = "count" /\ (copy.index)' = copy.index + 1 /\ pc' = pc
    BY <1>4, CopyParts DEF CountSlot, Keep, threadVars, Structure, Shape, Copies
  <2>2. \A u \in Threads : pc'[u] # "install"
    BY <2>1, RehashParts DEF Copying
  <2>3. copy' # NoCopy
    BY <1>1, <2>1, CopyParts
  <2> QED
    BY <2>2, <2>3 DEF Room
<1>5. CASE MakeVector(t)
  <2>1. pc[t] = "count" /\ Goto(t, "copy") /\ (copy.to)' \in Vectors
    BY <1>5, MakeVectorIs
  <2>2. \A u \in Threads : pc'[u] # "install"
    BY <2>1, OnlyOneInstalls
  <2> QED
    BY <1>1, <2>1, <2>2 DEF Room
<1>6. CASE CopySlot(t)
  <2>1. pc[t] = "copy" /\ (copy.to)' = copy.to /\ (Goto(t, "place") \/ Goto(t, "copy"))
    BY <1>6, CopySlotIs
  <2>2. copy.to \in Vectors /\ \A u \in Threads : pc'[u] # "install"
    BY <2>1, OnlyOneInstalls, RehashParts DEF Copying
  <2> QED
    BY <1>1, <2>1, <2>2 DEF Room
<1>7. CASE PlaceEntry(t)
  <2>1. pc[t] = "place" /\ (copy.to)' = copy.to /\ (Goto(t, "error") \/ Goto(t, "copy"))
    BY <1>7, PlaceEntryIs
  <2>2. copy.to \in Vectors /\ \A u \in Threads : pc'[u] # "install"
    BY <2>1, OnlyOneInstalls, RehashParts DEF Copying
  <2> QED
    BY <1>1, <2>1, <2>2 DEF Room
<1> QED
  BY <1>2, <1>3, <1>4, <1>5, <1>6, <1>7

LEMMA RoomFinish ==
  ASSUME Structure, Room, Structure', NEW t \in Threads, FinishCopy(t) PROVE Room'
<1> DEFINE v == copy.to
<1>1. /\ pc[t] = "copy" /\ threshold' = copy.room /\ Goto(t, "install")
      /\ UNCHANGED <<vector, owner, copy, address, request, my>>
  BY FinishCopyIs
<1>2. /\ CopyAt(t) /\ v \in Vectors
  BY <1>1, RehashParts DEF Copying
<1>3. CopyAt(t)'
  BY DEF Structure, CopyInv
<1>4. pc'[t] = "install"
  BY <1>1, OthersStay
<1>5. copy' # NoCopy
  BY <1>1, <1>2, CopyParts, ConstantTypes
<1>6. (threshold + Slack <= Cardinality(FreeSlots(copy.to)))'
  <2>1. /\ Size(copy.to)' = copy.full + Slack
        /\ copy.full = Cardinality(Used(copy.to)') + copy.room
    BY <1>1, <1>3, <1>4 DEF CopyAt, Copying
  <2>2. copy.full \in Nat /\ copy.room \in Nat /\ Slack \in Nat
    BY CopyParts, SizesAssumption
  <2>3. /\ Cardinality(FreeSlots(copy.to)') = Size(copy.to)' - Cardinality(Used(copy.to)')
        /\ Cardinality(Used(copy.to)') \in Nat
    <3>1. vectors' \in [Vectors -> Tables] /\ copy' = copy
      BY <1>1 DEF Structure, Shape
    <3>2. Size(copy.to)' \in Nat
      BY <2>1, <2>2
    <3> DEFINE n == Size(copy.to)'
    <3> DEFINE U == Used(copy.to)'
    <3> DEFINE F == FreeSlots(copy.to)'
    <3>3. F = (1..n) \ U /\ (1..n) \cap U = U /\ U \subseteq 1..n
      BY DEF FreeSlots, Used
    <3> HIDE DEF n, U, F
    <3>4. n \in Nat
      BY <3>2 DEF n
    <3>5. IsFiniteSet(1..n) /\ Cardinality(1..n) = n
      BY <3>4, FS_Interval
    <3>6. IsFiniteSet(U) /\ Cardinality(U) \in Nat
      BY <3>3, <3>5, FS_Subset, FS_CardinalityType
    <3>7. Cardinality(F) = Cardinality(1..n) - Cardinality(U)
      <4>1. Cardinality((1..n) \ U) = Cardinality(1..n) - Cardinality((1..n) \cap U)
        BY <3>5, FS_Difference
      <4> QED
        BY <3>3, <4>1
    <3> QED
      BY <3>5, <3>6, <3>7 DEF n, U, F
  <2> QED
    BY <1>1, <2>1, <2>2, <2>3
<1>7. \A u \in Threads : pc'[u] = "install" => (threshold + Slack <= Cardinality(FreeSlots(copy.to)))'
  BY <1>6
<1> QED
  BY <1>5, <1>7 DEF Room

LEMMA RoomInstall ==
  ASSUME Structure, Room, NEW t \in Threads, Install(t) PROVE Room'
<1>1. /\ pc[t] = "install" /\ vector' = copy.to /\ Goto(t, "retry")
      /\ \A v \in Vectors \ {vector} : vectors'[v] = vectors[v]
      /\ UNCHANGED <<threshold, my>>
  BY InstallIs
<1>2. copy.to \in Vectors \ {vector} /\ \A u \in Threads : ~Holds(u, copy.to)
  BY <1>1, RehashParts DEF Copying
<1>3. \A u \in Threads : pc'[u] # "install"
  BY <1>1, OnlyOneInstalls DEF Copying
<1>4. Pending("claim")' = {}
  BY <1>1, <1>2 DEF Pending, Holds
<1>5. Uncounted("claim")' = 0
  <2>1. Uncounted("claim")' = Cardinality(Pending("claim")')
    BY DEF Uncounted, Pending
  <2> QED
    BY <1>4, <2>1, FS_EmptySet
<1>6. FreeSlots(vector)' = FreeSlots(copy.to)
  BY <1>1, <1>2 DEF FreeSlots, Size, KeyAt
<1>7. threshold + Slack <= Cardinality(FreeSlots(copy.to)) /\ threshold + Slack \in Int
  BY <1>1, SizesAssumption DEF Room, Structure, Shape
<1>8. (threshold + Slack + Uncounted("claim") <= Cardinality(FreeSlots(vector)))'
  BY <1>1, <1>5, <1>6, <1>7
<1> QED
  BY <1>3, <1>8 DEF Room

LEMMA RoomCollect == ASSUME Structure, Room, Collect PROVE Room'
<1>1. /\ UNCHANGED <<vector, threshold, copy, pc, my>>
      /\ \A v \in Vectors : vectors'[v].slots = vectors[v].slots
  BY CollectIs
<1>2. vector \in Vectors
  BY DEF Structure, Shape
<1>3. FreeSlots(vector)' = FreeSlots(vector)
  BY <1>1, <1>2 DEF FreeSlots, Size, KeyAt
<1>4. Uncounted("claim")' = Uncounted("claim")
  BY <1>1 DEF Uncounted
<1>5. ASSUME NEW t \in Threads, pc'[t] = "install"
      PROVE  (threshold + Slack <= Cardinality(FreeSlots(copy.to)))'
  <2>1. copy.to \in Vectors
    BY <1>1, <1>5, RehashParts DEF Copying
  <2>2. FreeSlots(copy.to)' = FreeSlots(copy.to)
    BY <1>1, <2>1 DEF FreeSlots, Size, KeyAt
  <2> QED
    BY <1>1, <1>5, <2>2 DEF Room
<1> QED
  BY <1>1, <1>3, <1>4, <1>5 DEF Room

LEMMA InitRoom == ASSUME Init, Structure PROVE Room
<1>1. /\ vector = 1 /\ 1 \in Vectors /\ threshold \in {0, 1} /\ Size(1) = MinSize + Slack
      /\ Cardinality(Used(1)) = vectors[1].count /\ vectors[1].count \in Nat
      /\ vectors[1].count + threshold <= MinSize
      /\ pc = [t \in Threads |-> "idle"]
  BY InitIs, ConstantTypes
<1>2. Cardinality(FreeSlots(1)) = Size(1) - Cardinality(Used(1))
  BY <1>1, FreeCount
<1>3. Uncounted("claim") = 0
  <2>1. Pending("claim") = {}
    BY <1>1 DEF Pending
  <2> QED
    BY <2>1, PendingFinite, FS_EmptySet
<1> QED
  BY <1>1, <1>2, <1>3, SizesAssumption DEF Room

LEMMA NextRoom == ASSUME Structure, Room, [Next]_vars PROVE Room'
<1>1. CASE UNCHANGED vars
  <2>1. UNCHANGED <<vector, vectors, threshold, copy, pc, my>>
    BY <1>1 DEF vars, tableVars, rehashVars, threadVars
  <2> QED
    BY <2>1 DEF Room, Uncounted, FreeSlots, Size, KeyAt
<1>2. Structure'
  BY NextStructure
<1>3. ASSUME NEW t \in Threads, Call(t) \/ Step(t) PROVE Room'
  <2>1. CASE Operation(t)
    <3>1. PICK c, n : Does(t, c, n) /\ (c.key = Free <=> MySlot(t).key = Free)
      BY <2>1, OperationIs
    <3>2. threshold' = threshold /\ pc'[t] \notin {"claim", "install"}
      BY <2>1, OperationIs DEF Owning
    <3> QED
      BY <1>2, <3>1, <3>2, RoomKept
  <2>2. CASE Reserve(t) \/ ClaimKey(t)
    BY <2>2, RoomReserve, RoomClaim
  <2>3. CASE Lock(t) \/ Decide(t) \/ CountSlot(t) \/ MakeVector(t) \/ CopySlot(t) \/ PlaceEntry(t)
    BY <1>2, <2>3, RoomRehash
  <2>4. CASE FinishCopy(t) \/ Install(t)
    BY <1>2, <2>4, RoomFinish, RoomInstall
  <2> QED
    BY <1>3, <2>1, <2>2, <2>3, <2>4 DEF Step, Operation
<1>4. CASE Collect
  BY <1>4, RoomCollect
<1> QED
  BY <1>1, <1>3, <1>4 DEF Next

LEMMA RoomSuffices == ASSUME Structure, Room PROVE RoomIsThere
<1> SUFFICES ASSUME copy = NoCopy
             PROVE  threshold + Slack <= Cardinality({i \in DOMAIN vectors[vector].slots :
                                                          vectors[vector].slots[i].key = Free})
  BY DEF RoomIsThere
<1>1. vector \in Vectors /\ DOMAIN vectors[vector].slots = 1..Size(vector) /\ threshold \in Int
  BY DEF Structure, Shape, Tables, Size
<1>2. FreeSlots(vector) = {i \in DOMAIN vectors[vector].slots : vectors[vector].slots[i].key = Free}
  BY <1>1 DEF FreeSlots, KeyAt
<1>3. Uncounted("claim") \in Nat /\ Cardinality(FreeSlots(vector)) \in Nat /\ Slack \in Nat
  BY <1>1, PendingFinite, FreeCount, SizesAssumption
<1> QED
  BY <1>1, <1>2, <1>3 DEF Room

(* The threshold never promises a slot that is not free, for any number of *)
(* threads that claim slots and give them up, and at most one that copies. *)
THEOREM RoomHolds == Spec => []RoomIsThere
<1> DEFINE I == Structure /\ Room
<1>1. Init => I
  BY InitStructure, InitRoom
<1>2. I /\ [Next]_vars => I'
  BY NextStructure, NextRoom
<1>3. I => RoomIsThere
  BY RoomSuffices
<1> HIDE DEF I
<1> QED
  BY <1>1, <1>2, <1>3, PTL DEF Spec

-----------------------------------------------------------------------------
(* The slots of a vector that hold a value: the entries.                   *)
LiveIn(v) == {i \in 1..Size(v) : ValueAt(v, i) \in Values}

LEMMA LiveFinite ==
  ASSUME Structure, NEW v \in Vectors
  PROVE  IsFiniteSet(LiveIn(v)) /\ Cardinality(LiveIn(v)) \in Nat
<1>1. LiveIn(v) \subseteq 1..Size(v) /\ IsFiniteSet(1..Size(v))
  BY UsedFinite DEF LiveIn
<1> QED
  BY <1>1, FS_Subset, FS_CardinalityType

LEMMA LiveSlotsAre == ASSUME Structure PROVE LiveSlots = LiveIn(vector)
<1>1. vector \in Vectors /\ DOMAIN vectors[vector].slots = 1..Size(vector)
  BY DEF Structure, Shape, Tables, Size
<1>2. \A i \in 1..Size(vector) : IsLive(vectors[vector].slots[i]) <=> ValueAt(vector, i) \in Values
  BY <1>1, LiveIs
<1> QED
  BY <1>1, <1>2 DEF LiveSlots, LiveIn

One(b) == IF b THEN 1 ELSE 0

(* The entries of the current vector after a step of an operation.         *)
LEMMA LiveAfter ==
  ASSUME Structure, NEW t \in Threads, NEW c, NEW n, Does(t, c, n)
  PROVE  LET d == MySlot(t) IN
         /\ my[t].vector # vector =>
                /\ Cardinality(LiveIn(vector))' = Cardinality(LiveIn(vector))
                /\ (vectors[vector].count)' = vectors[vector].count
         /\ my[t].vector = vector =>
                /\ Cardinality(LiveIn(vector))' =
                       Cardinality(LiveIn(vector)) + One(c.value \in Values) - One(d.value \in Values)
                /\ (vectors[vector].count)' = vectors[vector].count + n
<1> DEFINE d == MySlot(t)
<1> DEFINE s == my[t].slot
<1>0. PICK v \in Vectors : v = vector
  BY DEF Structure, Shape
<1>1. /\ ~Gone(vector) /\ vector' = vector /\ v = vector /\ v' = v
  BY <1>0, DoesAfter
<1>2. /\ Size(v)' = Size(v)
      /\ v # my[t].vector => (vectors[v].count)' = vectors[v].count
      /\ v = my[t].vector => (vectors[v].count)' = vectors[v].count + n
      /\ \A i \in 1..Size(v) :
           /\ v = my[t].vector /\ i = s => vectors'[v].slots[i] = c
           /\ v # my[t].vector \/ i # s \/ c = d => vectors'[v].slots[i] = vectors[v].slots[i]
  BY <1>0, <1>1, DoesAfter
<1> DEFINE L == LiveIn(vector)
<1> DEFINE M == {i \in 1..Size(v) : ValueAt(v, i)' \in Values}
<1>3. L = {i \in 1..Size(v) : ValueAt(v, i) \in Values} /\ LiveIn(vector)' = M
  BY <1>1, <1>2 DEF LiveIn, Size, ValueAt
<1>4. IsFiniteSet(L) /\ Cardinality(L) \in Nat
  BY <1>0, LiveFinite
<1>5. ASSUME NEW i \in 1..Size(v), i # s \/ my[t].vector # vector \/ c = d
      PROVE  ValueAt(v, i)' = ValueAt(v, i)
  BY <1>1, <1>2, <1>5 DEF ValueAt
<1>6. CASE my[t].vector # vector \/ c = d
  <2>1. M = L
    BY <1>3, <1>5, <1>6
  <2>2. One(c.value \in Values) \in Nat /\ (c = d => One(c.value \in Values) = One(d.value \in Values))
    BY DEF One
  <2> HIDE DEF M, L
  <2> QED
    BY <1>1, <1>2, <1>3, <1>4, <1>6, <2>1, <2>2 DEF L
<1>7. CASE my[t].vector = vector /\ c # d
  <2>1. s \in 1..Size(v)
    BY <1>1, <1>7 DEF Does, Touches
  <2>2. vectors'[v].slots[s] = c /\ vectors[v].slots[s] = d
    BY <1>1, <1>2, <1>7, <2>1 DEF MySlot, MyVector
  <2>0. PICK z : z = s
    OBVIOUS
  <2>3. ValueAt(v, z)' = c.value /\ ValueAt(v, z) = d.value
    BY <2>0, <2>2 DEF ValueAt
  <2>4. \A i \in 1..Size(v) : i # s => ValueAt(v, i)' = ValueAt(v, i)
    BY <1>5
  <2> DEFINE in(i) == ValueAt(v, i) \in Values
  <2> DEFINE now(i) == ValueAt(v, i)' \in Values
  <2>5. \A i \in 1..Size(v) : i # z => (now(i) <=> in(i))
    BY <2>0, <2>4
  <2>6. z \in 1..Size(v) /\ (now(z) <=> c.value \in Values) /\ (in(z) <=> d.value \in Values)
    BY <2>0, <2>1, <2>3
  <2>7. L = {i \in 1..Size(v) : in(i)} /\ M = {i \in 1..Size(v) : now(i)}
    BY <1>3
  <2> HIDE DEF in, now, M, L
  <2>8. (c.value \in Values <=> d.value \in Values) => M = L
    BY <2>5, <2>6, <2>7
  <2>9. c.value \in Values /\ d.value \notin Values => M = L \cup {z} /\ z \notin L
    BY <2>5, <2>6, <2>7
  <2>10. c.value \notin Values /\ d.value \in Values => M = L \ {z} /\ z \in L
    BY <2>5, <2>6, <2>7
  <2>11. /\ z \notin L => Cardinality(L \cup {z}) = Cardinality(L) + 1
         /\ z \in L => Cardinality(L \ {z}) = Cardinality(L) - 1
    BY <1>4, FS_AddElement, FS_RemoveElement DEF L
  <2>12. Cardinality(L) \in Nat
    BY <1>4 DEF L
  <2>13. Cardinality(M) = Cardinality(L) + One(c.value \in Values) - One(d.value \in Values)
    <3>1. CASE c.value \in Values <=> d.value \in Values
      BY <2>8, <2>12, <3>1 DEF One
    <3>2. CASE c.value \in Values /\ d.value \notin Values
      <4>1. One(c.value \in Values) = 1 /\ One(d.value \in Values) = 0
        BY <3>2 DEF One
      <4>2. Cardinality(M) = Cardinality(L) + 1
        BY <2>9, <2>11, <3>2
      <4> QED
        BY <2>12, <4>1, <4>2
    <3>3. CASE c.value \notin Values /\ d.value \in Values
      BY <2>10, <2>11, <2>12, <3>3 DEF One
    <3> QED
      BY <3>1, <3>2, <3>3
  <2> QED
    BY <1>1, <1>2, <1>3, <1>7, <2>13 DEF L, M
<1> QED
  BY <1>6, <1>7

-----------------------------------------------------------------------------
(* The count of the current vector is the number of its entries, but for   *)
(* the operations between their conditional store and the count; and a     *)
(* finished copy has the count of what it holds.                           *)
Counted ==
    /\ copy.to = 0 =>
           vectors[vector].count = Cardinality(LiveIn(vector)) - Uncounted("increment")
                                       + Uncounted("decrement")
    /\ \A t \in Threads : pc[t] = "install" => vectors[copy.to].count = Cardinality(Used(copy.to))

(* A step of an operation that counts what it did, or leaves it to be.     *)
Balanced(t, c, n) ==
    n = One(c.value \in Values) - One(MySlot(t).value \in Values)
          - One(pc'[t] = "increment") + One(pc[t] = "increment")
          + One(pc'[t] = "decrement") - One(pc[t] = "decrement")

LEMMA CountStep ==
  ASSUME Structure, Counted, NEW t \in Threads, NEW c, NEW n, Does(t, c, n), Balanced(t, c, n),
         pc'[t] # "install",
         pc'[t] \in {"increment", "decrement"} => my'[t].vector = my[t].vector
  PROVE  Counted'
<1>1. /\ vector' = vector /\ copy' = copy /\ vector \in Vectors
      /\ \A u \in Threads \ {t} : pc'[u] = pc[u] /\ my'[u] = my[u]
  BY DoesAfter DEF Structure, Shape
<1>2. ASSUME NEW u \in Threads, pc'[u] = "install"
      PROVE  (vectors[copy.to].count = Cardinality(Used(copy.to)))'
  <2>1. /\ pc[u] = "install" /\ copy.to \in Vectors /\ (copy.to)' = copy.to
        /\ \A v \in Vectors : v = copy.to =>
               vectors'[v].slots = vectors[v].slots /\ vectors'[v].count = vectors[v].count
    BY <1>2, NewStays
  <2>2. Used(copy.to)' = Used(copy.to) /\ (vectors[copy.to].count)' = vectors[copy.to].count
    BY <2>1 DEF Used, Size, KeyAt
  <2> QED
    BY <2>1, <2>2 DEF Counted
<1>3. /\ Uncounted("increment") \in Nat /\ Uncounted("decrement") \in Nat
      /\ Cardinality(LiveIn(vector)) \in Nat /\ vectors[vector].count \in Int
  BY <1>1, PendingFinite, LiveFinite DEF Structure, Shape, Tables
<1>4. CASE my[t].vector # vector
  <2>1. /\ Uncounted("increment")' = Uncounted("increment")
        /\ Uncounted("decrement")' = Uncounted("decrement")
    BY <1>1, <1>4, PendingAfter DEF Pending
  <2>2. /\ Cardinality(LiveIn(vector))' = Cardinality(LiveIn(vector))
        /\ (vectors[vector].count)' = vectors[vector].count
    BY <1>4, LiveAfter
  <2> QED
    BY <1>1, <1>2, <2>1, <2>2 DEF Counted
<1>5. CASE my[t].vector = vector
  <2>1. ASSUME NEW p \in {"increment", "decrement"}
        PROVE  Uncounted(p)' = Uncounted(p) + One(pc'[t] = p) - One(pc[t] = p)
    <3>1. t \in Pending(p) <=> pc[t] = p
      BY <1>5 DEF Pending
    <3>2. t \in Pending(p)' <=> pc'[t] = p
      BY <1>1, <1>5 DEF Pending
    <3>3. Uncounted(p) \in Nat
      BY PendingFinite
    <3> QED
      BY <1>1, <3>1, <3>2, <3>3, PendingAfter DEF One
  <2>2. /\ Cardinality(LiveIn(vector))' = Cardinality(LiveIn(vector))
                + One(c.value \in Values) - One(MySlot(t).value \in Values)
        /\ (vectors[vector].count)' = vectors[vector].count + n
    BY <1>5, LiveAfter
  <2>3. \A b : One(b) \in Int
    BY DEF One
  <2>4. n = One(c.value \in Values) - One(MySlot(t).value \in Values)
          - One(pc'[t] = "increment") + One(pc[t] = "increment")
          + One(pc'[t] = "decrement") - One(pc[t] = "decrement")
    BY DEF Balanced
  <2>5. (copy.to = 0)' =>
           (vectors[vector].count = Cardinality(LiveIn(vector)) - Uncounted("increment")
                                       + Uncounted("decrement"))'
    <3> DEFINE a == One(c.value \in Values)
    <3> DEFINE b == One(MySlot(t).value \in Values)
    <3> DEFINE i1 == One(pc'[t] = "increment")
    <3> DEFINE i0 == One(pc[t] = "increment")
    <3> DEFINE d1 == One(pc'[t] = "decrement")
    <3> DEFINE d0 == One(pc[t] = "decrement")
    <3>1. a \in Int /\ b \in Int /\ i1 \in Int /\ i0 \in Int /\ d1 \in Int /\ d0 \in Int
      BY <2>3
    <3>2. n = a - b - i1 + i0 + d1 - d0
      BY <2>4
    <3>3. /\ Uncounted("increment")' = Uncounted("increment") + i1 - i0
          /\ Uncounted("decrement")' = Uncounted("decrement") + d1 - d0
      BY <2>1
    <3>4. /\ Cardinality(LiveIn(vector))' = Cardinality(LiveIn(vector)) + a - b
          /\ (vectors[vector].count)' = vectors[vector].count + n
      BY <2>2
    <3> HIDE DEF a, b, i1, i0, d1, d0
    <3> QED
      BY <1>1, <1>3, <3>1, <3>2, <3>3, <3>4 DEF Counted
  <2> QED
    BY <1>2, <2>5 DEF Counted
<1> QED
  BY <1>4, <1>5

(* Every step of an operation is balanced.                                 *)
LEMMA CountOperation ==
  ASSUME Structure, Counted, NEW t \in Threads, Operation(t) \/ Reserve(t) \/ ClaimKey(t)
  PROVE  Counted'
<1> DEFINE d == MySlot(t)
<1>0. Values \cap {Free, Deleted, Rehashing} = {}
  BY KeysAssumption
<1>1. ASSUME NEW c, c.value \in Values <=> d.value \in Values, Does(t, c, 0),
             pc[t] \notin {"increment", "decrement"},
             pc'[t] \notin {"increment", "decrement", "install"}
      PROVE  Counted'
  <2>1. Balanced(t, c, 0)
    BY <1>1 DEF Balanced, One
  <2> QED
    BY <1>1, <2>1, CountStep
<1>2. \A k, x : Slot(k, x).value = x
  BY SlotParts
<1>3. CASE Call(t) \/ Retry(t)
  BY <1>1, <1>3, CallIs, RetryIs
<1>4. CASE FindNew(t) \/ Find(t)
  BY <1>1, <1>4, FindNewIs, FindIs
<1>5. CASE CheckFound(t) \/ CheckForPut(t)
  BY <1>1, <1>5, CheckFoundIs, CheckForPutIs
<1>6. CASE GetValue(t) \/ RemoveValue(t) \/ PutValue(t)
  BY <1>1, <1>6, GetValueIs, RemoveValueIs, PutValueIs
<1>7. CASE SwapValue(t)
  <2>1. CASE Does(t, d, 0) /\ pc'[t] = "rehash"
    BY <1>1, <1>7, <2>1, SwapValueIs
  <2>2. CASE /\ d.value \in Values /\ Does(t, Slot(d.key, Deleted), 0) /\ pc'[t] = "decrement"
             /\ my' = my
    <3>1. Slot(d.key, Deleted).value \notin Values /\ pc[t] = "swap"
      BY <1>0, <1>2, <1>7, SwapValueIs
    <3>2. Balanced(t, Slot(d.key, Deleted), 0)
      BY <2>2, <3>1 DEF Balanced, One
    <3> QED
      BY <2>2, <3>1, <3>2, CountStep
  <2>3. CASE /\ d.value \in Values /\ request[t].op = "put"
             /\ Does(t, Slot(d.key, request[t].value), 0) /\ pc'[t] = "done"
    <3>1. request[t].value \in Values /\ pc[t] = "swap"
      <4>1. pc[t] = "swap"
        BY <1>7, SwapValueIs
      <4>2. request[t] # Idle
        BY <4>1, InHand DEF AtSlot
      <4> QED
        BY <2>3, <4>1, <4>2, Asked DEF Structure
    <3> QED
      BY <1>1, <1>2, <2>3, <3>1
  <2> QED
    BY <1>7, <2>1, <2>2, <2>3, SwapValueIs
<1>8. CASE CountRemoved(t)
  <2>1. Does(t, d, -1) /\ pc[t] = "decrement" /\ pc'[t] = "clear"
    BY <1>8, CountRemovedIs
  <2>2. Balanced(t, d, -1)
    BY <2>1 DEF Balanced, One
  <2> QED
    BY <2>1, <2>2, CountStep
<1>9. CASE ClearKey(t)
  BY <1>1, <1>2, <1>9, ClearKeyIs
<1>10. CASE CheckMoved(t)
  BY <1>1, <1>2, <1>10, CheckMovedIs
<1>11. CASE FillValue(t)
  <2>1. pc[t] = "fill" /\ request[t].value \in Values
    BY <1>11, FillValueIs
  <2>2. CASE Does(t, d, 0) /\ pc'[t] = "rehash"
    BY <1>1, <2>1, <2>2
  <2>3. CASE /\ d.value = Free /\ Does(t, Slot(d.key, request[t].value), 0)
             /\ pc'[t] = "increment" /\ my' = my
    <3>1. Balanced(t, Slot(d.key, request[t].value), 0)
      BY <1>0, <1>2, <2>1, <2>3 DEF Balanced, One
    <3> QED
      BY <2>3, <3>1, CountStep
  <2> QED
    BY <1>11, <2>2, <2>3, FillValueIs
<1>12. CASE CountAdded(t)
  <2>1. Does(t, d, 1) /\ pc[t] = "increment" /\ pc'[t] = "idle"
    BY <1>12, CountAddedIs
  <2>2. Balanced(t, d, 1)
    BY <2>1 DEF Balanced, One
  <2> QED
    BY <2>1, <2>2, CountStep
<1>13. CASE Done(t)
  BY <1>1, <1>13, DoneIs
<1>14. CASE Reserve(t)
  BY <1>1, <1>14, ReserveIs
<1>15. CASE ClaimKey(t)
  BY <1>1, <1>2, <1>15, ClaimKeyIs
<1> QED
  BY <1>3, <1>4, <1>5, <1>6, <1>7, <1>8, <1>9, <1>10, <1>11, <1>12, <1>13, <1>14, <1>15 DEF Operation

-----------------------------------------------------------------------------
(* The steps of the rehash.                                                *)
LEMMA CountUntouched ==
  ASSUME Structure, Counted, NEW t \in Threads, pc[t] \in {"rehash", "decide", "count"},
         NEW p, p \notin {"install", "increment", "decrement"}, Goto(t, p),
         UNCHANGED <<vector, vectors, my>>, copy.to = 0
  PROVE  Counted'
<1>1. pc'[t] = p /\ \A u \in Threads \ {t} : pc'[u] = pc[u]
  BY OthersStay
<1>2. /\ Uncounted("increment")' = Uncounted("increment")
      /\ Uncounted("decrement")' = Uncounted("decrement")
  BY <1>1, PendingAfter
<1>3. \A u \in Threads : pc'[u] # "install"
  BY <1>1, RehashParts, ConstantTypes DEF Copying
<1>4. LiveIn(vector)' = LiveIn(vector)
  BY DEF LiveIn, Size, ValueAt
<1> QED
  BY <1>2, <1>3, <1>4 DEF Counted

LEMMA CountRehash ==
  ASSUME Structure, Counted, NEW t \in Threads,
         Lock(t) \/ Decide(t) \/ CountSlot(t) \/ MakeVector(t) \/ CopySlot(t) \/ PlaceEntry(t)
  PROVE  Counted'
<1>1. NoCopy.to = 0 /\ 0 \notin Vectors
  BY ConstantTypes DEF NoCopy
<1>2. CASE Lock(t)
  <2>1. /\ pc[t] = "rehash" /\ Goto(t, "decide") /\ owner = None
        /\ UNCHANGED <<vector, vectors, my>>
    BY <1>2 DEF Lock, Keep, tableVars
  <2>2. copy.to = 0
    BY <1>1, <2>1, NobodyRehashes
  <2> QED
    BY <2>1, <2>2, CountUntouched
<1>3. CASE Decide(t)
  <2>1. /\ pc[t] = "decide" /\ copy = NoCopy
        /\ UNCHANGED <<vector, vectors, my>>
        /\ Goto(t, "count") \/ Goto(t, "retry")
    BY <1>3, DecideIs
  <2> QED
    BY <1>1, <2>1, CountUntouched
<1>4. CASE CountSlot(t)
  <2>1. pc[t] = "count" /\ pc' = pc /\ UNCHANGED <<vector, vectors, my>>
    BY <1>4 DEF CountSlot, Keep, threadVars, tableVars
  <2>2. Goto(t, "count")
    BY <2>1 DEF Goto, Structure, Shape
  <2>3. copy.to = 0
    BY <2>1, RehashParts
  <2> QED
    BY <2>1, <2>2, <2>3, CountUntouched
<1>5. CASE MakeVector(t)
  <2>1. pc[t] = "count" /\ Goto(t, "copy") /\ (copy.to)' \in Vectors
    BY <1>5, MakeVectorIs
  <2>2. \A u \in Threads : pc'[u] # "install"
    BY <2>1, OnlyOneInstalls
  <2> QED
    BY <1>1, <2>1, <2>2 DEF Counted
<1>6. CASE CopySlot(t)
  <2>1. pc[t] = "copy" /\ (copy.to)' = copy.to /\ (Goto(t, "place") \/ Goto(t, "copy"))
    BY <1>6, CopySlotIs
  <2>2. copy.to \in Vectors /\ \A u \in Threads : pc'[u] # "install"
    BY <2>1, OnlyOneInstalls, RehashParts DEF Copying
  <2> QED
    BY <1>1, <2>1, <2>2 DEF Counted
<1>7. CASE PlaceEntry(t)
  <2>1. pc[t] = "place" /\ (copy.to)' = copy.to /\ (Goto(t, "error") \/ Goto(t, "copy"))
    BY <1>7, PlaceEntryIs
  <2>2. copy.to \in Vectors /\ \A u \in Threads : pc'[u] # "install"
    BY <2>1, OnlyOneInstalls, RehashParts DEF Copying
  <2> QED
    BY <1>1, <2>1, <2>2 DEF Counted
<1> QED
  BY <1>2, <1>3, <1>4, <1>5, <1>6, <1>7

LEMMA CountFinish ==
  ASSUME Structure, Counted, NEW t \in Threads, FinishCopy(t) PROVE Counted'
<1> DEFINE v == copy.to
<1>1. /\ pc[t] = "copy" /\ Goto(t, "install") /\ copy' = copy
  BY FinishCopyIs
<1>2. PICK s \in Seq(Cells), tb \in Tables :
              /\ tb.slots = s /\ tb.count = Cardinality(Used(v))
              /\ Relaid(s, vectors[v].slots)
              /\ vectors' = [vectors EXCEPT ![v] = tb]
  BY FinishCopyIs
<1>3. v \in Vectors
  BY <1>1, RehashParts DEF Copying
<1>4. vectors'[v] = tb
  BY <1>2, <1>3 DEF Structure, Shape
<1>5. Used(copy.to)' = UsedIn(s) /\ UsedIn(vectors[v].slots) = Used(v)
  BY <1>1, <1>2, <1>4 DEF UsedIn, Used, Size, KeyAt
<1>6. (vectors[copy.to].count = Cardinality(Used(copy.to)))'
  BY <1>1, <1>2, <1>4, <1>5 DEF Relaid
<1>7. copy.to # 0
  BY <1>3, ConstantTypes
<1> QED
  BY <1>1, <1>6, <1>7 DEF Counted

LEMMA CountInstall ==
  ASSUME Structure, Counted, NEW t \in Threads, Install(t) PROVE Counted'
<1>1. /\ pc[t] = "install" /\ vector' = copy.to /\ Goto(t, "retry") /\ my' = my
      /\ \A v \in Vectors \ {vector} : vectors'[v] = vectors[v]
  BY InstallIs
<1>2. /\ copy.to \in Vectors \ {vector} /\ CopyAt(t)
      /\ \A u \in Threads : ~Holds(u, copy.to)
  BY <1>1, RehashParts DEF Copying
<1>3. \A u \in Threads : pc'[u] # "install"
  BY <1>1, OnlyOneInstalls DEF Copying
<1>4. ASSUME NEW p PROVE Uncounted(p)' = 0
  <2>1. Pending(p)' = {}
    BY <1>1, <1>2 DEF Pending, Holds
  <2>2. Uncounted(p)' = Cardinality(Pending(p)')
    BY DEF Uncounted, Pending
  <2> QED
    BY <2>1, <2>2, FS_EmptySet
<1>5. LiveIn(vector)' = LiveIn(copy.to) /\ (vectors[vector].count)' = vectors[copy.to].count
  BY <1>1, <1>2 DEF LiveIn, Size, ValueAt
<1>6. LiveIn(copy.to) = Used(copy.to)
  <2>1. \A i \in Used(copy.to) : ValueAt(copy.to, i) \in Values
    BY <1>1, <1>2 DEF CopyAt, Copying
  <2>2. \A i \in 1..Size(copy.to) : KeyAt(copy.to, i) = Free => ValueAt(copy.to, i) \notin Values
    BY <1>2, KeysAssumption DEF Structure, SlotInv
  <2> QED
    BY <2>1, <2>2 DEF LiveIn, Used
<1>7. /\ vectors[copy.to].count = Cardinality(Used(copy.to)) /\ Cardinality(Used(copy.to)) \in Nat
  BY <1>1, <1>2, UsedFinite DEF Counted
<1> QED
  BY <1>3, <1>4, <1>5, <1>6, <1>7 DEF Counted

LEMMA CountCollect == ASSUME Structure, Counted, Collect PROVE Counted'
<1>1. /\ UNCHANGED <<vector, copy, pc, my>> /\ vector \in Vectors
      /\ \A v \in Vectors : vectors'[v].slots = vectors[v].slots /\ vectors'[v].count = vectors[v].count
  BY CollectIs DEF Structure, Shape
<1>2. LiveIn(vector)' = LiveIn(vector) /\ (vectors[vector].count)' = vectors[vector].count
  BY <1>1 DEF LiveIn, Size, ValueAt
<1>3. \A p : Uncounted(p)' = Uncounted(p)
  BY <1>1 DEF Uncounted
<1>4. ASSUME NEW t \in Threads, pc'[t] = "install"
      PROVE  (vectors[copy.to].count = Cardinality(Used(copy.to)))'
  <2>1. copy.to \in Vectors
    BY <1>1, <1>4, RehashParts DEF Copying
  <2>2. Used(copy.to)' = Used(copy.to) /\ (vectors[copy.to].count)' = vectors[copy.to].count
    BY <1>1, <2>1 DEF Used, Size, KeyAt
  <2> QED
    BY <1>1, <1>4, <2>2 DEF Counted
<1> QED
  BY <1>1, <1>2, <1>3, <1>4 DEF Counted

LEMMA InitCounted == ASSUME Init, Structure PROVE Counted
<1>1. /\ vector = 1 /\ 1 \in Vectors /\ Cardinality(Used(1)) = vectors[1].count
      /\ vectors[1].count \in Nat
      /\ pc = [t \in Threads |-> "idle"]
      /\ \A i \in 1..Size(1) : /\ KeyAt(1, i) = Free => ValueAt(1, i) = Free
                               /\ KeyAt(1, i) # Free => ValueAt(1, i) \in Values
  BY InitIs, ConstantTypes
<1>2. LiveIn(1) = Used(1)
  BY <1>1, KeysAssumption DEF LiveIn, Used
<1>3. ASSUME NEW p \in {"increment", "decrement"} PROVE Uncounted(p) = 0
  <2>1. Pending(p) = {}
    BY <1>1 DEF Pending
  <2> QED
    BY <2>1, PendingFinite, FS_EmptySet
<1> QED
  BY <1>1, <1>2, <1>3 DEF Counted

LEMMA NextCounted == ASSUME Structure, Counted, [Next]_vars PROVE Counted'
<1>1. CASE UNCHANGED vars
  <2>1. UNCHANGED <<vector, vectors, copy, pc, my>>
    BY <1>1 DEF vars, tableVars, rehashVars, threadVars
  <2> QED
    BY <2>1 DEF Counted, Uncounted, LiveIn, Used, Size, KeyAt, ValueAt
<1>2. ASSUME NEW t \in Threads, Call(t) \/ Step(t) PROVE Counted'
  <2>1. CASE Operation(t) \/ Reserve(t) \/ ClaimKey(t)
    BY <2>1, CountOperation
  <2>2. CASE Lock(t) \/ Decide(t) \/ CountSlot(t) \/ MakeVector(t) \/ CopySlot(t) \/ PlaceEntry(t)
    BY <2>2, CountRehash
  <2>3. CASE FinishCopy(t) \/ Install(t)
    BY <2>3, CountFinish, CountInstall
  <2> QED
    BY <1>2, <2>1, <2>2, <2>3 DEF Step, Operation
<1>3. CASE Collect
  BY <1>3, CountCollect
<1> QED
  BY <1>1, <1>2, <1>3 DEF Next

(* Between rehashes the count is the number of entries, but for the        *)
(* operations that have yet to count theirs.                               *)
THEOREM CountHolds == Spec => [](Structure /\ Room /\ Counted)
<1> DEFINE I == Structure /\ Room /\ Counted
<1>1. Init => I
  BY InitStructure, InitRoom, InitCounted
<1>2. I /\ [Next]_vars => I'
  BY NextStructure, NextRoom, NextCounted
<1>3. I => I
  OBVIOUS
<1> HIDE DEF I
<1>4. Spec => []I
  BY <1>1, <1>2, PTL DEF Spec
<1> QED
  BY <1>4 DEF I

-----------------------------------------------------------------------------
(* The order of the slots, when the collector does not run between hashing *)
(* a key and storing it in the new vector.                                 *)
(*                                                                         *)
(* A slot j is where the walk from address a gets to before it sees ks.    *)
OnTheWay(v, a, j, ks) ==
    \E n \in 0..Size(v)-1 :
        /\ j = At(vectors[v].slots, a, n)
        /\ \A m \in 0..n-1 : KeyAt(v, At(vectors[v].slots, a, m)) \notin ks

(* A key has one slot of a vector, and those of claims that will be given  *)
(* up; unless a key of the vector has moved, each is where a probe for it  *)
(* ends.                                                                   *)
UniqueIn(v) ==
    \A i, j \in 1..Size(v) :
        KeyAt(v, i) = KeyAt(v, j) /\ KeyAt(v, i) \in Keys /\ i # j =>
            StaleClaim(v, i) \/ StaleClaim(v, j)

InPlaceIn(v) ==
    ~vectors[v].moved =>
        \A j \in 1..Size(v) : KeyAt(v, j) \in Keys /\ ~StaleClaim(v, j) =>
            OnTheWay(v, address[KeyAt(v, j)], j, {Free, KeyAt(v, j)})

(* A puthash that goes for a slot: it was the first on its way, the key    *)
(* can only have moved since, and if it has not and the slot is free, the  *)
(* vector does not have the key.                                           *)
PutAt(t) ==
    LET v == my[t].vector  a == my[t].address  j == my[t].slot  k == Key(t) IN
    /\ request[t].op = "put" /\ pc[t] \in {"check", "reserve", "claim"} /\ j # 0 =>
           OnTheWay(v, a, j, {Free, k})
    /\ pc[t] = "probe" \/ (request[t].op = "put" /\ pc[t] \in {"check", "reserve", "claim", "store"}) =>
           address[k] <= a
    /\ pc[t] \in {"reserve", "claim"} /\ a = address[k] /\ KeyAt(v, j) = Free =>
           \A i \in 1..Size(v) : KeyAt(v, i) = k => StaleClaim(v, i)

(* What is in the new vector is there once in the old one, where nobody    *)
(* will change it.                                                         *)
Source(i, k) ==
    /\ KeyAt(vector, i) = k /\ ValueAt(vector, i) = Rehashing
    /\ \A t \in Threads : ~(pc[t] \in Mine /\ my[t].vector = vector /\ my[t].slot = i)

CopiedAt(t) ==
    /\ pc[t] \in Copying =>
           \A j \in Used(copy.to) : \E i \in 1..copy.index - 1 : Source(i, KeyAt(copy.to, j))
    /\ pc[t] = "place" =>
           /\ Source(copy.index, copy.carry.key)
           /\ \A j \in Used(copy.to) : KeyAt(copy.to, j) # copy.carry.key
           /\ OnTheWay(copy.to, address[copy.carry.key], copy.carry.slot, {Free})

Order ==
    /\ \A v \in Vectors : UniqueIn(v) /\ InPlaceIn(v)
    /\ \A t \in Threads : PutAt(t) /\ CopiedAt(t)

(* The walks of two vectors of the same size are the same.                 *)
LEMMA SameWalk ==
  ASSUME NEW r, NEW s, Len(r) = Len(s), NEW a, NEW i
  PROVE  At(r, a, i) = At(s, a, i)
BY DEF At

(* A way stays a way as long as nothing on it becomes what ends it.        *)
LEMMA WayStays ==
  ASSUME NEW v, NEW a \in Int, NEW j, NEW ks, OnTheWay(v, a, j, ks),
         Size(v) \in Nat, Size(v)' = Size(v),
         \A i \in 1..Size(v) : KeyAt(v, i)' \in ks => KeyAt(v, i) \in ks
  PROVE  OnTheWay(v, a, j, ks)'
<1> DEFINE r == vectors[v].slots
<1> DEFINE s == vectors'[v].slots
<1>1. Len(s) = Len(r) /\ Len(r) = Size(v)
  BY DEF Size
<1>2. PICK n \in 0..Size(v)-1 :
        /\ j = At(r, a, n)
        /\ \A m \in 0..n-1 : KeyAt(v, At(r, a, m)) \notin ks
  BY DEF OnTheWay
<1>3. ASSUME NEW m \in Int PROVE At(s, a, m) = At(r, a, m) /\ At(r, a, m) \in 1..Size(v)
  <2>1. At(s, a, m) = At(r, a, m)
    BY <1>1, SameWalk
  <2>2. At(r, a, m) \in 1..Size(v)
    BY <1>1, <1>2, AtIsSlot
  <2> QED
    BY <2>1, <2>2
<1>4. ASSUME NEW m \in 0..n-1 PROVE s[At(s, a, m)].key \notin ks
  <2>1. PICK x : x = At(r, a, m)
    OBVIOUS
  <2>2. x = At(s, a, m) /\ x \in 1..Size(v)
    BY <1>3, <2>1
  <2>3. KeyAt(v, x) \notin ks
    BY <1>2, <2>1
  <2>4. KeyAt(v, x)' \notin ks
    BY <2>2, <2>3
  <2>5. s[x].key \notin ks
    BY <2>4 DEF KeyAt
  <2> QED
    BY <2>2, <2>5
<1>5. n \in Int /\ n \in 0..Size(v)'-1
  OBVIOUS
<1>6. j = At(s, a, n)
  BY <1>2, <1>3, <1>5
<1> QED
  BY <1>4, <1>5, <1>6 DEF OnTheWay, KeyAt

(* Two slots that end the same walk are the same.                          *)
LEMMA OneEnd ==
  ASSUME NEW v, NEW a, NEW i, NEW j, NEW ks, Size(v) \in Nat,
         OnTheWay(v, a, i, ks), OnTheWay(v, a, j, ks), KeyAt(v, i) \in ks, KeyAt(v, j) \in ks
  PROVE  i = j
<1> DEFINE r == vectors[v].slots
<1>1. PICK n \in 0..Size(v)-1 :
        i = At(r, a, n) /\ \A m \in 0..n-1 : KeyAt(v, At(r, a, m)) \notin ks
  BY DEF OnTheWay
<1>2. PICK p \in 0..Size(v)-1 :
        j = At(r, a, p) /\ \A m \in 0..p-1 : KeyAt(v, At(r, a, m)) \notin ks
  BY DEF OnTheWay
<1>3. ~(n < p) /\ ~(p < n)
  BY <1>1, <1>2
<1> QED
  BY <1>1, <1>2, <1>3

(* A probe that ends at a slot is on the way to it.                        *)
LEMMA ProbeWay ==
  ASSUME NEW v, Size(v) \in Nat, NEW a \in Int, NEW ks,
         Probe(vectors[v].slots, a, ks) # 0
  PROVE  LET s == Probe(vectors[v].slots, a, ks) IN
         OnTheWay(v, a, s, ks) /\ s \in 1..Size(v) /\ KeyAt(v, s) \in ks
BY ProbeIs DEF OnTheWay, KeyAt, Size

(* Between two vectors whose keys are the same, nothing is told.           *)
LEMMA SameKeys ==
  ASSUME NEW v, Size(v) \in Nat, Size(v)' = Size(v), \A i \in 1..Size(v) : KeyAt(v, i)' = KeyAt(v, i),
         NEW a \in Int, NEW j, NEW ks, OnTheWay(v, a, j, ks)
  PROVE  OnTheWay(v, a, j, ks)'
BY WayStays

-----------------------------------------------------------------------------
(* The keys of the vectors after a step of an operation.                   *)
LEMMA KeysAfter ==
  ASSUME Structure, NEW t \in Threads, NEW c, NEW n, Does(t, c, n), NEW v \in Vectors, ~Gone(v)
  PROVE  /\ Size(v) \in Nat /\ Size(v)' = Size(v) /\ (vectors[v].moved)' = vectors[v].moved
         /\ \A i \in 1..Size(v) :
              /\ KeyAt(v, i)' \in {KeyAt(v, i), Deleted} \/ KeyAt(v, i) = Free
              /\ KeyAt(v, i)' = Free => KeyAt(v, i) = Free
              /\ KeyAt(v, i)' # KeyAt(v, i) => v = my[t].vector /\ i = my[t].slot
              /\ v = my[t].vector /\ i = my[t].slot =>
                     KeyAt(v, i)' = c.key /\ KeyAt(v, i) = MySlot(t).key
<1>1. /\ Size(v)' = Size(v) /\ (vectors[v].moved)' = vectors[v].moved
      /\ \A i \in 1..Size(v) :
           /\ v = my[t].vector /\ i = my[t].slot => vectors'[v].slots[i] = c
           /\ v # my[t].vector \/ i # my[t].slot \/ c = MySlot(t) =>
                  vectors'[v].slots[i] = vectors[v].slots[i]
  BY DoesAfter
<1>2. LET d == MySlot(t) IN
      c # d => (c.key \in {d.key, Deleted} \/ d.key = Free) /\ c.key # Free
  BY DEF Does, Touches
<1>3. ASSUME NEW i \in 1..Size(v)
      PROVE  /\ KeyAt(v, i)' \in {KeyAt(v, i), Deleted} \/ KeyAt(v, i) = Free
             /\ KeyAt(v, i)' = Free => KeyAt(v, i) = Free
             /\ KeyAt(v, i)' # KeyAt(v, i) => v = my[t].vector /\ i = my[t].slot
             /\ v = my[t].vector /\ i = my[t].slot =>
                    KeyAt(v, i)' = c.key /\ KeyAt(v, i) = MySlot(t).key
  <2>1. CASE v = my[t].vector /\ i = my[t].slot
    <3>1. KeyAt(v, i)' = c.key
      BY <1>1, <2>1 DEF KeyAt
    <3>2. KeyAt(v, i) = MySlot(t).key
      BY <2>1 DEF KeyAt, MySlot, MyVector
    <3> QED
      BY <1>2, <2>1, <3>1, <3>2
  <2>2. CASE ~(v = my[t].vector /\ i = my[t].slot)
    <3>1. KeyAt(v, i)' = KeyAt(v, i)
      BY <1>1, <2>2 DEF KeyAt
    <3> QED
      BY <2>2, <3>1
  <2> QED
    BY <2>1, <2>2
<1> QED
  BY <1>1, <1>3, UsedFinite

(* A walk that ends at a free slot or at a key ends there after the step.  *)
LEMMA WayAfter ==
  ASSUME Structure, NEW t \in Threads, NEW c, NEW n, Does(t, c, n), NEW v \in Vectors, ~Gone(v),
         NEW a \in Int, NEW j, NEW k \in Keys, OnTheWay(v, a, j, {Free, k})
  PROVE  OnTheWay(v, a, j, {Free, k})'
<1>1. Size(v) \in Nat /\ Size(v)' = Size(v)
  BY KeysAfter
<1>2. \A i \in 1..Size(v) : KeyAt(v, i)' \in {Free, k} => KeyAt(v, i) \in {Free, k}
  BY KeysAfter, KeysAssumption
<1> QED
  BY <1>1, <1>2, WayStays

(* A claim that will be given up still is one after the step, if it was    *)
(* not given up.                                                           *)
LEMMA StaleAfter ==
  ASSUME Structure, NEW t \in Threads, NEW c, NEW n, Does(t, c, n),
         pc[t] = "store" /\ my[t].address # address[Key(t)] => c.key = Deleted,
         NEW v \in Vectors, ~Gone(v), NEW i \in 1..Size(v), StaleClaim(v, i)
  PROVE  StaleClaim(v, i)' \/ KeyAt(v, i)' = Deleted
<1>1. PICK u \in Threads : /\ pc[u] = "store" /\ my[u].address # address[Key(u)]
                           /\ my[u].vector = v /\ my[u].slot = i
  BY DEF StaleClaim
<1>2. CASE u = t
  BY <1>1, <1>2, KeysAfter
<1>3. CASE u # t
  <2>1. pc'[u] = pc[u] /\ my'[u] = my[u] /\ Key(u)' = Key(u) /\ address' = address
    BY <1>3, DoesAfter DEF Key
  <2> QED
    BY <1>1, <2>1 DEF StaleClaim
<1> QED
  BY <1>2, <1>3

(* A step that stores no key but that of a claim.                          *)
Claims(t, c) ==
    /\ pc[t] = "store" /\ my[t].address # address[Key(t)] => c.key = Deleted
    /\ \/ c.key \in {MySlot(t).key, Deleted}
       \/ /\ MySlot(t).key = Free /\ pc[t] = "claim" /\ pc'[t] = "store" /\ request[t].op = "put"
          /\ my'[t] = my[t] /\ request'[t] = request[t] /\ c.key = Key(t)

(* A key that is new in a slot is one that the thread claims: it is where  *)
(* its walk ended, and if its key has not moved, the vector did not have   *)
(* the key.                                                                *)
LEMMA NewKeyIs ==
  ASSUME Structure, Order, NEW t \in Threads, NEW c, NEW n, Does(t, c, n), Claims(t, c),
         NEW v \in Vectors, ~Gone(v), NEW i \in 1..Size(v),
         KeyAt(v, i)' # KeyAt(v, i), KeyAt(v, i)' \in Keys
  PROVE  /\ v = my[t].vector /\ i = my[t].slot
         /\ KeyAt(v, i)' = Key(t) /\ KeyAt(v, i) = Free /\ Key(t) \in Keys
         /\ my[t].address \in Int /\ OnTheWay(v, my[t].address, i, {Free, Key(t)})
         /\ \/ StaleClaim(v, i)'
            \/ /\ my[t].address = address[Key(t)]
               /\ \A j \in 1..Size(v) : KeyAt(v, j) = Key(t) => StaleClaim(v, j)
<1>1. /\ v = my[t].vector /\ i = my[t].slot /\ KeyAt(v, i)' = c.key
      /\ KeyAt(v, i) = MySlot(t).key
  BY KeysAfter
<1>2. /\ MySlot(t).key = Free /\ pc[t] = "claim" /\ pc'[t] = "store"
      /\ my'[t] = my[t] /\ request'[t] = request[t] /\ c.key = Key(t) /\ request[t].op = "put"
  BY <1>1, KeysAssumption DEF Claims
<1>3. my[t].address \in Int
  BY HandIs
<1>4. PutAt(t)
  BY DEF Order
<1>5. OnTheWay(v, my[t].address, i, {Free, Key(t)})
  <2>1. i # 0
    OBVIOUS
  <2>2. OnTheWay(my[t].vector, my[t].address, my[t].slot, {Free, Key(t)})
    BY <1>1, <1>2, <1>4, <2>1 DEF PutAt
  <2> QED
    BY <1>1, <2>2
<1>6. CASE my[t].address = address[Key(t)]
  <2>1. \A j \in 1..Size(v) : KeyAt(v, j) = Key(t) => StaleClaim(v, j)
    BY <1>1, <1>2, <1>4, <1>6 DEF PutAt
  <2> QED
    BY <1>1, <1>2, <1>3, <1>5, <1>6, <2>1
<1>7. CASE my[t].address # address[Key(t)]
  <2>1. address' = address /\ Key(t)' = Key(t)
    BY <1>2, DoesAfter DEF Key
  <2>2. StaleClaim(v, i)'
    BY <1>1, <1>2, <1>7, <2>1 DEF StaleClaim
  <2> QED
    BY <1>1, <1>2, <1>3, <1>5, <2>2
<1> QED
  BY <1>6, <1>7

-----------------------------------------------------------------------------
(* What an operation does to the order.                                    *)
LEMMA UniqueAfter ==
  ASSUME Structure, Order, NEW t \in Threads, NEW c, NEW n, Does(t, c, n), Claims(t, c),
         NEW v \in Vectors
  PROVE  UniqueIn(v)'
<1>1. CASE Gone(v)
  <2>0. Size(v)' = 0
    BY <1>1, GoneIs
  <2>1. ~\E i : i \in 1..Size(v)'
    BY <2>0
  <2> QED
    BY <2>1 DEF UniqueIn
<1>2. CASE ~Gone(v)
  <2>1. Size(v)' = Size(v) /\ UniqueIn(v)
    BY <1>2, KeysAfter DEF Order
  <2>2. ASSUME NEW i \in 1..Size(v), NEW j \in 1..Size(v), KeyAt(v, i)' \in Keys,
               KeyAt(v, i)' = KeyAt(v, j)', i # j, KeyAt(v, i)' # KeyAt(v, i)
        PROVE  StaleClaim(v, i)' \/ StaleClaim(v, j)'
    <3>1. KeyAt(v, j)' = KeyAt(v, j)
      BY <1>2, <2>2, KeysAfter
    <3>2. KeyAt(v, j) = Key(t)
      BY <1>2, <2>2, <3>1, NewKeyIs
    <3>3. StaleClaim(v, i)' \/ StaleClaim(v, j)
      BY <1>2, <2>2, <3>2, NewKeyIs
    <3>4. KeyAt(v, j)' # Deleted
      BY <2>2, KeysAssumption
    <3> QED
      BY <1>2, <3>3, <3>4, StaleAfter DEF Claims
  <2>3. ASSUME NEW i \in 1..Size(v), NEW j \in 1..Size(v), KeyAt(v, i)' \in Keys,
               KeyAt(v, i)' = KeyAt(v, j)', i # j, KeyAt(v, i)' = KeyAt(v, i),
               KeyAt(v, j)' = KeyAt(v, j)
        PROVE  StaleClaim(v, i)' \/ StaleClaim(v, j)'
    <3>1. StaleClaim(v, i) \/ StaleClaim(v, j)
      BY <2>1, <2>3 DEF UniqueIn
    <3>2. KeyAt(v, i)' # Deleted /\ KeyAt(v, j)' # Deleted
      BY <2>3, KeysAssumption
    <3> QED
      BY <1>2, <3>1, <3>2, StaleAfter DEF Claims
  <2> QED
    BY <2>1, <2>2, <2>3 DEF UniqueIn
<1> QED
  BY <1>1, <1>2

LEMMA InPlaceAfter ==
  ASSUME Structure, Order, NEW t \in Threads, NEW c, NEW n, Does(t, c, n), Claims(t, c),
         NEW v \in Vectors
  PROVE  InPlaceIn(v)'
<1>1. CASE Gone(v)
  <2>0. Size(v)' = 0
    BY <1>1, GoneIs
  <2>1. ~\E i : i \in 1..Size(v)'
    BY <2>0
  <2> QED
    BY <2>1 DEF InPlaceIn
<1>2. CASE ~Gone(v)
  <2>1. /\ Size(v)' = Size(v) /\ (vectors[v].moved)' = vectors[v].moved /\ InPlaceIn(v)
        /\ address' = address
    BY <1>2, KeysAfter, DoesAfter DEF Order
  <2>2. ASSUME NEW j \in 1..Size(v), ~vectors[v].moved, KeyAt(v, j)' \in Keys, ~StaleClaim(v, j)'
        PROVE  OnTheWay(v, address[KeyAt(v, j)], j, {Free, KeyAt(v, j)})'
    <3>1. PICK k \in Keys : k = KeyAt(v, j)'
      BY <2>2
    <3>2. PICK a \in Int : a = address[k]
      BY DEF Structure, Shape
    <3>3. OnTheWay(v, a, j, {Free, k})
      <4>1. CASE KeyAt(v, j)' = KeyAt(v, j)
        <5>1. KeyAt(v, j)' # Deleted
          BY <2>2, KeysAssumption
        <5>2. ~StaleClaim(v, j)
          BY <1>2, <2>2, <5>1, StaleAfter DEF Claims
        <5> QED
          BY <2>1, <2>2, <3>1, <3>2, <4>1, <5>2 DEF InPlaceIn
      <4>2. CASE KeyAt(v, j)' # KeyAt(v, j)
        <5>1. k = Key(t) /\ my[t].address = a /\ OnTheWay(v, my[t].address, j, {Free, Key(t)})
          BY <1>2, <2>2, <3>1, <3>2, <4>2, NewKeyIs
        <5> QED
          BY <5>1
      <4> QED
        BY <4>1, <4>2
    <3>4. OnTheWay(v, a, j, {Free, k})'
      BY <1>2, <3>3, WayAfter
    <3>5. a = (address[KeyAt(v, j)])' /\ {Free, k} = {Free, KeyAt(v, j)}'
      BY <2>1, <3>1, <3>2
    <3> QED
      BY <3>1, <3>4, <3>5
  <2> QED
    BY <2>1, <2>2 DEF InPlaceIn
<1> QED
  BY <1>1, <1>2

LEMMA PutAtAfter ==
  ASSUME Structure, Order, NEW t \in Threads, NEW c, NEW n, Does(t, c, n), Claims(t, c),
         NEW u \in Threads \ {t}
  PROVE  PutAt(u)'
<1>1. /\ pc'[u] = pc[u] /\ my'[u] = my[u] /\ request'[u] = request[u] /\ address' = address
      /\ Key(u)' = Key(u) /\ PutAt(u)
  BY DoesAfter DEF Order, Key
<1>2. CASE pc[u] \notin {"check", "reserve", "claim"}
  BY <1>1, <1>2 DEF PutAt
<1>3. CASE pc[u] \in {"check", "reserve", "claim"}
  <2>1. my[u].vector # 0 /\ my[u].address \in Int /\ request[u] # Idle
    BY <1>3, HandIs DEF HandAt, AtSlot, OpAt
  <2>2. PICK v \in Vectors : v = my[u].vector
    BY <2>1, HandIs
  <2>3. PICK a \in Int : a = my[u].address
    BY <2>1
  <2>4. PICK k \in Keys : k = Key(u)
    BY <2>1, Asked DEF Structure
  <2>5. PICK j : j = my[u].slot
    OBVIOUS
  <2>6. ~Gone(v)
    BY <1>1, <2>2 DEF Gone
  <2>7. request[u].op = "put" /\ j # 0 => OnTheWay(v, a, j, {Free, k})'
    <3>1. request[u].op = "put" /\ j # 0 => OnTheWay(v, a, j, {Free, k})
      BY <1>1, <1>3, <2>2, <2>3, <2>4, <2>5 DEF PutAt
    <3> QED
      BY <2>6, <3>1, WayAfter
  <2>8. ASSUME pc[u] \in {"reserve", "claim"}, a = address[k], KeyAt(v, j)' = Free,
               NEW i \in 1..Size(v), KeyAt(v, i)' = k
        PROVE  StaleClaim(v, i)'
    <3>1. j \in 1..Size(v) /\ request[u].op = "put"
      BY <2>2, <2>5, <2>8, HandIs DEF HandAt, OpAt, AtSlot
    <3>2. KeyAt(v, j) = Free /\ KeyAt(v, i)' # Deleted
      BY <2>6, <2>8, <3>1, KeysAfter, KeysAssumption
    <3>3. \A x \in 1..Size(v) : KeyAt(v, x) = k => StaleClaim(v, x)
      BY <1>1, <2>2, <2>3, <2>4, <2>5, <2>8, <3>2 DEF PutAt
    <3>4. CASE KeyAt(v, i)' = KeyAt(v, i)
      <4>1. StaleClaim(v, i)
        BY <2>8, <3>3, <3>4
      <4> QED
        BY <2>6, <3>2, <4>1, StaleAfter DEF Claims
    <3>5. CASE KeyAt(v, i)' # KeyAt(v, i) /\ ~StaleClaim(v, i)'
      <4>1. /\ k = Key(t) /\ KeyAt(v, i) = Free /\ my[t].address = address[k]
            /\ OnTheWay(v, my[t].address, i, {Free, Key(t)})
        BY <2>6, <2>8, <3>5, NewKeyIs
      <4>2. OnTheWay(v, a, i, {Free, k})
        BY <2>8, <4>1
      <4>3. OnTheWay(v, a, j, {Free, k})
        <5>1. j # 0
          BY <3>1
        <5> QED
          BY <1>1, <1>3, <2>2, <2>3, <2>4, <2>5, <3>1, <5>1 DEF PutAt
      <4>4. i = j
        <5>1. Size(v) \in Nat /\ KeyAt(v, i) \in {Free, k} /\ KeyAt(v, j) \in {Free, k}
          BY <2>6, <3>2, <4>1, KeysAfter
        <5> QED
          BY <4>2, <4>3, <5>1, OneEnd
      <4> QED
        BY <2>8, <4>4, KeysAssumption
    <3> QED
      BY <3>4, <3>5
  <2>9. Size(v)' = Size(v)
    BY <2>6, KeysAfter
  <2>10. /\ (my[u].vector)' = v /\ (my[u].address)' = a /\ Key(u)' = k /\ (my[u].slot)' = j
         /\ (address[Key(u)])' = address[k] /\ a = my[u].address /\ Key(u) = k
    BY <1>1, <2>2, <2>3, <2>4, <2>5
  <2>11. PutAt(u)' <=>
           /\ request[u].op = "put" /\ pc[u] \in {"check", "reserve", "claim"} /\ j # 0 =>
                  OnTheWay(v, a, j, {Free, k})'
           /\ pc[u] = "probe" \/ (request[u].op = "put" /\ pc[u] \in {"check", "reserve", "claim", "store"})
                  => address[k] <= a
           /\ pc[u] \in {"reserve", "claim"} /\ a = address[k] /\ KeyAt(v, j)' = Free =>
                  \A i \in 1..Size(v)' : KeyAt(v, i)' = k => StaleClaim(v, i)'
    BY <1>1, <2>10 DEF PutAt
  <2>12. pc[u] = "probe" \/ (request[u].op = "put" /\ pc[u] \in {"check", "reserve", "claim", "store"})
           => address[k] <= a
    BY <1>1, <2>10 DEF PutAt
  <2> QED
    BY <2>7, <2>8, <2>9, <2>11, <2>12
<1> QED
  BY <1>2, <1>3

-----------------------------------------------------------------------------
(* What has been copied from stays, and so does what was copied, when      *)
(* others work.                                                            *)
LEMMA SourceStays ==
  ASSUME Structure, NEW t \in Threads, NEW c, NEW n, Does(t, c, n),
         NEW i \in 1..Size(vector), NEW k \in Keys, Source(i, k)
  PROVE  Source(i, k)'
<1>1. PICK v \in Vectors : v = vector
  BY DEF Structure, Shape
<1>2. ~Gone(v) /\ vector' = v /\ \A u \in Threads \ {t} : pc'[u] = pc[u] /\ my'[u] = my[u]
  BY <1>1, DoesAfter
<1>3. KeyAt(v, i) = k /\ ValueAt(v, i) = Rehashing
  BY <1>1 DEF Source
<1>4. ASSUME my[t].vector = v, my[t].slot = i
      PROVE  /\ pc[t] \notin Mine /\ MySlot(t).value = Rehashing /\ MySlot(t).key = k
             /\ MySlot(t).value \notin Values /\ MySlot(t).key # Free
  <2>1. pc[t] \notin Mine
    BY <1>1, <1>4 DEF Source
  <2>2. MySlot(t).value = Rehashing /\ MySlot(t).key = k
    BY <1>3, <1>4 DEF KeyAt, ValueAt, MySlot, MyVector
  <2> QED
    BY <2>1, <2>2, KeysAssumption
<1>5. vectors'[v].slots[i] = vectors[v].slots[i]
  <2>1. v # my[t].vector \/ i # my[t].slot \/ c = MySlot(t)
    BY <1>4 DEF Does, Touches
  <2> QED
    BY <1>1, <1>2, <2>1, DoesAfter
<1>6. KeyAt(v, i)' = k /\ ValueAt(v, i)' = Rehashing
  BY <1>3, <1>5 DEF KeyAt, ValueAt
<1>7. ~(pc'[t] \in Mine /\ my'[t].vector = v /\ my'[t].slot = i)
  BY <1>4 DEF Does, Takes
<1>8. \A u \in Threads : ~(pc'[u] \in Mine /\ my'[u].vector = v /\ my'[u].slot = i)
  BY <1>1, <1>2, <1>7 DEF Source
<1> QED
  BY <1>2, <1>6, <1>8 DEF Source

LEMMA CopiedAtAfter ==
  ASSUME Structure, Order, NEW t \in Threads, NEW c, NEW n, Does(t, c, n), Structure',
         NEW u \in Threads
  PROVE  CopiedAt(u)'
<1>1. CASE u = t
  <2>1. owner' # t
    BY DoesAfter DEF Does
  <2>2. HandAt(t)'
    BY DEF Structure, ThreadInv
  <2>3. pc'[t] \notin Copying
    BY <2>1, <2>2 DEF HandAt, Owning, Copying
  <2> QED
    BY <1>1, <2>3 DEF CopiedAt, Copying
<1>2. CASE u # t
  <2>1. pc'[u] = pc[u] /\ copy' = copy /\ address' = address /\ vector' = vector /\ CopiedAt(u)
    BY <1>2, DoesAfter DEF Order
  <2>2. CASE pc[u] \notin Copying
    BY <2>1, <2>2 DEF CopiedAt, Copying
  <2>3. CASE pc[u] \in Copying
    <3>1. PICK x \in Vectors : x = copy.to
      BY <2>3, RehashParts
    <3>2. my[t].vector # x /\ copy.index \in 1..Size(vector) + 1 /\ Size(vector) \in Nat /\ Size(x) \in Nat
      BY <2>3, <3>1, RehashParts DEF Holds
    <3>3. vectors'[x].slots = vectors[x].slots
      BY <3>1, <3>2, FreeAfter
    <3>4. /\ Size(x)' = Size(x) /\ Used(x)' = Used(x)
          /\ \A j : KeyAt(x, j)' = KeyAt(x, j)
      BY <3>3 DEF Size, Used, KeyAt
    <3>5. CopyAt(u)
      BY DEF Structure, CopyInv
    <3>6. \A j \in Used(x) : KeyAt(x, j) \in Keys
      BY <2>3, <3>1, <3>5 DEF CopyAt
    <3>7. (copy.to)' = x /\ (copy.index)' = copy.index /\ (copy.carry)' = copy.carry
      BY <2>1, <3>1
    <3>8. ASSUME NEW j \in Used(x) PROVE \E i \in 1..copy.index - 1 : Source(i, KeyAt(x, j))'
      <4>1. PICK k \in Keys : k = KeyAt(x, j)
        BY <3>6
      <4>2. PICK i \in 1..copy.index - 1 : Source(i, k)
        BY <2>1, <2>3, <3>1, <4>1 DEF CopiedAt
      <4>3. i \in 1..Size(vector)
        BY <3>2
      <4>4. Source(i, k)'
        BY <4>2, <4>3, SourceStays
      <4>5. k = KeyAt(x, j)'
        BY <3>4, <4>1
      <4> QED
        BY <4>4, <4>5
    <3>9. ASSUME pc[u] = "place"
          PROVE  /\ Source(copy.index, copy.carry.key)'
                 /\ \A j \in Used(x) : KeyAt(x, j)' # (copy.carry.key)'
                 /\ OnTheWay(x, address[copy.carry.key], copy.carry.slot, {Free})'
      <4>1. PICK k \in Keys : k = copy.carry.key
        BY <3>5, <3>9 DEF CopyAt
      <4>2. PICK i \in 1..Size(vector) : i = copy.index
        BY <3>5, <3>9 DEF CopyAt
      <4>3. Source(i, k) /\ OnTheWay(x, address[k], copy.carry.slot, {Free})
            /\ \A j \in Used(x) : KeyAt(x, j) # k
        BY <2>1, <3>1, <3>9, <4>1, <4>2 DEF CopiedAt
      <4>4. PICK a \in Int : a = address[k]
        BY DEF Structure, Shape
      <4>5. PICK s : s = copy.carry.slot
        OBVIOUS
      <4>6. OnTheWay(x, a, s, {Free})
        BY <4>3, <4>4, <4>5
      <4>7. OnTheWay(x, a, s, {Free})'
        BY <3>2, <3>4, <4>6, SameKeys
      <4>8. Source(i, k)'
        BY <4>3, SourceStays
      <4>9. /\ i = (copy.index)' /\ k = (copy.carry.key)' /\ a = (address[copy.carry.key])'
            /\ s = (copy.carry.slot)'
        BY <2>1, <3>7, <4>1, <4>2, <4>4, <4>5
      <4>10. \A j \in Used(x) : KeyAt(x, j)' # (copy.carry.key)'
        BY <3>4, <4>3, <4>9
      <4>11. Source(copy.index, copy.carry.key)'
        BY <4>8, <4>9
      <4>12. OnTheWay(x, address[copy.carry.key], copy.carry.slot, {Free})'
        BY <4>7, <4>9
      <4> QED
        BY <4>10, <4>11, <4>12
    <3>10. pc'[u] \in Copying =>
             \A j \in Used(copy.to)' : \E i \in (1..copy.index - 1)' : Source(i, KeyAt(copy.to, j))'
      BY <3>4, <3>7, <3>8
    <3>11. pc'[u] = "place" =>
             /\ Source(copy.index, copy.carry.key)'
             /\ \A j \in Used(copy.to)' : KeyAt(copy.to, j)' # (copy.carry.key)'
             /\ OnTheWay(copy.to, address[copy.carry.key], copy.carry.slot, {Free})'
      BY <2>1, <3>4, <3>7, <3>9
    <3> QED
      BY <3>10, <3>11 DEF CopiedAt
  <2> QED
    BY <2>2, <2>3
<1> QED
  BY <1>1, <1>2

(* An operation keeps the order, if what its thread goes for is in order.  *)
LEMMA OrderStep ==
  ASSUME Structure, Order, NEW t \in Threads, NEW c, NEW n, Does(t, c, n), Claims(t, c), Structure',
         PutAt(t)'
  PROVE  Order'
<1>1. \A v \in Vectors : UniqueIn(v)' /\ InPlaceIn(v)'
  BY UniqueAfter, InPlaceAfter
<1>2. \A u \in Threads : PutAt(u)'
  <2>1. \A u \in Threads \ {t} : PutAt(u)'
    BY PutAtAfter
  <2> QED
    BY <2>1
<1>3. \A u \in Threads : CopiedAt(u)'
  BY CopiedAtAfter
<1> QED
  BY <1>1, <1>2, <1>3 DEF Order

(* A step to where no slot is gone for.                                    *)
LEMMA OrderPass ==
  ASSUME Structure, Order, NEW t \in Threads, NEW c, NEW n, Does(t, c, n), Structure',
         c.key \in {MySlot(t).key, Deleted},
         pc[t] = "store" /\ my[t].address # address[Key(t)] => c.key = Deleted,
         \/ pc'[t] \notin {"probe", "check", "reserve", "claim", "store"}
         \/ pc'[t] = "check" /\ request'[t].op # "put"
  PROVE  Order'
<1>1. PutAt(t)'
  BY DEF PutAt
<1>2. Claims(t, c)
  BY DEF Claims
<1> QED
  BY <1>1, <1>2, OrderStep

LEMMA OrderBegin ==
  ASSUME Structure, Order, NEW t \in Threads, Call(t) \/ Retry(t)
  PROVE  Order'
<1>1. /\ Structure' /\ Does(t, MySlot(t), 0) /\ pc[t] # "store" /\ pc'[t] = "probe"
      /\ my'[t] = Reading(request'[t].key) /\ request'[t].key \in Keys
  <2>1. CASE Call(t)
    <3>1. request'[t] \in Calls(t) /\ pc[t] = "idle"
      BY <2>1, CallIs
    <3>2. request'[t].key \in Keys
      BY <3>1, CallParts
    <3> QED
      BY <2>1, <3>1, <3>2, CallIs
  <2>2. CASE Retry(t)
    <3>1. pc[t] = "retry" /\ request' = request /\ my'[t] = Reading(Key(t))
      BY <2>2, RetryIs DEF Same
    <3>2. request[t] # Idle
      BY <3>1, HandIs DEF OpAt
    <3>3. Key(t) \in Keys
      BY <3>2, Asked DEF Structure
    <3> QED
      BY <2>2, <3>1, <3>3, RetryIs DEF Key
  <2> QED
    BY <2>1, <2>2
<1>2. PICK k \in Keys : k = request'[t].key
  BY <1>1
<1>3. PICK a \in Int : a = address[k]
  BY DEF Structure, Shape
<1>4. my'[t].address = a /\ address' = address
  BY <1>1, <1>2, <1>3, ReadingIs, DoesAfter
<1>5. PutAt(t)'
  <2>1. a <= a
    OBVIOUS
  <2>2. (address[Key(t)])' = a
    BY <1>2, <1>3, <1>4 DEF Key
  <2> QED
    BY <1>1, <1>4, <2>1, <2>2 DEF PutAt
<1>6. Claims(t, MySlot(t))
  BY <1>1 DEF Claims
<1> QED
  BY <1>1, <1>5, <1>6, OrderStep

(* The slot that puthash finds is the first on its way.                    *)
LEMMA OrderFind ==
  ASSUME Structure, Order, NEW t \in Threads, FindNew(t) \/ Find(t)
  PROVE  Order'
<1>1. CASE Find(t)
  <2>1. /\ Structure' /\ Does(t, MySlot(t), 0) /\ pc[t] = "probe" /\ pc'[t] = "check"
        /\ request[t].op # "put" /\ request' = request
    BY <1>1, FindIs DEF Same
  <2> QED
    BY <2>1, OrderPass
<1>2. CASE FindNew(t)
  <2> DEFINE s == Probe(MyVector(t).slots, my[t].address, {Free, Key(t)})
  <2>1. /\ Structure' /\ Does(t, MySlot(t), 0) /\ pc[t] = "probe" /\ pc'[t] = "check"
        /\ request[t].op = "put" /\ vectors' = vectors /\ my[t].vector \in Vectors
        /\ my'[t].vector = my[t].vector /\ my'[t].address = my[t].address /\ my'[t].slot = s
        /\ request' = request
    BY <1>2, FindNewIs DEF Same
  <2>2. PICK v \in Vectors : v = my[t].vector
    BY <2>1
  <2>3. PICK a \in Int : a = my[t].address
    BY HandIs
  <2>4. PICK k : k = Key(t)
    OBVIOUS
  <2>5. PICK j : j = s
    OBVIOUS
  <2>6. Size(v) \in Nat /\ Size(v)' = Size(v) /\ \A i : KeyAt(v, i)' = KeyAt(v, i)
    <3>1. Size(v) \in Nat
      BY UsedFinite
    <3> QED
      BY <2>1, <3>1 DEF Size, KeyAt
  <2>7. j # 0 => OnTheWay(v, a, j, {Free, k})'
    <3>1. j # 0 => OnTheWay(v, a, j, {Free, k})
      BY <2>2, <2>3, <2>4, <2>5, <2>6, ProbeWay DEF MyVector
    <3> QED
      BY <2>6, <3>1, SameKeys
  <2>8. /\ (my[t].vector)' = v /\ (my[t].address)' = a /\ Key(t)' = k /\ (my[t].slot)' = j
        /\ (address[Key(t)])' = address[k]
    BY <2>1, <2>2, <2>3, <2>4, <2>5, DoesAfter DEF Key
  <2>9. address[k] <= a
    BY <2>1, <2>3, <2>4 DEF Order, PutAt
  <2>10. PutAt(t)' <=>
           /\ request[t].op = "put" /\ j # 0 => OnTheWay(v, a, j, {Free, k})'
           /\ request[t].op = "put" => address[k] <= a
    BY <2>1, <2>8 DEF PutAt
  <2>11. Claims(t, MySlot(t))
    BY <2>1 DEF Claims
  <2> QED
    BY <2>1, <2>7, <2>9, <2>10, <2>11, OrderStep
<1> QED
  BY <1>1, <1>2

(* A slot that is free in the table's vector, which has the keys in place, *)
(* ends the way of a key that the vector does not have.                    *)
LEMMA NotThere ==
  ASSUME Structure, Order, NEW v \in Vectors, ~vectors[v].moved, NEW k \in Keys, NEW a \in Int,
         a = address[k], NEW j \in 1..Size(v), KeyAt(v, j) = Free, OnTheWay(v, a, j, {Free, k}),
         NEW i \in 1..Size(v), KeyAt(v, i) = k
  PROVE  StaleClaim(v, i)
<1> SUFFICES ASSUME ~StaleClaim(v, i) PROVE FALSE
  OBVIOUS
<1>1. OnTheWay(v, a, i, {Free, k})
  BY DEF Order, InPlaceIn
<1>2. Size(v) \in Nat
  BY UsedFinite
<1>3. i = j
  BY <1>1, <1>2, OneEnd
<1> QED
  BY <1>3, KeysAssumption

LEMMA OrderCheckForPut ==
  ASSUME Structure, Order, NEW t \in Threads, CheckForPut(t) \/ Reserve(t)
  PROVE  Order'
<1>1. Structure' /\ Does(t, MySlot(t), 0) /\ pc[t] \in {"check", "reserve"} /\ request[t].op = "put"
  <2>1. CASE CheckForPut(t)
    BY <2>1, CheckForPutIs
  <2>2. CASE Reserve(t)
    BY <2>2, ReserveIs, HandIs DEF OpAt
  <2> QED
    BY <2>1, <2>2
<1>2. CASE pc'[t] \notin {"reserve", "claim"}
  <2>1. pc'[t] \in {"error", "rehash", "value"}
    BY <1>2, CheckForPutIs, ReserveIs
  <2> QED
    BY <1>1, <2>1, OrderPass
<1>3. CASE pc'[t] \in {"reserve", "claim"}
  <2>1. /\ my' = my /\ vectors' = vectors /\ request' = request /\ my[t].slot # 0
        /\ pc'[t] = "reserve" => /\ pc[t] = "check" /\ ~vectors[vector].moved
                                 /\ my[t].vector = vector
                                 /\ KeyAt(my[t].vector, my[t].slot) = Free
        /\ pc'[t] = "claim" => pc[t] = "reserve"
    <3>1. CASE CheckForPut(t)
      BY <1>3, <3>1, CheckForPutIs DEF Same
    <3>2. CASE Reserve(t)
      <4>1. pc[t] = "reserve" /\ my[t].slot # 0
        BY <3>2, ReserveIs, HandIs DEF HandAt, AtSlot
      <4> QED
        BY <1>3, <3>2, <4>1, ReserveIs
    <3> QED
      BY <3>1, <3>2
  <2>2. my[t].vector \in Vectors /\ request[t] # Idle
    BY <1>1, HandIs DEF HandAt, OpAt, AtSlot
  <2>3. PICK v \in Vectors : v = my[t].vector
    BY <2>2
  <2>4. PICK a \in Int : a = my[t].address
    BY HandIs
  <2>5. PICK k \in Keys : k = Key(t)
    BY <2>2, Asked DEF Structure
  <2>6. PICK j \in 1..Size(v) : j = my[t].slot
    BY <1>1, <2>1, <2>3, HandIs DEF HandAt, AtSlot
  <2>7. Size(v) \in Nat /\ Size(v)' = Size(v) /\ \A i : KeyAt(v, i)' = KeyAt(v, i)
    <3>1. Size(v) \in Nat
      BY UsedFinite
    <3> QED
      BY <2>1, <3>1 DEF Size, KeyAt
  <2>8. OnTheWay(v, a, j, {Free, k}) /\ address[k] <= a
    BY <1>1, <2>1, <2>3, <2>4, <2>5, <2>6 DEF Order, PutAt
  <2>9. OnTheWay(v, a, j, {Free, k})'
    BY <2>7, <2>8, SameKeys
  <2>10. ASSUME a = address[k], KeyAt(v, j)' = Free, NEW i \in 1..Size(v), KeyAt(v, i)' = k
         PROVE  StaleClaim(v, i)'
    <3>1. KeyAt(v, j) = Free /\ KeyAt(v, i) = k
      BY <2>7, <2>10
    <3>2. StaleClaim(v, i)
      <4>1. CASE pc[t] = "reserve"
        BY <2>3, <2>4, <2>5, <2>6, <2>10, <3>1, <4>1 DEF Order, PutAt
      <4>2. CASE pc[t] = "check"
        <5>1. ~vectors[v].moved
          BY <1>3, <2>1, <2>3, <4>2
        <5> QED
          BY <2>8, <2>10, <3>1, <5>1, NotThere
      <4> QED
        BY <1>1, <4>1, <4>2
    <3>3. PICK u \in Threads : /\ pc[u] = "store" /\ my[u].address # address[Key(u)]
                               /\ my[u].vector = v /\ my[u].slot = i
      BY <3>2 DEF StaleClaim
    <3>4. u # t
      BY <1>1, <3>3
    <3>5. pc'[u] = pc[u] /\ my'[u] = my[u] /\ Key(u)' = Key(u) /\ address' = address
      BY <1>1, <3>4, DoesAfter DEF Key
    <3> QED
      BY <3>3, <3>5 DEF StaleClaim
  <2>11. /\ (my[t].vector)' = v /\ (my[t].address)' = a /\ Key(t)' = k /\ (my[t].slot)' = j
         /\ (address[Key(t)])' = address[k]
    BY <1>1, <2>1, <2>3, <2>4, <2>5, <2>6, DoesAfter DEF Key
  <2>12. PutAt(t)' <=>
           /\ request[t].op = "put" /\ j # 0 => OnTheWay(v, a, j, {Free, k})'
           /\ request[t].op = "put" => address[k] <= a
           /\ a = address[k] /\ KeyAt(v, j)' = Free =>
                  \A i \in 1..Size(v)' : KeyAt(v, i)' = k => StaleClaim(v, i)'
    BY <1>3, <2>1, <2>11 DEF PutAt
  <2>13. Claims(t, MySlot(t))
    BY <1>1 DEF Claims
  <2>14. PutAt(t)'
    BY <2>7, <2>8, <2>9, <2>10, <2>12
  <2> QED
    BY <1>1, <2>13, <2>14, OrderStep
<1> QED
  BY <1>2, <1>3

LEMMA OrderClaim ==
  ASSUME Structure, Order, NEW t \in Threads, ClaimKey(t) \/ CheckMoved(t)
  PROVE  Order'
<1>1. CASE CheckMoved(t)
  <2>1. PICK c : /\ Structure' /\ Does(t, c, 0) /\ pc'[t] \in {"fill", "rehash"}
                 /\ c.key \in {MySlot(t).key, Deleted}
                 /\ my[t].address # address[Key(t)] => c.key = Deleted
    BY <1>1, CheckMovedIs, SlotParts
  <2> QED
    BY <2>1, OrderPass
<1>2. CASE ClaimKey(t)
  <2>1. CASE pc'[t] = "rehash"
    BY <1>2, <2>1, ClaimKeyIs, OrderPass
  <2>2. CASE pc'[t] # "rehash"
    <3> DEFINE c == Slot(Key(t), MySlot(t).value)
    <3>1. /\ Structure' /\ Does(t, c, 0) /\ pc[t] = "claim" /\ pc'[t] = "store" /\ my' = my
          /\ request' = request /\ request[t].op = "put" /\ MySlot(t).key = Free
      BY <1>2, <2>2, ClaimKeyIs DEF Same
    <3>2. c.key = Key(t)
      BY SlotParts
    <3>3. address[Key(t)] <= my[t].address
      BY <3>1 DEF Order, PutAt
    <3>4. (address[Key(t)])' = address[Key(t)]
      BY <3>1, DoesAfter DEF Key
    <3>5. PutAt(t)'
      BY <3>1, <3>3, <3>4 DEF PutAt
    <3>6. Claims(t, c)
      BY <3>1, <3>2 DEF Claims
    <3> QED
      BY <3>1, <3>5, <3>6, OrderStep
  <2> QED
    BY <2>1, <2>2
<1> QED
  BY <1>1, <1>2

(* The rest of the operations touch no key but to delete it.               *)
LEMMA OrderOther ==
  ASSUME Structure, Order, NEW t \in Threads,
         \/ CheckFound(t) \/ GetValue(t) \/ RemoveValue(t) \/ PutValue(t) \/ SwapValue(t)
         \/ CountRemoved(t) \/ ClearKey(t) \/ FillValue(t) \/ CountAdded(t) \/ Done(t)
  PROVE  Order'
<1>1. \E c, n : /\ Does(t, c, n) /\ Structure' /\ c.key \in {MySlot(t).key, Deleted}
                /\ pc[t] # "store"
                /\ pc'[t] \notin {"probe", "check", "reserve", "claim", "store"}
  <2>1. CASE CheckFound(t)
    BY <2>1, CheckFoundIs
  <2>2. CASE GetValue(t)
    BY <2>2, GetValueIs
  <2>3. CASE RemoveValue(t)
    BY <2>3, RemoveValueIs
  <2>4. CASE PutValue(t)
    BY <2>4, PutValueIs
  <2>5. CASE SwapValue(t)
    BY <2>5, SwapValueIs, SlotParts
  <2>6. CASE CountRemoved(t)
    BY <2>6, CountRemovedIs
  <2>7. CASE ClearKey(t)
    BY <2>7, ClearKeyIs, SlotParts
  <2>8. CASE FillValue(t)
    BY <2>8, FillValueIs, SlotParts
  <2>9. CASE CountAdded(t)
    BY <2>9, CountAddedIs
  <2>10. CASE Done(t)
    BY <2>10, DoneIs
  <2> QED
    BY <2>1, <2>2, <2>3, <2>4, <2>5, <2>6, <2>7, <2>8, <2>9, <2>10
<1> QED
  BY <1>1, OrderPass

-----------------------------------------------------------------------------
(* What a rehash does to the order.  A step that leaves the vectors that   *)
(* somebody has and where the threads are.                                 *)
LEMMA Quiet ==
  ASSUME Structure, Order, NEW t \in Threads, pc[t] \in {"rehash"} \cup Owning, owner \in {t, None},
         pc'[t] \in Owning \cup {"retry", "error"}, \A u \in Threads \ {t} : pc'[u] = pc[u],
         UNCHANGED <<my, request, address>>,
         \A v \in Vectors : (\E u \in Threads : Holds(u, v)) =>
             Size(v)' = Size(v) /\ \A i \in 1..Size(v) : KeyAt(v, i)' = KeyAt(v, i)
  PROVE  /\ \A u \in Threads : PutAt(u)'
         /\ \A v \in Vectors : \A i : StaleClaim(v, i)' <=> StaleClaim(v, i)
         /\ \A u \in Threads \ {t} : CopiedAt(u)'
<1>1. \A u \in Threads : Key(u)' = Key(u)
  BY DEF Key
<1>2. pc[t] # "store" /\ pc'[t] # "store"
  BY DEF Owning
<1>3. ASSUME NEW v \in Vectors, NEW i PROVE StaleClaim(v, i)' <=> StaleClaim(v, i)
  <2>1. \A u \in Threads : pc'[u] = "store" <=> pc[u] = "store"
    BY <1>2
  <2> QED
    BY <1>1, <2>1 DEF StaleClaim
<1>4. ASSUME NEW u \in Threads PROVE PutAt(u)'
  <2>1. CASE u = t
    <3>1. pc'[t] \notin {"probe", "check", "reserve", "claim", "store"}
      BY DEF Owning
    <3> QED
      BY <2>1, <3>1 DEF PutAt
  <2>2. CASE u # t /\ pc[u] \notin {"check", "reserve", "claim"}
    <3>1. PutAt(u) /\ pc'[u] = pc[u]
      BY <2>2 DEF Order
    <3> QED
      BY <1>1, <2>2, <3>1 DEF PutAt
  <2>3. CASE u # t /\ pc[u] \in {"check", "reserve", "claim"}
    <3>1. PutAt(u) /\ pc'[u] = pc[u]
      BY <2>3 DEF Order
    <3>2. my[u].vector \in Vectors /\ my[u].address \in Int /\ my[u].slot \in Nat
      BY <2>3, HandIs DEF HandAt, AtSlot
    <3>3. PICK v \in Vectors : v = my[u].vector
      BY <3>2
    <3>4. PICK a \in Int : a = my[u].address
      BY <3>2
    <3>5. PICK k : k = Key(u)
      OBVIOUS
    <3>6. PICK j : j = my[u].slot
      OBVIOUS
    <3>7. Size(v)' = Size(v) /\ Size(v) \in Nat /\ \A i \in 1..Size(v) : KeyAt(v, i)' = KeyAt(v, i)
      BY <3>3, UsedFinite DEF Holds
    <3>8. request[u].op = "put" /\ j # 0 => OnTheWay(v, a, j, {Free, k})'
      <4>1. request[u].op = "put" /\ j # 0 => OnTheWay(v, a, j, {Free, k})
        BY <2>3, <3>1, <3>3, <3>4, <3>5, <3>6 DEF PutAt
      <4> QED
        BY <3>7, <4>1, SameKeys
    <3>9. ASSUME pc[u] \in {"reserve", "claim"}, a = address[k], KeyAt(v, j)' = Free,
                 NEW i \in 1..Size(v), KeyAt(v, i)' = k
          PROVE  StaleClaim(v, i)'
      <4>1. j \in 1..Size(v)
        BY <3>3, <3>6, <3>9, HandIs DEF HandAt, AtSlot
      <4>2. KeyAt(v, j) = Free /\ KeyAt(v, i) = k
        BY <3>7, <3>9, <4>1
      <4>3. StaleClaim(v, i)
        BY <3>1, <3>3, <3>4, <3>5, <3>6, <3>9, <4>2 DEF PutAt
      <4> QED
        BY <1>3, <4>3
    <3>10. /\ (my[u].vector)' = v /\ (my[u].address)' = a /\ Key(u)' = k /\ (my[u].slot)' = j
           /\ (address[Key(u)])' = address[k]
      BY <1>1, <3>3, <3>4, <3>5, <3>6
    <3>11. PutAt(u)' <=>
             /\ request[u].op = "put" /\ pc[u] \in {"check", "reserve", "claim"} /\ j # 0 =>
                    OnTheWay(v, a, j, {Free, k})'
             /\ pc[u] = "probe" \/ (request[u].op = "put" /\ pc[u] \in {"check", "reserve", "claim", "store"})
                    => address[k] <= a
             /\ pc[u] \in {"reserve", "claim"} /\ a = address[k] /\ KeyAt(v, j)' = Free =>
                    \A i \in 1..Size(v)' : KeyAt(v, i)' = k => StaleClaim(v, i)'
      BY <3>1, <3>10 DEF PutAt
    <3>12. pc[u] = "probe" \/ (request[u].op = "put" /\ pc[u] \in {"check", "reserve", "claim", "store"})
             => address[k] <= a
      BY <3>1, <3>4, <3>5 DEF PutAt
    <3> QED
      BY <3>7, <3>8, <3>9, <3>11, <3>12
  <2> QED
    BY <2>1, <2>2, <2>3
<1>5. ASSUME NEW u \in Threads \ {t} PROVE CopiedAt(u)'
  <2>1. pc[u] \notin Copying
    BY RehashParts, ConstantTypes
  <2> QED
    BY <2>1 DEF CopiedAt, Copying
<1> QED
  BY <1>3, <1>4, <1>5

(* A vector whose keys stay, one without keys, and one with its keys laid  *)
(* out anew.                                                               *)
LEMMA VectorSame ==
  ASSUME Structure, Order, NEW v \in Vectors, address' = address,
         Size(v)' = Size(v), \A i \in 1..Size(v) : KeyAt(v, i)' = KeyAt(v, i),
         (vectors[v].moved)' = vectors[v].moved, \A i : StaleClaim(v, i)' <=> StaleClaim(v, i)
  PROVE  UniqueIn(v)' /\ InPlaceIn(v)'
<1>1. Size(v) \in Nat /\ UniqueIn(v) /\ InPlaceIn(v)
  BY UsedFinite DEF Order
<1>2. UniqueIn(v)'
  BY <1>1 DEF UniqueIn
<1>3. ASSUME NEW j \in 1..Size(v), ~vectors[v].moved, KeyAt(v, j)' \in Keys, ~StaleClaim(v, j)'
      PROVE  OnTheWay(v, address[KeyAt(v, j)], j, {Free, KeyAt(v, j)})'
  <2>1. PICK k \in Keys : k = KeyAt(v, j)
    BY <1>3
  <2>2. PICK a \in Int : a = address[k]
    BY DEF Structure, Shape
  <2>3. OnTheWay(v, a, j, {Free, k})
    BY <1>1, <1>3, <2>1, <2>2 DEF InPlaceIn
  <2>4. OnTheWay(v, a, j, {Free, k})'
    BY <1>1, <2>3, SameKeys
  <2>5. a = (address[KeyAt(v, j)])' /\ k = KeyAt(v, j)'
    BY <2>1, <2>2
  <2> QED
    BY <2>4, <2>5
<1>4. InPlaceIn(v)'
  BY <1>3 DEF InPlaceIn
<1> QED
  BY <1>2, <1>4

LEMMA VectorFree ==
  ASSUME NEW v, \A i \in 1..Size(v)' : KeyAt(v, i)' = Free
  PROVE  UniqueIn(v)' /\ InPlaceIn(v)'
<1>1. \A i \in 1..Size(v)' : KeyAt(v, i)' \notin Keys
  BY KeysAssumption
<1> QED
  BY <1>1 DEF UniqueIn, InPlaceIn

(* Slots where each entry is laid and each key is once: a probe for a key  *)
(* ends at its entry.                                                      *)
LEMMA LaidWay ==
  ASSUME NEW s \in Seq(Cells), Laid(s), \A i, j \in 1..Len(s) : s[i].key # Free /\ s[i].key = s[j].key => i = j,
         NEW i \in 1..Len(s), s[i].key \in Keys, NEW a \in Int, a = address[s[i].key]
  PROVE  \E n \in 0..Len(s)-1 :
           /\ i = At(s, a, n)
           /\ \A m \in 0..n-1 : s[At(s, a, m)].key \notin {Free, s[i].key}
<1> DEFINE r == [s EXCEPT ![i].key = Free]
<1>1. Len(r) = Len(s) /\ Len(s) \in Nat /\ DOMAIN s = 1..Len(s) /\ \A x \in 1..Len(s) : x # i => r[x] = s[x]
  <2>1. Len(s) \in Nat /\ DOMAIN s = 1..Len(s)
    BY LenProperties
  <2>2. r = [s EXCEPT ![i] = [s[i] EXCEPT !.key = Free]]
    OBVIOUS
  <2>3. [s[i] EXCEPT !.key = Free] \in Cells
    <3>1. s[i] \in Cells
      BY ElementOfSeq
    <3> QED
      BY <3>1, CellParts
  <2> HIDE DEF r
  <2> QED
    BY <2>1, <2>2, <2>3, CellStored
<1>2. s[i].key # Free
  BY KeysAssumption
<1>3. Probe(r, a, {Free}) = i
  BY <1>1, <1>2 DEF Laid
<1> HIDE DEF r
<1>4. i # 0
  BY <1>1
<1>5. PICK n \in 0..Len(r)-1 : /\ i = At(r, a, n)
                               /\ \A m \in 0..n-1 : r[At(r, a, m)].key \notin {Free}
  BY <1>1, <1>3, <1>4, ProbeIs
<1>6. \A m \in Int : At(r, a, m) = At(s, a, m)
  BY <1>1, SameWalk
<1>7. i = At(s, a, n)
  <2>1. n \in Int
    BY <1>1
  <2>2. At(r, a, n) = At(s, a, n)
    BY <1>6, <2>1
  <2> QED
    BY <1>5, <2>2
<1>8. ASSUME NEW m \in 0..n-1 PROVE s[At(s, a, m)].key \notin {Free, s[i].key}
  <2>1. PICK x : x = At(s, a, m)
    OBVIOUS
  <2>2. x = At(r, a, m) /\ x \in 1..Len(s)
    <3>1. Len(s) > 0 /\ m \in Int
      BY <1>1
    <3> QED
      BY <1>1, <1>6, <2>1, <3>1, AtIsSlot
  <2>3. r[x].key # Free
    BY <1>5, <2>2
  <2>4. x # i
    <3>1. r[i].key = Free
      <4>1. s[i] \in Cells
        BY ElementOfSeq
      <4> QED
        BY <1>1, <4>1 DEF r, Cells
    <3> QED
      BY <2>3, <3>1
  <2>5. s[x].key # Free /\ s[x].key # s[i].key
    BY <1>1, <1>2, <2>2, <2>3, <2>4
  <2> QED
    BY <2>1, <2>5
<1> QED
  BY <1>1, <1>5, <1>7, <1>8

(* A way that nothing free ends, where none of the slots has the key.      *)
LEMMA WayWithout ==
  ASSUME NEW v, NEW a \in Int, NEW j, OnTheWay(v, a, j, {Free}), Size(v) \in Nat,
         NEW k, \A i \in Used(v) : KeyAt(v, i) # k
  PROVE  OnTheWay(v, a, j, {Free, k})
<1> DEFINE r == vectors[v].slots
<1>1. PICK n \in 0..Size(v)-1 :
        /\ j = At(r, a, n)
        /\ \A m \in 0..n-1 : KeyAt(v, At(r, a, m)) \notin {Free}
  BY DEF OnTheWay
<1>2. ASSUME NEW m \in 0..n-1 PROVE KeyAt(v, At(r, a, m)) \notin {Free, k}
  <2>1. Len(r) = Size(v) /\ m \in Int /\ Size(v) > 0
    BY <1>1 DEF Size
  <2>2. At(r, a, m) \in 1..Size(v)
    BY <2>1, AtIsSlot
  <2>3. At(r, a, m) \in Used(v)
    BY <1>1, <2>2 DEF Used
  <2> QED
    BY <1>1, <2>3
<1> QED
  BY <1>1, <1>2 DEF OnTheWay

(* Steps of the rehasher that change no key.                               *)
LEMMA OrderWaits ==
  ASSUME Structure, Order, NEW t \in Threads, Lock(t) \/ Decide(t) \/ CountSlot(t)
  PROVE  Order'
<1>1. /\ pc[t] \in {"rehash"} \cup Owning /\ owner \in {t, None}
      /\ pc'[t] \in {"decide", "retry", "count"} /\ \A u \in Threads \ {t} : pc'[u] = pc[u]
      /\ UNCHANGED <<my, request, address, vectors>>
  <2>1. CASE Lock(t)
    BY <2>1, OthersStay DEF Lock, Keep, tableVars
  <2>2. CASE Decide(t)
    BY <2>2, DecideIs, OthersStay DEF Owning
  <2>3. CASE CountSlot(t)
    BY <2>3, RehashParts DEF CountSlot, Keep, tableVars, threadVars, Owning
  <2> QED
    BY <2>1, <2>2, <2>3
<1>2. \A v \in Vectors : /\ Size(v)' = Size(v) /\ (vectors[v].moved)' = vectors[v].moved
                         /\ \A i \in 1..Size(v) : KeyAt(v, i)' = KeyAt(v, i)
  BY <1>1 DEF Size, KeyAt
<1>3. pc'[t] \in Owning \cup {"retry", "error"}
  BY <1>1 DEF Owning
<1>4. /\ \A u \in Threads : PutAt(u)' /\ \A v \in Vectors : \A i : StaleClaim(v, i)' <=> StaleClaim(v, i)
      /\ \A u \in Threads \ {t} : CopiedAt(u)'
  BY <1>1, <1>2, <1>3, Quiet
<1>5. \A v \in Vectors : UniqueIn(v)' /\ InPlaceIn(v)'
  BY <1>1, <1>2, <1>4, VectorSame
<1>6. CopiedAt(t)'
  BY <1>1 DEF CopiedAt, Copying
<1> QED
  BY <1>4, <1>5, <1>6 DEF Order

LEMMA OrderMake ==
  ASSUME Structure, Order, NEW t \in Threads, MakeVector(t)
  PROVE  Order'
<1>1. PICK new \in Vectors \ {vector}, size \in Nat :
        /\ \A u \in Threads : ~Holds(u, new)
        /\ vectors' = [vectors EXCEPT ![new] = NewVector(size)]
        /\ pc[t] = "count" /\ Goto(t, "copy") /\ (copy.to)' = new
        /\ UNCHANGED <<owner, address, request, my>>
  BY MakeVectorIs
<1>2. owner = t /\ vectors \in [Vectors -> Tables]
  BY <1>1, RehashParts DEF Structure, Shape
<1>3. \A v \in Vectors \ {new} : /\ Size(v)' = Size(v) /\ (vectors[v].moved)' = vectors[v].moved
                                 /\ \A i \in 1..Size(v) : KeyAt(v, i)' = KeyAt(v, i)
  BY <1>1, <1>2 DEF Size, KeyAt
<1>4. \A i \in 1..Size(new)' : KeyAt(new, i)' = Free
  BY <1>1, <1>2, NewVectorIs DEF Size, KeyAt
<1>5. pc'[t] = "copy" /\ \A u \in Threads \ {t} : pc'[u] = pc[u]
  BY <1>1, OthersStay
<1>6. /\ \A u \in Threads : PutAt(u)' /\ \A v \in Vectors : \A i : StaleClaim(v, i)' <=> StaleClaim(v, i)
      /\ \A u \in Threads \ {t} : CopiedAt(u)'
  <2>1. pc[t] \in {"rehash"} \cup Owning /\ pc'[t] \in Owning \cup {"retry", "error"}
    BY <1>1, <1>5 DEF Owning
  <2>2. \A v \in Vectors : (\E u \in Threads : Holds(u, v)) => v # new
    BY <1>1
  <2> QED
    BY <1>1, <1>2, <1>3, <1>5, <2>1, <2>2, Quiet
<1>7. \A v \in Vectors : UniqueIn(v)' /\ InPlaceIn(v)'
  <2>1. UniqueIn(new)' /\ InPlaceIn(new)'
    BY <1>4, VectorFree
  <2>2. \A v \in Vectors \ {new} : UniqueIn(v)' /\ InPlaceIn(v)'
    BY <1>1, <1>3, <1>6, VectorSame
  <2> QED
    BY <2>1, <2>2
<1>8. CopiedAt(t)'
  <2>1. Used(copy.to)' = {}
    BY <1>1, <1>4 DEF Used
  <2> QED
    BY <1>5, <2>1 DEF CopiedAt
<1> QED
  BY <1>6, <1>7, <1>8 DEF Order

(* A slot that was copied from stays when the rehasher does not touch it.  *)
LEMMA SourceKept ==
  ASSUME NEW t \in Threads, pc'[t] \notin Mine, \A u \in Threads \ {t} : pc'[u] = pc[u],
         my' = my, vector' = vector, NEW i, NEW k, Source(i, k),
         KeyAt(vector, i)' = KeyAt(vector, i), ValueAt(vector, i)' = ValueAt(vector, i)
  PROVE  Source(i, k)'
BY DEF Source

(* Two entries of the table's vector do not have the same key.             *)
LEMMA SourceIsOne ==
  ASSUME Structure, Order, NEW i \in 1..Size(vector), NEW j \in 1..Size(vector), NEW k \in Keys,
         Source(j, k), KeyAt(vector, i) = k, ValueAt(vector, i) \in Values
  PROVE  i = j
<1> SUFFICES ASSUME i # j PROVE FALSE
  OBVIOUS
<1>1. StaleClaim(vector, i) \/ StaleClaim(vector, j)
  <2>1. vector \in Vectors /\ KeyAt(vector, j) = k
    BY DEF Structure, Shape, Source
  <2> QED
    BY <2>1 DEF Order, UniqueIn
<1>2. ~StaleClaim(vector, j)
  BY DEF Source, StaleClaim, Mine
<1>3. PICK u \in Threads : pc[u] = "store" /\ my[u].vector = vector /\ my[u].slot = i
  BY <1>1, <1>2 DEF StaleClaim
<1>4. CellAt(u)
  BY HandIs
<1> QED
  BY <1>3, <1>4, KeysAssumption DEF CellAt

LEMMA OrderCopy ==
  ASSUME Structure, Order, NEW t \in Threads, CopySlot(t)
  PROVE  Order'
<1> DEFINE slot == vectors[vector].slots[copy.index]
<1> DEFINE to == Probe(vectors[copy.to].slots, address[slot.key], {Free, Deleted})
<1>1. /\ pc[t] = "copy" /\ copy.index \in 1..Size(vector)
      /\ \A v \in Vectors \ {vector} : vectors'[v] = vectors[v]
      /\ Size(vector)' = Size(vector)
      /\ (vectors[vector].moved)' = vectors[vector].moved
      /\ \A i \in 1..Size(vector) : vectors'[vector].slots[i] =
             IF i = copy.index THEN Slot(slot.key, Rehashing) ELSE vectors[vector].slots[i]
      /\ UNCHANGED <<vector, owner, address, request, my>> /\ (copy.to)' = copy.to
      /\ \/ /\ slot.value \in Values /\ slot.key \in Keys /\ Goto(t, "place")
            /\ (copy.index)' = copy.index
            /\ (copy.carry)' = [key |-> slot.key, value |-> slot.value, slot |-> to]
         \/ Goto(t, "copy") /\ (copy.index)' = copy.index + 1
  BY CopySlotIs
<1>2. /\ owner = t /\ vector \in Vectors /\ copy.to \in Vectors \ {vector} /\ Size(vector) \in Nat
      /\ copy.index \in Nat
  BY <1>1, RehashParts DEF Copying
<1>3. PICK w \in Vectors : w = vector
  BY <1>2
<1>4. PICK c \in 1..Size(w) : c = copy.index
  BY <1>1, <1>3
<1>5. /\ \A i \in 1..Size(w) : KeyAt(w, i)' = KeyAt(w, i)
      /\ \A i \in 1..Size(w) : i # c => ValueAt(w, i)' = ValueAt(w, i)
      /\ ValueAt(w, c)' = Rehashing /\ KeyAt(w, c) = slot.key /\ ValueAt(w, c) = slot.value
  <2>1. \A i \in 1..Size(w) : vectors'[w].slots[i] = IF i = c THEN Slot(slot.key, Rehashing)
                                                     ELSE vectors[w].slots[i]
    BY <1>1, <1>3, <1>4
  <2>2. KeyAt(w, c) = slot.key /\ ValueAt(w, c) = slot.value
    BY <1>3, <1>4 DEF KeyAt, ValueAt
  <2> HIDE DEF slot
  <2> QED
    BY <2>1, <2>2, SlotParts DEF KeyAt, ValueAt
<1> HIDE DEF slot
<1>6. /\ pc'[t] \in {"copy", "place"} /\ \A u \in Threads \ {t} : pc'[u] = pc[u]
  BY <1>1, OthersStay
<1>7. \A v \in Vectors : /\ Size(v)' = Size(v) /\ (vectors[v].moved)' = vectors[v].moved
                         /\ \A i \in 1..Size(v) : KeyAt(v, i)' = KeyAt(v, i)
  <2>1. Size(w)' = Size(w) /\ (vectors[w].moved)' = vectors[w].moved
    BY <1>1, <1>3
  <2>2. \A v \in Vectors \ {w} : vectors'[v] = vectors[v]
    BY <1>1, <1>3
  <2> QED
    BY <1>5, <2>1, <2>2 DEF Size, KeyAt
<1>8. /\ \A u \in Threads : PutAt(u)' /\ \A v \in Vectors : \A i : StaleClaim(v, i)' <=> StaleClaim(v, i)
      /\ \A u \in Threads \ {t} : CopiedAt(u)'
  <2>1. pc[t] \in {"rehash"} \cup Owning /\ pc'[t] \in Owning \cup {"retry", "error"}
    BY <1>1, <1>6 DEF Owning
  <2> QED
    BY <1>1, <1>2, <1>6, <1>7, <2>1, Quiet
<1>9. \A v \in Vectors : UniqueIn(v)' /\ InPlaceIn(v)'
  BY <1>1, <1>7, <1>8, VectorSame
<1>10. PICK x \in Vectors \ {w} : x = copy.to
  BY <1>2, <1>3
<1>11. /\ Size(x)' = Size(x) /\ Size(x) \in Nat /\ Used(x)' = Used(x)
       /\ \A j : KeyAt(x, j)' = KeyAt(x, j)
  <2>1. vectors'[x] = vectors[x]
    BY <1>1, <1>3, <1>10
  <2> QED
    BY <2>1, UsedFinite DEF Size, Used, KeyAt
<1>12. CopiedAt(t) /\ CopyAt(t)
  BY DEF Order, Structure, CopyInv
<1>13. pc'[t] \notin Mine
  BY <1>6 DEF Mine
<1>14. ASSUME NEW j \in Used(x) PROVE \E i \in 1..c - 1 : Source(i, KeyAt(x, j)) /\ Source(i, KeyAt(x, j))'
  <2>1. PICK k : k = KeyAt(x, j)
    OBVIOUS
  <2>2. PICK i \in 1..c - 1 : Source(i, k)
    BY <1>1, <1>4, <1>10, <1>12, <2>1 DEF CopiedAt, Copying
  <2>3. i \in 1..Size(w) /\ i # c
    BY <1>2, <1>3
  <2>4. KeyAt(vector, i)' = KeyAt(vector, i) /\ ValueAt(vector, i)' = ValueAt(vector, i)
    <3>1. KeyAt(w, i)' = KeyAt(w, i) /\ ValueAt(w, i)' = ValueAt(w, i)
      BY <1>5, <2>3
    <3> QED
      BY <1>1, <1>3, <3>1 DEF KeyAt, ValueAt
  <2>5. Source(i, k)'
    BY <1>1, <1>6, <1>13, <2>2, <2>4, SourceKept
  <2>6. k = KeyAt(x, j)'
    BY <1>11, <2>1
  <2> QED
    BY <2>1, <2>2, <2>5, <2>6
<1>15. \A j \in Used(copy.to)' : \E i \in 1..(copy.index)' - 1 : Source(i, KeyAt(copy.to, j))'
  <2>1. (copy.index)' \in {c, c + 1}
    BY <1>1, <1>4
  <2>2. \A i \in 1..c - 1 : i \in 1..(copy.index)' - 1
    BY <2>1
  <2> QED
    BY <1>1, <1>10, <1>11, <1>14, <2>2
<1>16. CASE pc'[t] = "copy"
  <2>1. CopiedAt(t)'
    BY <1>15, <1>16 DEF CopiedAt
  <2> QED
    BY <1>8, <1>9, <2>1 DEF Order
<1>17. CASE pc'[t] = "place"
  <2>1. /\ slot.value \in Values /\ slot.key \in Keys /\ (copy.index)' = c
        /\ (copy.carry)' = [key |-> slot.key, value |-> slot.value, slot |-> to]
    <3>1. ~Goto(t, "copy")
      BY <1>17, OthersStay
    <3> QED
      BY <1>1, <1>4, <3>1
  <2>2. PICK k \in Keys : k = slot.key
    BY <2>1
  <2>3. PICK a \in Int : a = address[k]
    BY DEF Structure, Shape
  <2>4. /\ to \in 1..Size(x) /\ OnTheWay(x, a, to, {Free})
    <3>1. LET s == Probe(vectors[x].slots, address[k], {Free, Deleted}) IN
          /\ s \in 1..Size(x)
          /\ \E n \in 0..Size(x)-1 :
                /\ s = At(vectors[x].slots, address[k], n)
                /\ \A m \in 0..n-1 : KeyAt(x, At(vectors[x].slots, address[k], m)) # Free
      BY <1>1, <1>10, PlaceFound
    <3>2. to = Probe(vectors[x].slots, a, {Free, Deleted})
      BY <1>10, <2>2, <2>3
    <3> HIDE DEF to
    <3> QED
      BY <2>3, <3>1, <3>2 DEF OnTheWay
  <2>5. PICK s : s = to
    OBVIOUS
  <2> HIDE DEF to
  <2>6. OnTheWay(x, a, s, {Free})'
    BY <1>11, <2>4, <2>5, SameKeys
  <2>7. Source(c, k)'
    <3>1. KeyAt(w, c)' = k /\ ValueAt(w, c)' = Rehashing
      BY <1>5, <2>2
    <3>2. \A u \in Threads : ~(pc'[u] \in Mine /\ my'[u].vector = w /\ my'[u].slot = c)
      <4>1. ASSUME NEW u \in Threads, pc[u] \in Mine, my[u].vector = w, my[u].slot = c PROVE FALSE
        <5>1. ValueAt(w, c) \in {Free, Deleted, Rehashing}
          BY <4>1, HandIs DEF CellAt, Mine
        <5> QED
          BY <1>5, <2>1, <5>1, KeysAssumption
      <4>2. \A u \in Threads : pc'[u] \in Mine => pc[u] \in Mine
        BY <1>6, <1>13
      <4> QED
        BY <1>1, <4>1, <4>2
    <3>3. vector' = w
      BY <1>1, <1>3
    <3> QED
      BY <3>1, <3>2, <3>3 DEF Source
  <2>8. ASSUME NEW j \in Used(x), KeyAt(x, j)' = k PROVE FALSE
    <3>1. PICK i \in 1..c - 1 : Source(i, KeyAt(x, j))
      BY <1>14, <2>8
    <3>2. Source(i, k) /\ i \in 1..Size(w) /\ i # c
      BY <1>2, <1>3, <1>11, <2>8, <3>1
    <3>3. KeyAt(vector, c) = k /\ ValueAt(vector, c) \in Values
      BY <1>3, <1>5, <2>1, <2>2
    <3> QED
      BY <1>3, <3>2, <3>3, SourceIsOne
  <2>9. (copy.carry.key)' = k /\ (copy.carry.slot)' = s /\ (copy.index)' = c
    BY <2>1, <2>2, <2>5
  <2>10. (copy.to)' = x /\ (address[copy.carry.key])' = a
    BY <1>1, <1>10, <2>3, <2>9
  <2>11. Source(copy.index, copy.carry.key)'
    BY <2>7, <2>9
  <2>12. \A j \in Used(copy.to)' : KeyAt(copy.to, j)' # (copy.carry.key)'
    BY <1>11, <2>8, <2>9, <2>10
  <2>13. OnTheWay(copy.to, address[copy.carry.key], copy.carry.slot, {Free})'
    BY <2>6, <2>9, <2>10
  <2>14. CopiedAt(t)'
    BY <1>15, <2>11, <2>12, <2>13 DEF CopiedAt
  <2> QED
    BY <1>8, <1>9, <2>14 DEF Order
<1> QED
  BY <1>6, <1>16, <1>17

LEMMA OrderPlace ==
  ASSUME Structure, Order, Structure', NEW t \in Threads, PlaceEntry(t)
  PROVE  Order'
<1>1. /\ pc[t] = "place" /\ UNCHANGED <<vector, owner, address, request, my>>
      /\ \A v \in Vectors \ {copy.to} : vectors'[v] = vectors[v]
      /\ copy.carry.slot \in 1..Size(copy.to) /\ KeyAt(copy.to, copy.carry.slot) = Free
      /\ Size(copy.to)' = Size(copy.to) /\ (vectors[copy.to].moved)' = vectors[copy.to].moved
      /\ \A i \in 1..Size(copy.to) : vectors'[copy.to].slots[i] =
             IF i = copy.carry.slot THEN Slot(copy.carry.key, copy.carry.value)
             ELSE vectors[copy.to].slots[i]
      /\ Used(copy.to)' = Used(copy.to) \cup {copy.carry.slot}
      /\ (copy.to)' = copy.to /\ (copy.index)' = copy.index + 1
      /\ Goto(t, IF copy.room - 1 <= 0 THEN "error" ELSE "copy")
  BY PlaceEntryIs
<1>2. /\ owner = t /\ vector \in Vectors /\ copy.to \in Vectors \ {vector}
      /\ \A u \in Threads : ~Holds(u, copy.to)
  BY <1>1, RehashParts DEF Copying
<1>3. CopiedAt(t) /\ CopyAt(t)
  BY DEF Order, Structure, CopyInv
<1>4. PICK x \in Vectors : x = copy.to /\ x # vector
  BY <1>2
<1>5. PICK s \in 1..Size(x) : s = copy.carry.slot
  BY <1>1, <1>4
<1>6. PICK k \in Keys : k = copy.carry.key
  BY <1>1, <1>3 DEF CopyAt
<1>7. PICK c \in 1..Size(vector) : c = copy.index
  BY <1>1, <1>3 DEF CopyAt
<1>8. PICK a \in Int : a = address[k]
  BY DEF Structure, Shape
<1>9. /\ Size(x) \in Nat /\ Size(x)' = Size(x) /\ (vectors[x].moved)' = vectors[x].moved
      /\ KeyAt(x, s) = Free /\ KeyAt(x, s)' = k
      /\ \A i \in 1..Size(x) : i # s => KeyAt(x, i)' = KeyAt(x, i)
      /\ Used(x)' = Used(x) \cup {s}
  <2>1. Size(x) \in Nat /\ Size(x)' = Size(x) /\ (vectors[x].moved)' = vectors[x].moved
    BY <1>1, <1>4, UsedFinite
  <2>2. KeyAt(x, s) = Free
    BY <1>1, <1>4, <1>5
  <2>3. \A i \in 1..Size(x) : vectors'[x].slots[i] = IF i = s THEN Slot(k, copy.carry.value)
                                                     ELSE vectors[x].slots[i]
    BY <1>1, <1>4, <1>5, <1>6
  <2>4. KeyAt(x, s)' = k /\ \A i \in 1..Size(x) : i # s => KeyAt(x, i)' = KeyAt(x, i)
    BY <2>3, SlotParts DEF KeyAt
  <2>5. Used(x)' = Used(x) \cup {s}
    BY <1>1, <1>4, <1>5 DEF Used
  <2> QED
    BY <2>1, <2>2, <2>4, <2>5
<1>10. \A v \in Vectors \ {x} : /\ Size(v)' = Size(v) /\ (vectors[v].moved)' = vectors[v].moved
                                /\ \A i \in 1..Size(v) : KeyAt(v, i)' = KeyAt(v, i)
  <2>1. \A v \in Vectors \ {x} : vectors'[v] = vectors[v]
    BY <1>1, <1>4
  <2> QED
    BY <2>1 DEF Size, KeyAt
<1>11. pc'[t] \in {"copy", "error"} /\ \A u \in Threads \ {t} : pc'[u] = pc[u]
  BY <1>1, OthersStay
<1>12. /\ \A u \in Threads : PutAt(u)' /\ \A v \in Vectors : \A i : StaleClaim(v, i)' <=> StaleClaim(v, i)
       /\ \A u \in Threads \ {t} : CopiedAt(u)'
  <2>1. pc[t] \in {"rehash"} \cup Owning /\ pc'[t] \in Owning \cup {"retry", "error"}
    BY <1>1, <1>11 DEF Owning
  <2>2. \A v \in Vectors : (\E u \in Threads : Holds(u, v)) => v # x
    BY <1>2, <1>4
  <2> QED
    BY <1>1, <1>2, <1>10, <1>11, <2>1, <2>2, Quiet
<1>13. /\ Source(c, k) /\ \A j \in Used(x) : KeyAt(x, j) # k
       /\ OnTheWay(x, a, s, {Free})
  BY <1>1, <1>3, <1>4, <1>5, <1>6, <1>7, <1>8 DEF CopiedAt
<1>14. UniqueIn(x)'
  <2>1. ASSUME NEW i \in 1..Size(x), NEW j \in 1..Size(x), KeyAt(x, i)' = KeyAt(x, j)',
               KeyAt(x, i)' \in Keys, i # j, i # s, j # s
        PROVE  StaleClaim(x, i)' \/ StaleClaim(x, j)'
    <3>1. StaleClaim(x, i) \/ StaleClaim(x, j)
      BY <1>9, <2>1 DEF Order, UniqueIn
    <3> QED
      BY <1>12, <3>1
  <2>2. ASSUME NEW j \in 1..Size(x), j # s, KeyAt(x, j)' = k PROVE FALSE
    <3>1. KeyAt(x, j) = k /\ KeyAt(x, j) # Free
      BY <1>9, <2>2, KeysAssumption
    <3> QED
      BY <1>13, <3>1 DEF Used
  <2> QED
    BY <1>9, <2>1, <2>2 DEF UniqueIn
<1>15. InPlaceIn(x)'
  <2>1. ASSUME NEW j \in 1..Size(x), ~vectors[x].moved, KeyAt(x, j)' \in Keys, ~StaleClaim(x, j)'
        PROVE  OnTheWay(x, address[KeyAt(x, j)], j, {Free, KeyAt(x, j)})'
    <3>1. PICK h \in Keys : h = KeyAt(x, j)'
      BY <2>1
    <3>2. PICK b \in Int : b = address[h]
      BY DEF Structure, Shape
    <3>3. OnTheWay(x, b, j, {Free, h})
      <4>1. CASE j = s
        <5>1. h = k /\ b = a
          BY <1>8, <1>9, <3>1, <3>2, <4>1
        <5> QED
          BY <1>9, <1>13, <4>1, <5>1, WayWithout
      <4>2. CASE j # s
        <5>1. KeyAt(x, j) = h /\ ~StaleClaim(x, j)
          BY <1>9, <1>12, <2>1, <3>1, <4>2
        <5> QED
          BY <2>1, <3>2, <5>1 DEF Order, InPlaceIn
      <4> QED
        BY <4>1, <4>2
    <3>4. \A i \in 1..Size(x) : KeyAt(x, i)' \in {Free, h} => KeyAt(x, i) \in {Free, h}
      BY <1>9
    <3>5. OnTheWay(x, b, j, {Free, h})'
      BY <1>9, <3>3, <3>4, WayStays
    <3>6. b = (address[KeyAt(x, j)])' /\ h = KeyAt(x, j)'
      BY <1>1, <3>1, <3>2
    <3> QED
      BY <3>5, <3>6
  <2> QED
    BY <1>9, <2>1 DEF InPlaceIn
<1>16. \A v \in Vectors : UniqueIn(v)' /\ InPlaceIn(v)'
  <2>1. \A v \in Vectors \ {x} : UniqueIn(v)' /\ InPlaceIn(v)'
    BY <1>1, <1>10, <1>12, VectorSame
  <2> QED
    BY <1>14, <1>15, <2>1
<1>17. CopiedAt(t)'
  <2>1. pc'[t] \notin Mine /\ vector' = vector /\ my' = my /\ vectors'[vector] = vectors[vector]
    BY <1>1, <1>2, <1>11 DEF Mine
  <2>2. ASSUME NEW i, NEW h, Source(i, h) PROVE Source(i, h)'
    <3>1. KeyAt(vector, i)' = KeyAt(vector, i) /\ ValueAt(vector, i)' = ValueAt(vector, i)
      BY <2>1 DEF KeyAt, ValueAt
    <3> QED
      BY <1>11, <2>1, <2>2, <3>1, SourceKept
  <2>3. ASSUME NEW j \in Used(x)' PROVE \E i \in 1..c : Source(i, KeyAt(x, j))'
    <3>1. PICK h : h = KeyAt(x, j)'
      OBVIOUS
    <3>2. CASE j = s
      <4>1. Source(c, h)'
        BY <1>9, <1>13, <2>2, <3>1, <3>2
      <4> QED
        BY <3>1, <4>1
    <3>3. CASE j # s
      <4>1. j \in Used(x) /\ h = KeyAt(x, j)
        BY <1>9, <2>3, <3>1, <3>3 DEF Used
      <4>2. PICK i \in 1..c - 1 : Source(i, h)
        BY <1>1, <1>3, <1>4, <1>7, <4>1 DEF CopiedAt, Copying
      <4>3. Source(i, h)' /\ i \in 1..c
        BY <2>2, <4>2
      <4> QED
        BY <3>1, <4>3
    <3> QED
      BY <3>2, <3>3
  <2>4. (copy.to)' = x /\ (copy.index)' - 1 = c
    BY <1>1, <1>4, <1>7
  <2> QED
    BY <1>11, <2>3, <2>4 DEF CopiedAt
<1> QED
  BY <1>12, <1>16, <1>17 DEF Order

(* The new vector is in place when it is done, as it was or laid out anew. *)
LEMMA OrderFinish ==
  ASSUME Structure, Order, NEW t \in Threads, FinishCopy(t)
  PROVE  Order'
<1>1. /\ pc[t] = "copy" /\ Goto(t, "install")
      /\ UNCHANGED <<vector, owner, copy, address, request, my>>
  BY FinishCopyIs
<1>2. PICK s \in Seq(Cells), tb \in Tables :
        /\ tb.slots = s /\ tb.moved = FALSE
        /\ Relaid(s, vectors[copy.to].slots)
        /\ IF vectors[copy.to].moved THEN Laid(s) ELSE s = vectors[copy.to].slots
        /\ vectors' = [vectors EXCEPT ![copy.to] = tb]
  BY FinishCopyIs
<1>3. /\ owner = t /\ vector \in Vectors /\ copy.to \in Vectors \ {vector} /\ Size(vector) \in Nat
      /\ \A u \in Threads : ~Holds(u, copy.to) /\ vectors \in [Vectors -> Tables]
  BY <1>1, RehashParts DEF Copying, Structure, Shape
<1>4. CopiedAt(t) /\ CopyAt(t)
  BY DEF Order, Structure, CopyInv
<1>5. PICK x \in Vectors : x = copy.to /\ x # vector
  BY <1>3
<1>6. PICK old \in Seq(Cells) : old = vectors[x].slots
  BY <1>3 DEF Tables
<1>7. /\ vectors'[x].slots = s /\ ~vectors'[x].moved /\ Relaid(s, old)
      /\ IF vectors[x].moved THEN Laid(s) ELSE s = old
      /\ \A v \in Vectors \ {x} : vectors'[v] = vectors[v]
  BY <1>2, <1>3, <1>5, <1>6
<1>8. Len(s) \in Nat /\ Len(s) = Len(old)
  BY <1>7, LenProperties DEF Relaid
<1>9. /\ Size(x) = Len(s) /\ Size(x)' = Len(s) /\ UsedIn(old) = Used(x) /\ UsedIn(s) = Used(x)'
      /\ \A i : KeyAt(x, i) = old[i].key /\ KeyAt(x, i)' = s[i].key
  BY <1>6, <1>7, <1>8 DEF Size, UsedIn, Used, KeyAt
<1>10. \A v \in Vectors \ {x} : /\ Size(v)' = Size(v) /\ (vectors[v].moved)' = vectors[v].moved
                                /\ \A i \in 1..Size(v) : KeyAt(v, i)' = KeyAt(v, i)
  BY <1>7 DEF Size, KeyAt
<1>11. pc'[t] = "install" /\ \A u \in Threads \ {t} : pc'[u] = pc[u]
  BY <1>1, OthersStay
<1>12. /\ \A u \in Threads : PutAt(u)' /\ \A v \in Vectors : \A i : StaleClaim(v, i)' <=> StaleClaim(v, i)
       /\ \A u \in Threads \ {t} : CopiedAt(u)'
  <2>1. pc[t] \in {"rehash"} \cup Owning /\ pc'[t] \in Owning \cup {"retry", "error"}
    BY <1>1, <1>11 DEF Owning
  <2>2. \A v \in Vectors : (\E u \in Threads : Holds(u, v)) => v # x
    BY <1>3, <1>5
  <2> QED
    BY <1>1, <1>3, <1>10, <1>11, <2>1, <2>2, Quiet
<1>13. \A i, j \in UsedIn(s) : s[i].key = s[j].key => i = j
  <2>1. ASSUME NEW i \in UsedIn(old), NEW j \in UsedIn(old), old[i].key = old[j].key PROVE i = j
    <3>1. KeyAt(x, i) \in Keys /\ KeyAt(x, i) = KeyAt(x, j) /\ i \in 1..Size(x) /\ j \in 1..Size(x)
      BY <1>1, <1>4, <1>5, <1>9, <2>1 DEF CopyAt, Used, Copying
    <3>2. ~StaleClaim(x, i) /\ ~StaleClaim(x, j)
      BY <1>3, <1>5 DEF StaleClaim, Holds
    <3> QED
      BY <3>1, <3>2 DEF Order, UniqueIn
  <2> QED
    BY <1>7, <2>1 DEF Relaid
<1>14. UniqueIn(x)'
  <2>1. ASSUME NEW i \in 1..Size(x)', NEW j \in 1..Size(x)', KeyAt(x, i)' = KeyAt(x, j)', KeyAt(x, i)' \in Keys
        PROVE  i = j
    <3>1. s[i].key = s[j].key /\ s[i].key # Free
      BY <1>9, <2>1, KeysAssumption
    <3>2. i \in UsedIn(s) /\ j \in UsedIn(s)
      BY <1>9, <2>1, <3>1 DEF UsedIn
    <3> QED
      BY <1>13, <3>1, <3>2
  <2> QED
    BY <2>1 DEF UniqueIn
<1>15. InPlaceIn(x)'
  <2>1. CASE ~vectors[x].moved
    <3>1. /\ Size(x)' = Size(x) /\ (vectors[x].moved)' = vectors[x].moved
          /\ \A i \in 1..Size(x) : KeyAt(x, i)' = KeyAt(x, i)
      <4>1. vectors[x].moved \in BOOLEAN /\ vectors'[x].moved = FALSE
        BY <1>2, <1>3, <1>5 DEF Tables
      <4> QED
        BY <1>7, <1>9, <2>1, <4>1
    <3> QED
      BY <1>1, <1>12, <3>1, VectorSame
  <2>2. CASE vectors[x].moved
    <3>1. ASSUME NEW j \in 1..Size(x)', KeyAt(x, j)' \in Keys
          PROVE  OnTheWay(x, address[KeyAt(x, j)], j, {Free, KeyAt(x, j)})'
      <4>1. PICK k \in Keys : k = s[j].key
        BY <1>9, <3>1
      <4>2. PICK a \in Int : a = address[k]
        BY DEF Structure, Shape
      <4>3. PICK n \in 0..Len(s)-1 : /\ j = At(s, a, n)
                                     /\ \A m \in 0..n-1 : s[At(s, a, m)].key \notin {Free, k}
        <5>1. \A h, i \in 1..Len(s) : s[h].key # Free /\ s[h].key = s[i].key => h = i
          BY <1>13 DEF UsedIn
        <5>2. j \in 1..Len(s) /\ Laid(s)
          BY <1>7, <1>9, <2>2
        <5> QED
          BY <4>1, <4>2, <5>1, <5>2, LaidWay
      <4>4. OnTheWay(x, a, j, {Free, k})'
        BY <1>7, <1>9, <4>3 DEF OnTheWay, KeyAt
      <4>5. a = (address[KeyAt(x, j)])' /\ k = KeyAt(x, j)'
        BY <1>1, <1>9, <4>1, <4>2
      <4> QED
        BY <4>4, <4>5
    <3> QED
      BY <3>1 DEF InPlaceIn
  <2> QED
    BY <2>1, <2>2
<1>16. \A v \in Vectors : UniqueIn(v)' /\ InPlaceIn(v)'
  <2>1. \A v \in Vectors \ {x} : UniqueIn(v)' /\ InPlaceIn(v)'
    BY <1>1, <1>10, <1>12, VectorSame
  <2> QED
    BY <1>14, <1>15, <2>1
<1>17. CopiedAt(t)'
  <2>1. pc'[t] \notin Mine /\ vector' = vector /\ my' = my /\ vectors'[vector] = vectors[vector]
    BY <1>1, <1>3, <1>5, <1>7, <1>11 DEF Mine
  <2>2. ASSUME NEW i, NEW h, Source(i, h) PROVE Source(i, h)'
    <3>1. KeyAt(vector, i)' = KeyAt(vector, i) /\ ValueAt(vector, i)' = ValueAt(vector, i)
      BY <2>1 DEF KeyAt, ValueAt
    <3> QED
      BY <1>11, <2>1, <2>2, <3>1, SourceKept
  <2>3. ASSUME NEW j \in Used(x)' PROVE \E i \in 1..copy.index - 1 : Source(i, KeyAt(x, j))'
    <3>1. PICK h : h = KeyAt(x, j)'
      OBVIOUS
    <3>2. PICK i \in Used(x) : KeyAt(x, i) = h
      BY <1>7, <1>9, <2>3, <3>1 DEF Relaid
    <3>3. PICK l \in 1..copy.index - 1 : Source(l, h)
      BY <1>1, <1>4, <1>5, <3>2 DEF CopiedAt, Copying
    <3>4. Source(l, h)'
      BY <2>2, <3>3
    <3> QED
      BY <3>1, <3>3, <3>4
  <2>4. (copy.to)' = x /\ (copy.index)' = copy.index
    BY <1>1, <1>5
  <2> QED
    BY <1>11, <2>3, <2>4 DEF CopiedAt
<1> QED
  BY <1>12, <1>16, <1>17 DEF Order

LEMMA OrderInstall ==
  ASSUME Structure, Order, NEW t \in Threads, Install(t)
  PROVE  Order'
<1>1. /\ pc[t] = "install" /\ \A v \in Vectors \ {vector} : vectors'[v] = vectors[v]
      /\ IF \E u \in Threads : Holds(u, vector) THEN vectors'[vector] = vectors[vector]
         ELSE vectors'[vector] = Unused
      /\ Goto(t, "retry") /\ UNCHANGED <<address, request, my>>
  BY InstallIs
<1>2. owner = t /\ vector \in Vectors
  BY <1>1, RehashParts DEF Copying
<1>3. pc'[t] = "retry" /\ \A u \in Threads \ {t} : pc'[u] = pc[u]
  BY <1>1, OthersStay
<1>4. PICK w \in Vectors : w = vector
  BY <1>2
<1>5. \A v \in Vectors : \/ v = w /\ vectors'[v] = Unused /\ \A u \in Threads : ~Holds(u, v)
                         \/ vectors'[v] = vectors[v]
  BY <1>1, <1>4
<1>6. /\ \A u \in Threads : PutAt(u)' /\ \A v \in Vectors : \A i : StaleClaim(v, i)' <=> StaleClaim(v, i)
      /\ \A u \in Threads \ {t} : CopiedAt(u)'
  <2>1. pc[t] \in {"rehash"} \cup Owning /\ pc'[t] \in Owning \cup {"retry", "error"}
    BY <1>1, <1>3 DEF Owning
  <2>2. ASSUME NEW v \in Vectors, \E u \in Threads : Holds(u, v)
        PROVE  Size(v)' = Size(v) /\ \A i \in 1..Size(v) : KeyAt(v, i)' = KeyAt(v, i)
    <3>1. vectors'[v] = vectors[v]
      BY <1>5, <2>2
    <3> QED
      BY <3>1 DEF Size, KeyAt
  <2> QED
    BY <1>1, <1>2, <1>3, <2>1, <2>2, Quiet
<1>7. ASSUME NEW v \in Vectors PROVE UniqueIn(v)' /\ InPlaceIn(v)'
  <2>1. CASE vectors'[v] = vectors[v]
    <3>1. /\ Size(v)' = Size(v) /\ (vectors[v].moved)' = vectors[v].moved
          /\ \A i \in 1..Size(v) : KeyAt(v, i)' = KeyAt(v, i)
      BY <2>1 DEF Size, KeyAt
    <3> QED
      BY <1>1, <1>6, <3>1, VectorSame
  <2>2. CASE vectors'[v] = Unused
    <3>1. Size(v)' = 0
      BY <2>2, UnusedTable DEF Size
    <3>2. \A i \in 1..Size(v)' : KeyAt(v, i)' = Free
      BY <3>1
    <3> QED
      BY <3>2, VectorFree
  <2> QED
    BY <1>5, <2>1, <2>2
<1>8. CopiedAt(t)'
  BY <1>3 DEF CopiedAt, Copying
<1> QED
  BY <1>6, <1>7, <1>8 DEF Order

-----------------------------------------------------------------------------
(* The collector: an address only falls, so that a claim that is to be     *)
(* given up stays one, and the vectors whose keys moved are flagged.       *)
LEMMA OrderCollect ==
  ASSUME Structure, Order, Collect, ~CollectInWindow
  PROVE  Order'
<1>1. /\ address' \in [Keys -> 1..MaxAddress] /\ \A k \in Keys : address'[k] <= address[k]
      /\ \A t \in Threads : pc[t] # "place"
      /\ \A v \in Vectors : /\ vectors'[v].slots = vectors[v].slots
                            /\ vectors'[v].moved <=> vectors[v].moved \/ MovedIn(v)
      /\ UNCHANGED <<vector, copy, pc, request, my>>
  BY CollectIs
<1>2. /\ \A v \in Vectors : Size(v)' = Size(v) /\ Used(v)' = Used(v)
      /\ \A v \in Vectors : \A i : KeyAt(v, i)' = KeyAt(v, i) /\ ValueAt(v, i)' = ValueAt(v, i)
  BY <1>1 DEF Size, KeyAt, ValueAt, Used
<1>3. /\ \A u \in Threads : Key(u)' = Key(u)
      /\ \A k \in Keys : address[k] \in Int /\ address'[k] \in Int
  BY <1>1, SizesAssumption DEF Key, Structure, Shape
<1>4. ASSUME NEW v \in Vectors, NEW i, StaleClaim(v, i) PROVE StaleClaim(v, i)'
  <2>1. PICK u \in Threads : /\ pc[u] = "store" /\ my[u].address # address[Key(u)]
                             /\ my[u].vector = v /\ my[u].slot = i
    BY <1>4 DEF StaleClaim
  <2>2. request[u].op = "put" /\ my[u].address \in Int /\ request[u] # Idle
    BY <2>1, HandIs DEF OpAt
  <2>3. Key(u) \in Keys
    BY <2>2, Asked DEF Structure
  <2>4. address[Key(u)] <= my[u].address
    BY <2>1, <2>2 DEF Order, PutAt
  <2>5. address'[Key(u)] # my[u].address
    BY <1>1, <1>3, <2>1, <2>2, <2>3, <2>4
  <2>6. my'[u].address # (address[Key(u)])'
    BY <1>1, <1>3, <2>5
  <2> QED
    BY <1>1, <2>1, <2>6 DEF StaleClaim
<1>5. ASSUME NEW v \in Vectors PROVE UniqueIn(v)'
  <2>1. UniqueIn(v)
    BY DEF Order
  <2> QED
    BY <1>2, <1>4, <2>1 DEF UniqueIn
<1>6. ASSUME NEW v \in Vectors PROVE InPlaceIn(v)'
  <2>1. ASSUME NEW j \in 1..Size(v), ~vectors'[v].moved, KeyAt(v, j)' \in Keys, ~StaleClaim(v, j)'
        PROVE  OnTheWay(v, address[KeyAt(v, j)], j, {Free, KeyAt(v, j)})'
    <3>1. PICK k \in Keys : k = KeyAt(v, j)
      BY <1>2, <2>1
    <3>2. PICK a \in Int : a = address[k]
      BY <1>3
    <3>3. address'[k] = address[k]
      BY <1>1, <2>1, <3>1 DEF MovedIn
    <3>4. OnTheWay(v, a, j, {Free, k})
      BY <1>1, <1>4, <2>1, <3>1, <3>2 DEF Order, InPlaceIn
    <3>5. OnTheWay(v, a, j, {Free, k})'
      BY <1>2, <3>4, UsedFinite, SameKeys
    <3>6. a = (address[KeyAt(v, j)])' /\ k = KeyAt(v, j)'
      BY <1>2, <3>1, <3>2, <3>3
    <3> QED
      BY <3>5, <3>6
  <2> QED
    BY <1>2, <2>1 DEF InPlaceIn
<1>7. ASSUME NEW u \in Threads PROVE PutAt(u)'
  <2>1. PutAt(u) /\ my[u].address \in Int
    BY HandIs DEF Order
  <2>2. CASE pc[u] \notin {"probe", "check", "reserve", "claim", "store"}
    BY <1>1, <2>2 DEF PutAt
  <2>3. CASE pc[u] \in {"probe", "check", "reserve", "claim", "store"}
    <3>1. my[u].vector \in Vectors /\ request[u] # Idle
      BY <2>3, HandIs DEF HandAt, AtSlot, OpAt
    <3>2. PICK v \in Vectors : v = my[u].vector
      BY <3>1
    <3>3. PICK a \in Int : a = my[u].address
      BY <2>1
    <3>4. PICK k \in Keys : k = Key(u)
      BY <3>1, Asked DEF Structure
    <3>5. PICK j : j = my[u].slot
      OBVIOUS
    <3>6. PICK b \in Int : b = address[k]
      BY <1>3
    <3>7. PICK d \in Int : d = address'[k]
      BY <1>3
    <3>8. d <= b
      BY <1>1, <3>6, <3>7
    <3>9. PutAt(u) <=>
            /\ request[u].op = "put" /\ pc[u] \in {"check", "reserve", "claim"} /\ j # 0 =>
                   OnTheWay(v, a, j, {Free, k})
            /\ pc[u] = "probe" \/ (request[u].op = "put" /\ pc[u] \in {"check", "reserve", "claim", "store"})
                   => b <= a
            /\ pc[u] \in {"reserve", "claim"} /\ a = b /\ KeyAt(v, j) = Free =>
                   \A i \in 1..Size(v) : KeyAt(v, i) = k => StaleClaim(v, i)
      BY <3>2, <3>3, <3>4, <3>5, <3>6 DEF PutAt
    <3>10. /\ (my[u].vector)' = v /\ (my[u].address)' = a /\ Key(u)' = k /\ (my[u].slot)' = j
           /\ (address[Key(u)])' = d
      BY <1>1, <1>3, <3>2, <3>3, <3>4, <3>5, <3>7
    <3>11. PutAt(u)' <=>
             /\ request[u].op = "put" /\ pc[u] \in {"check", "reserve", "claim"} /\ j # 0 =>
                    OnTheWay(v, a, j, {Free, k})'
             /\ pc[u] = "probe" \/ (request[u].op = "put" /\ pc[u] \in {"check", "reserve", "claim", "store"})
                    => d <= a
             /\ pc[u] \in {"reserve", "claim"} /\ a = d /\ KeyAt(v, j)' = Free =>
                    \A i \in 1..Size(v)' : KeyAt(v, i)' = k => StaleClaim(v, i)'
      BY <1>1, <3>10 DEF PutAt
    <3>12. OnTheWay(v, a, j, {Free, k}) => OnTheWay(v, a, j, {Free, k})'
      BY <1>2, UsedFinite, SameKeys
    <3>13. pc[u] \in {"reserve", "claim"} => request[u].op = "put"
      BY HandIs DEF OpAt
    <3>14. /\ pc[u] = "probe" \/ (request[u].op = "put" /\ pc[u] \in {"check", "reserve", "claim", "store"})
                  => d <= a
           /\ pc[u] \in {"reserve", "claim"} /\ a = d => a = b
      BY <2>1, <3>8, <3>9, <3>13
    <3>15. ASSUME pc[u] \in {"reserve", "claim"}, a = d, KeyAt(v, j)' = Free,
                  NEW i \in 1..Size(v)', KeyAt(v, i)' = k
           PROVE  StaleClaim(v, i)'
      <4>1. i \in 1..Size(v) /\ KeyAt(v, i) = k /\ KeyAt(v, j) = Free
        BY <1>2, <3>15
      <4>2. StaleClaim(v, i)
        BY <2>1, <3>9, <3>14, <3>15, <4>1
      <4> QED
        BY <1>4, <4>2
    <3>16. request[u].op = "put" /\ pc[u] \in {"check", "reserve", "claim"} /\ j # 0 =>
             OnTheWay(v, a, j, {Free, k})'
      BY <2>1, <3>9, <3>12
    <3> QED
      BY <3>11, <3>14, <3>15, <3>16
  <2> QED
    BY <2>2, <2>3
<1>8. ASSUME NEW u \in Threads PROVE CopiedAt(u)'
  <2>1. CASE pc[u] \notin Copying
    BY <1>1, <2>1 DEF CopiedAt, Copying
  <2>2. CASE pc[u] \in Copying
    <3>1. CopiedAt(u) /\ pc[u] # "place"
      BY <1>1 DEF Order
    <3>2. PICK x \in Vectors : x = copy.to
      BY <2>2, RehashParts
    <3>3. vector \in Vectors
      BY DEF Structure, Shape
    <3>4. ASSUME NEW i, NEW k, Source(i, k) PROVE Source(i, k)'
      <4>1. KeyAt(vector, i)' = KeyAt(vector, i) /\ ValueAt(vector, i)' = ValueAt(vector, i)
        BY <1>1, <3>3 DEF KeyAt, ValueAt
      <4> QED
        BY <1>1, <3>4, <4>1 DEF Source
    <3>5. ASSUME NEW j \in Used(x)' PROVE \E i \in 1..copy.index - 1 : Source(i, KeyAt(x, j))'
      <4>1. PICK k : k = KeyAt(x, j)
        OBVIOUS
      <4>2. PICK i \in 1..copy.index - 1 : Source(i, k)
        BY <1>2, <2>2, <3>1, <3>2, <3>5, <4>1 DEF CopiedAt
      <4>3. Source(i, k)' /\ k = KeyAt(x, j)'
        BY <1>2, <3>4, <4>1, <4>2
      <4> QED
        BY <4>3
    <3>6. (copy.to)' = x /\ (copy.index)' = copy.index /\ pc'[u] # "place"
      BY <1>1, <3>1, <3>2
    <3> QED
      BY <3>5, <3>6 DEF CopiedAt
  <2> QED
    BY <2>1, <2>2
<1> QED
  BY <1>5, <1>6, <1>7, <1>8 DEF Order

(* What the table starts with is in order.                                 *)
LEMMA InitOrder == ASSUME Init, Structure PROVE Order
<1>1. /\ Laid(vectors[1].slots) /\ \A v \in Vectors \ {1} : vectors[v] = Unused
      /\ \A i, j \in 1..Size(1) : KeyAt(1, i) # Free /\ KeyAt(1, i) = KeyAt(1, j) => i = j
      /\ vectors \in [Vectors -> Tables] /\ pc = [t \in Threads |-> "idle"]
  BY InitIs
<1>2. UniqueIn(1)
  BY <1>1, KeysAssumption DEF UniqueIn
<1>3. InPlaceIn(1)
  <2>1. PICK s \in Seq(Cells) : s = vectors[1].slots
    BY <1>1, ConstantTypes DEF Tables
  <2>2. Size(1) = Len(s) /\ \A i : KeyAt(1, i) = s[i].key
    BY <2>1 DEF Size, KeyAt
  <2>3. ASSUME NEW j \in 1..Size(1), KeyAt(1, j) \in Keys
        PROVE  OnTheWay(1, address[KeyAt(1, j)], j, {Free, KeyAt(1, j)})
    <3>1. PICK a \in Int : a = address[s[j].key]
      BY <2>2, <2>3 DEF Structure, Shape
    <3>2. PICK n \in 0..Len(s)-1 : /\ j = At(s, a, n)
                                   /\ \A m \in 0..n-1 : s[At(s, a, m)].key \notin {Free, s[j].key}
      <4>1. Laid(s) /\ j \in 1..Len(s) /\ s[j].key \in Keys
        BY <1>1, <2>1, <2>2, <2>3
      <4>2. \A h, i \in 1..Len(s) : s[h].key # Free /\ s[h].key = s[i].key => h = i
        BY <1>1, <2>2
      <4> QED
        BY <3>1, <4>1, <4>2, LaidWay
    <3>3. OnTheWay(1, a, j, {Free, s[j].key})
      BY <2>1, <2>2, <3>2 DEF OnTheWay
    <3> QED
      BY <2>2, <3>1, <3>3
  <2> QED
    BY <2>3 DEF InPlaceIn
<1>4. ASSUME NEW v \in Vectors \ {1} PROVE UniqueIn(v) /\ InPlaceIn(v)
  <2>1. Size(v) = 0
    BY <1>1, UnusedTable DEF Size
  <2>2. ~\E i : i \in 1..Size(v)
    BY <2>1
  <2> QED
    BY <2>2 DEF UniqueIn, InPlaceIn
<1>5. \A t \in Threads : PutAt(t) /\ CopiedAt(t)
  BY <1>1 DEF PutAt, CopiedAt, Copying
<1> QED
  BY <1>2, <1>3, <1>4, <1>5 DEF Order

LEMMA SameOrder == ASSUME Order, UNCHANGED vars PROVE Order'
<1>1. UNCHANGED <<vector, vectors, copy, address, pc, request, my>>
  BY DEF vars, tableVars, rehashVars, threadVars
<1>2. \A v, i, k : /\ StaleClaim(v, i)' = StaleClaim(v, i) /\ Source(i, k)' = Source(i, k)
                   /\ KeyAt(v, i)' = KeyAt(v, i) /\ Size(v)' = Size(v) /\ Used(v)' = Used(v)
  <2>1. \A v, i : KeyAt(v, i)' = KeyAt(v, i) /\ Size(v)' = Size(v) /\ Used(v)' = Used(v)
    BY <1>1 DEF KeyAt, Size, Used
  <2>2. \A v, i : StaleClaim(v, i)' = StaleClaim(v, i)
    BY <1>1 DEF StaleClaim, Key
  <2>3. \A i, k : Source(i, k)' = Source(i, k)
    BY <1>1 DEF Source, KeyAt, ValueAt
  <2> QED
    BY <2>1, <2>2, <2>3
<1>3. \A v, a, j, ks : OnTheWay(v, a, j, ks)' <=> OnTheWay(v, a, j, ks)
  BY <1>1 DEF OnTheWay, KeyAt, Size
<1>4. ASSUME NEW v \in Vectors PROVE UniqueIn(v)' /\ InPlaceIn(v)'
  <2>1. UniqueIn(v)'
    BY <1>2 DEF Order, UniqueIn
  <2>2. InPlaceIn(v)'
    BY <1>1, <1>2, <1>3 DEF Order, InPlaceIn
  <2> QED
    BY <2>1, <2>2
<1>5. ASSUME NEW t \in Threads PROVE PutAt(t)' /\ CopiedAt(t)'
  <2>1. PutAt(t) /\ CopiedAt(t) /\ Key(t)' = Key(t)
    BY <1>1 DEF Order, Key
  <2>2. PutAt(t)'
    BY <1>1, <1>2, <1>3, <2>1 DEF PutAt
  <2>3. CopiedAt(t)'
    BY <1>1, <1>2, <1>3, <2>1 DEF CopiedAt
  <2> QED
    BY <2>2, <2>3
<1> QED
  BY <1>4, <1>5 DEF Order

LEMMA NextOrder ==
  ASSUME Structure, Order, ~CollectInWindow, [Next]_vars
  PROVE  Order'
<1>1. Structure'
  BY NextStructure
<1>2. CASE UNCHANGED vars
  BY <1>2, SameOrder
<1>3. CASE Collect
  BY <1>3, OrderCollect
<1>4. CASE \E t \in Threads : Call(t) \/ Step(t)
  <2>1. PICK t \in Threads : Call(t) \/ Step(t)
    BY <1>4
  <2>2. CASE Call(t) \/ Retry(t)
    BY <2>2, OrderBegin
  <2>3. CASE FindNew(t) \/ Find(t)
    BY <2>3, OrderFind
  <2>4. CASE CheckForPut(t) \/ Reserve(t)
    BY <2>4, OrderCheckForPut
  <2>5. CASE ClaimKey(t) \/ CheckMoved(t)
    BY <2>5, OrderClaim
  <2>6. CASE \/ CheckFound(t) \/ GetValue(t) \/ RemoveValue(t) \/ PutValue(t) \/ SwapValue(t)
             \/ CountRemoved(t) \/ ClearKey(t) \/ FillValue(t) \/ CountAdded(t) \/ Done(t)
    BY <2>6, OrderOther
  <2>7. CASE Lock(t) \/ Decide(t) \/ CountSlot(t)
    BY <2>7, OrderWaits
  <2>8. CASE MakeVector(t)
    BY <2>8, OrderMake
  <2>9. CASE CopySlot(t)
    BY <2>9, OrderCopy
  <2>10. CASE PlaceEntry(t)
    BY <1>1, <2>10, OrderPlace
  <2>11. CASE FinishCopy(t)
    BY <2>11, OrderFinish
  <2>12. CASE Install(t)
    BY <2>12, OrderInstall
  <2> QED
    BY <2>1, <2>2, <2>3, <2>4, <2>5, <2>6, <2>7, <2>8, <2>9, <2>10, <2>11, <2>12 DEF Step
<1> QED
  BY <1>2, <1>3, <1>4 DEF Next

(* A slot with a value is nobody's claim: a key has one entry.             *)
LEMMA CountSuffices ==
  ASSUME Structure, Counted, Order
  PROVE  CountIsRight
<1>1. LiveSlots = LiveIn(vector) /\ vector \in Vectors
  BY LiveSlotsAre DEF Structure, Shape
<1>2. ASSUME NEW i \in LiveIn(vector), NEW j \in LiveIn(vector), KeyAt(vector, i) = KeyAt(vector, j)
      PROVE  i = j
  <2>1. /\ i \in 1..Size(vector) /\ j \in 1..Size(vector)
        /\ ValueAt(vector, i) \in Values /\ ValueAt(vector, j) \in Values
    BY DEF LiveIn
  <2>2. KeyAt(vector, i) \in Keys
    BY <1>1, <2>1, LiveIs
  <2>3. ASSUME NEW x \in 1..Size(vector), StaleClaim(vector, x) PROVE ValueAt(vector, x) \notin Values
    <3>1. PICK u \in Threads : pc[u] = "store" /\ my[u].vector = vector /\ my[u].slot = x
      BY <2>3 DEF StaleClaim
    <3> QED
      BY <3>1, HandIs, KeysAssumption DEF CellAt
  <2>4. UniqueIn(vector)
    BY <1>1 DEF Order
  <2> QED
    BY <1>2, <2>1, <2>2, <2>3, <2>4 DEF UniqueIn
<1>3. \A i, j \in LiveSlots :
        vectors[vector].slots[i].key = vectors[vector].slots[j].key => i = j
  BY <1>1, <1>2 DEF KeyAt
<1>4. copy.to = 0 =>
        vectors[vector].count = Cardinality(LiveSlots) - Uncounted("increment")
                                    + Uncounted("decrement")
  BY <1>1 DEF Counted
<1> QED
  BY <1>3, <1>4 DEF CountIsRight

(* When the collector does not run between hashing a key for the new       *)
(* vector and storing it there, lock-free-hash-table-count is right, and a *)
(* key has one entry at most, whoever claims, copies or gives up slots and *)
(* wherever the keys move.                                                 *)
THEOREM OneEntryEach == ~CollectInWindow => (Spec => []CountIsRight)
<1> SUFFICES ASSUME ~CollectInWindow PROVE Spec => []CountIsRight
  OBVIOUS
<1>1. Init => Structure /\ Counted /\ Order
  BY InitStructure, InitCounted, InitOrder
<1>2. Structure /\ Counted /\ Order /\ [Next]_vars => (Structure /\ Counted /\ Order)'
  BY NextStructure, NextCounted, NextOrder
<1>3. Structure /\ Counted /\ Order => CountIsRight
  BY CountSuffices
<1> QED
  BY <1>1, <1>2, <1>3, PTL DEF Spec

-----------------------------------------------------------------------------
(* A slot of a vector that holds a value for a key.                        *)
In(v, k, x) == \E i \in DOMAIN vectors[v].slots : KeyAt(v, i) = k /\ ValueAt(v, i) = x

(* What the table maps: in its vector, in the new one, and between them.   *)
Maps(k, x) ==
    \/ In(vector, k, x)
    \/ copy.to # 0 /\ In(copy.to, k, x)
    \/ copy.carry.key = k /\ copy.carry.value = x

(* The value that is held, if any is.                                      *)
Chosen(values) == IF values = {} THEN None ELSE CHOOSE v \in values : TRUE

(* The values held for a key, before and after a step.                     *)
LEMMA HeldIs ==
  ASSUME NEW k \in Keys, NEW x
  PROVE  /\ x \in Held(k) <=> x \in Values /\ Maps(k, x)
         /\ x \in Held(k)' <=> x \in Values /\ Maps(k, x)'
<1>1. x \in Held(k) <=> x \in Values /\ \E r \in Reached : r.key = k /\ r.value = x
  BY DEF Held
<1>2. x \in Held(k)' <=> x \in Values /\ \E r \in Reached' : r.key = k /\ r.value = x
  BY DEF Held
<1>3. (\E r \in Reached : r.key = k /\ r.value = x) <=> Maps(k, x)
  <2>1. \A r : r \in Reached <=>
          \/ \E i \in DOMAIN vectors[vector].slots : r = vectors[vector].slots[i]
          \/ copy.to # 0 /\ \E i \in DOMAIN vectors[copy.to].slots : r = vectors[copy.to].slots[i]
          \/ r = Slot(copy.carry.key, copy.carry.value)
    BY DEF Reached
  <2>2. ASSUME NEW r \in Reached, r.key = k, r.value = x PROVE Maps(k, x)
    BY <2>1, <2>2, SlotParts DEF Maps, In, KeyAt, ValueAt
  <2>3. ASSUME Maps(k, x) PROVE \E r \in Reached : r.key = k /\ r.value = x
    BY <2>1, <2>3, SlotParts DEF Maps, In, KeyAt, ValueAt
  <2> QED
    BY <2>2, <2>3
<1>4. (\E r \in Reached' : r.key = k /\ r.value = x) <=> Maps(k, x)'
  <2>1. \A r : r \in Reached' <=>
          \/ \E i \in DOMAIN vectors'[vector'].slots : r = vectors'[vector'].slots[i]
          \/ copy'.to # 0 /\ \E i \in DOMAIN vectors'[copy'.to].slots : r = vectors'[copy'.to].slots[i]
          \/ r = Slot(copy'.carry.key, copy'.carry.value)
    BY DEF Reached
  <2>2. ASSUME NEW r \in Reached', r.key = k, r.value = x PROVE Maps(k, x)'
    BY <2>1, <2>2, SlotParts DEF Maps, In, KeyAt, ValueAt
  <2>3. ASSUME Maps(k, x)' PROVE \E r \in Reached' : r.key = k /\ r.value = x
    BY <2>1, <2>3, SlotParts DEF Maps, In, KeyAt, ValueAt
  <2> QED
    BY <2>2, <2>3
<1> QED
  BY <1>1, <1>2, <1>3, <1>4

(* The map, before and after a step, key by key.                           *)
LEMMA ContentsAre ==
  /\ Contents = [k \in Keys |-> Chosen(Held(k))]
  /\ Contents' = [k \in Keys |-> Chosen(Held(k)')]
BY DEF Contents, Chosen

(* What is chosen of no value, and of one.                                 *)
LEMMA ChosenIs ==
  ASSUME NEW values \in SUBSET Values
  PROVE  /\ Chosen(values) \in Values \cup {None}
         /\ Chosen(values) = None <=> values = {}
         /\ \A v : values = {v} => Chosen(values) = v
BY KeysAssumption DEF Chosen

(* The contents are a map.                                                 *)
LEMMA ContentsType ==
  Contents \in [Keys -> Values \cup {None}] /\ Contents' \in [Keys -> Values \cup {None}]
<1>1. \A k \in Keys : Held(k) \in SUBSET Values /\ Held(k)' \in SUBSET Values
  BY DEF Held
<1>2. \A k \in Keys : Chosen(Held(k)) \in Values \cup {None} /\ Chosen(Held(k)') \in Values \cup {None}
  BY <1>1, ChosenIs
<1> QED
  BY <1>2, ContentsAre

(* A step that keeps what is mapped keeps the map.                         *)
LEMMA SameContents ==
  ASSUME \A k \in Keys, x \in Values : Maps(k, x)' <=> Maps(k, x)
  PROVE  Contents' = Contents
<1>1. ASSUME NEW k \in Keys PROVE Held(k)' = Held(k)
  <2>1. \A x : x \in Held(k)' <=> x \in Held(k)
    BY HeldIs
  <2> QED
    BY <2>1
<1> QED
  BY <1>1, ContentsAre

(* The map after a step that changes what it has for a key.                *)
LEMMA ContentsChanged ==
  ASSUME NEW key \in Keys, NEW new \in Values \cup {None},
         \A k \in Keys \ {key}, x \in Values : Maps(k, x)' <=> Maps(k, x),
         \A x \in Values : Maps(key, x)' <=> x = new
  PROVE  Contents' = [Contents EXCEPT ![key] = new]
<1>1. ASSUME NEW k \in Keys \ {key} PROVE Contents'[k] = Contents[k]
  <2>1. \A x : x \in Held(k)' <=> x \in Held(k)
    BY <1>1, HeldIs
  <2>2. Held(k)' = Held(k)
    BY <2>1
  <2> QED
    BY <2>2, ContentsAre
<1>2. Contents'[key] = new
  <2>1. \A x : x \in Held(key)' <=> x \in Values /\ x = new
    BY HeldIs
  <2>2. Held(key)' = IF new \in Values THEN {new} ELSE {}
    BY <2>1
  <2>3. Chosen(Held(key)') = new
    BY <2>2 DEF Chosen
  <2> QED
    BY <2>3, ContentsAre
<1> QED
  BY <1>1, <1>2, ContentsType

(* What the map has for a key with one value, and for one with none.       *)
LEMMA ContentsIs ==
  ASSUME NEW k \in Keys
  PROVE  /\ \A y \in Values : (\A x \in Values : Maps(k, x) <=> x = y) => Contents[k] = y
         /\ (\A x \in Values : ~Maps(k, x)) => Contents[k] = None
         /\ (\A x \in Values : ~Maps(k, x)') => Contents'[k] = None
<1>1. ASSUME NEW y \in Values, \A x \in Values : Maps(k, x) <=> x = y PROVE Contents[k] = y
  <2>1. \A x : x \in Held(k) <=> x = y
    BY <1>1, HeldIs
  <2>2. Held(k) = {y}
    BY <2>1
  <2> QED
    BY <1>1, <2>2, ChosenIs, ContentsAre
<1>2. ASSUME \A x \in Values : ~Maps(k, x) PROVE Contents[k] = None
  <2>1. \A x : x \notin Held(k)
    BY <1>2, HeldIs
  <2>2. Held(k) = {}
    BY <2>1
  <2> QED
    BY <2>2, ContentsAre DEF Chosen
<1>3. ASSUME \A x \in Values : ~Maps(k, x)' PROVE Contents'[k] = None
  <2>1. \A x : x \notin Held(k)'
    BY <1>3, HeldIs
  <2>2. Held(k)' = {}
    BY <2>1
  <2> QED
    BY <2>2, ContentsAre DEF Chosen
<1> QED
  BY <1>1, <1>2, <1>3

(* A rehash that ended in an error leaves what it copied in the new        *)
(* vector, which nobody will use, and the threads go on with the old one.  *)
StoppedAt(t) ==
    pc[t] = "error" /\ owner = t =>
        /\ copy.carry = NoCarry
        /\ \A j \in Used(copy.to) :
               /\ KeyAt(copy.to, j) \in Keys
               /\ \E i \in 1..Size(vector) : Source(i, KeyAt(copy.to, j))

Stopped == \A t \in Threads : StoppedAt(t)

(* What is in the new vector, or on its way, is in the old one without its *)
(* value.                                                                  *)
LEMMA CopiedFrom ==
  ASSUME Structure, Order, Stopped
  PROVE  /\ copy.to # 0 => copy.to \in Vectors \ {vector} /\ \A u \in Threads : ~Holds(u, copy.to)
         /\ \A k \in Keys : \A x : copy.to # 0 /\ In(copy.to, k, x) =>
                \E i \in 1..Size(vector) : Source(i, k)
         /\ \A k \in Keys : copy.carry.key = k => \E i \in 1..Size(vector) : Source(i, k)
<1>1. CASE \A t \in Threads : ~Rehasher(t)
  <2>1. copy.to = 0 /\ copy.carry.key = None
    BY <1>1 DEF Structure, CopyInv, NoCopy, NoCarry
  <2> QED
    BY <2>1, KeysAssumption
<1>2. CASE \E t \in Threads : Rehasher(t)
  <2>1. PICK t \in Threads : Rehasher(t)
    BY <1>2
  <2>2. owner = t /\ (pc[t] = "count" \/ pc[t] \in Copying \/ pc[t] = "error")
    <3>1. HandAt(t)
      BY HandIs
    <3> QED
      BY <2>1, <3>1 DEF Rehasher, HandAt, Owning, Copying
  <2>3. CopyAt(t) /\ CopiedAt(t) /\ StoppedAt(t)
    BY DEF Structure, CopyInv, Order, Stopped
  <2>4. CASE pc[t] = "count"
    <3>1. copy.to = 0 /\ copy.carry.key = None
      BY <2>3, <2>4 DEF CopyAt, NoCarry
    <3> QED
      BY <3>1, KeysAssumption
  <2>5. CASE pc[t] \in Copying \/ pc[t] = "error"
    <3>1. copy.to \in Vectors \ {vector} /\ \A u \in Threads : ~Holds(u, copy.to)
      BY <2>2, <2>3, <2>5 DEF CopyAt
    <3>2. copy.index \in 1..Size(vector) + 1 \/ pc[t] = "error"
      BY <2>3, <2>5 DEF CopyAt
    <3>3. Size(vector) \in Nat
      BY UsedFinite DEF Structure, Shape
    <3>4. ASSUME NEW k \in Keys, NEW x, In(copy.to, k, x)
          PROVE  \E i \in 1..Size(vector) : Source(i, k)
      <4>1. PICK j \in DOMAIN vectors[copy.to].slots : KeyAt(copy.to, j) = k
        BY <3>4 DEF In
      <4>2. j \in Used(copy.to)
        <5>1. vectors[copy.to].slots \in Seq(Cells)
          BY <3>1 DEF Structure, Shape, Tables
        <5> QED
          BY <4>1, <5>1, KeysAssumption DEF Used, Size
      <4>3. CASE pc[t] \in Copying
        <5>1. PICK i \in 1..copy.index - 1 : Source(i, KeyAt(copy.to, j))
          BY <2>3, <4>2, <4>3 DEF CopiedAt
        <5>2. i \in 1..Size(vector) /\ Source(i, k)
          <6>1. Source(i, k)
            BY <4>1, <5>1
          <6>2. copy.index \in 1..Size(vector) + 1
            BY <3>2, <4>3 DEF Copying
          <6> QED
            BY <3>3, <6>1, <6>2
        <5> QED
          BY <5>2
      <4>4. CASE pc[t] = "error"
        BY <2>2, <2>3, <4>1, <4>2, <4>4 DEF StoppedAt
      <4> QED
        BY <2>5, <4>3, <4>4
    <3>5. ASSUME NEW k \in Keys, copy.carry.key = k
          PROVE  \E i \in 1..Size(vector) : Source(i, k)
      <4>1. copy.carry # NoCarry
        BY <3>5, KeysAssumption DEF NoCarry
      <4>2. pc[t] = "place"
        BY <2>2, <2>3, <2>5, <4>1 DEF CopyAt, StoppedAt, Copying
      <4>3. copy.index \in 1..Size(vector) /\ Source(copy.index, copy.carry.key)
        BY <2>3, <4>2 DEF CopyAt, CopiedAt
      <4> QED
        BY <3>5, <4>3
    <3> QED
      BY <3>1, <3>4, <3>5
  <2> QED
    BY <2>2, <2>4, <2>5
<1> QED
  BY <1>1, <1>2

(* A claim that will be given up has no value, and is not what was copied. *)
LEMMA StaleIs ==
  ASSUME Structure, NEW v \in Vectors, NEW i, StaleClaim(v, i)
  PROVE  /\ ValueAt(v, i) \notin Values
         /\ \A k : v = vector => ~Source(i, k)
<1>1. PICK t \in Threads : pc[t] = "store" /\ my[t].vector = v /\ my[t].slot = i
  BY DEF StaleClaim
<1>2. CellAt(t)
  BY HandIs
<1>3. ValueAt(v, i) \notin Values
  BY <1>1, <1>2, KeysAssumption DEF CellAt
<1> QED
  BY <1>1, <1>3 DEF Source, Mine

(* What the table maps but for one slot of its vector.                     *)
Elsewhere(i, k, x) ==
    \/ \E j \in DOMAIN vectors[vector].slots \ {i} : KeyAt(vector, j) = k /\ ValueAt(vector, j) = x
    \/ copy.to # 0 /\ In(copy.to, k, x)
    \/ copy.carry.key = k /\ copy.carry.value = x

(* The slots of a vector are numbered from one.                            *)
LEMMA VectorSlots ==
  ASSUME Structure, NEW v \in Vectors
  PROVE  DOMAIN vectors[v].slots = 1..Size(v) /\ Size(v) \in Nat
BY DEF Structure, Shape, Tables, Size

(* A slot with the key that was not copied is the key's only one.          *)
LEMMA AloneIs ==
  ASSUME Structure, Order, Stopped, NEW k \in Keys, NEW i \in 1..Size(vector),
         KeyAt(vector, i) = k, ValueAt(vector, i) # Rehashing, ~StaleClaim(vector, i),
         NEW x \in Values
  PROVE  ~Elsewhere(i, k, x)
<1>1. PICK v \in Vectors : v = vector
  BY DEF Structure, Shape
<1>2. UniqueIn(v) /\ DOMAIN vectors[v].slots = 1..Size(v)
  BY VectorSlots DEF Order
<1>3. ASSUME NEW j \in 1..Size(v), j # i, KeyAt(v, j) = k PROVE StaleClaim(v, j)
  BY <1>1, <1>2, <1>3 DEF UniqueIn
<1>4. ASSUME NEW j \in 1..Size(vector), Source(j, k) PROVE FALSE
  <2>1. KeyAt(v, j) = k /\ j # i
    BY <1>1, <1>4 DEF Source
  <2>2. StaleClaim(v, j)
    BY <1>1, <1>3, <1>4, <2>1
  <2> QED
    BY <1>1, <1>4, <2>2, StaleIs
<1>5. ASSUME NEW j \in 1..Size(v) \ {i}, KeyAt(v, j) = k, ValueAt(v, j) = x PROVE FALSE
  <2>1. StaleClaim(v, j)
    BY <1>3, <1>5
  <2> QED
    BY <1>5, <2>1, StaleIs
<1> QED
  BY <1>1, <1>2, <1>4, <1>5, CopiedFrom DEF Elsewhere

(* A key that is in the vector for claims only is not in the table.        *)
LEMMA AbsentIs ==
  ASSUME Structure, Order, Stopped, NEW k \in Keys,
         \A i \in 1..Size(vector) : KeyAt(vector, i) = k => StaleClaim(vector, i)
  PROVE  Contents[k] = None
<1>1. PICK v \in Vectors : v = vector
  BY DEF Structure, Shape
<1>2. DOMAIN vectors[v].slots = 1..Size(v)
  BY VectorSlots
<1>3. ASSUME NEW j \in 1..Size(vector), Source(j, k) PROVE FALSE
  <2>1. StaleClaim(v, j)
    BY <1>1, <1>3 DEF Source
  <2> QED
    BY <1>1, <1>3, <2>1, StaleIs
<1>4. ASSUME NEW x \in Values, In(vector, k, x) PROVE FALSE
  <2>1. PICK j \in 1..Size(v) : KeyAt(v, j) = k /\ ValueAt(v, j) = x
    BY <1>1, <1>2, <1>4 DEF In
  <2>2. StaleClaim(v, j)
    BY <1>1, <2>1
  <2> QED
    BY <2>1, <2>2, StaleIs
<1>5. \A x \in Values : ~Maps(k, x)
  BY <1>3, <1>4, CopiedFrom DEF Maps
<1> QED
  BY <1>5, ContentsIs

(* What the table maps with one slot of its vector.                        *)
LEMMA WithSlot ==
  ASSUME Structure, NEW i \in 1..Size(vector), NEW k, NEW x
  PROVE  Maps(k, x) <=> Elsewhere(i, k, x) \/ (KeyAt(vector, i) = k /\ ValueAt(vector, i) = x)
<1>1. i \in DOMAIN vectors[vector].slots
  BY VectorSlots DEF Structure, Shape
<1> QED
  BY <1>1 DEF Maps, In, Elsewhere

(* What the slot of a key maps, and without a value.                       *)
LEMMA SlotHas ==
  ASSUME Structure, Order, Stopped, NEW k \in Keys, NEW i \in 1..Size(vector),
         KeyAt(vector, i) = k, ValueAt(vector, i) # Rehashing, ~StaleClaim(vector, i)
  PROVE  /\ ValueAt(vector, i) \in Values => Contents[k] = ValueAt(vector, i)
         /\ ValueAt(vector, i) \notin Values => Contents[k] = None
<1>1. \A x \in Values : Maps(k, x) <=> ValueAt(vector, i) = x
  BY AloneIs, WithSlot
<1> QED
  BY <1>1, ContentsIs

-----------------------------------------------------------------------------
(* What the operations do to the map.  A slot with a value, or free for    *)
(* one, is the current vector's.                                           *)
LEMMA ValueHere ==
  ASSUME Structure, Order, Stopped, NEW v \in Vectors, NEW t \in Threads, Holds(t, v),
         NEW i \in 1..Size(v), ValueAt(v, i) # Rehashing
  PROVE  v = vector
<1>1. v # copy.to
  BY CopiedFrom, ConstantTypes
<1> QED
  BY <1>1 DEF Structure, HeldInv

(* What the table maps after a store into the slot that a thread has in    *)
(* hand.                                                                   *)
LEMMA StoredMaps ==
  ASSUME Structure, Order, Stopped, NEW t \in Threads, NEW c, NEW n, Does(t, c, n), Structure',
         NEW k, NEW x
  PROVE  /\ my[t].vector # vector \/ c = MySlot(t) => (Maps(k, x)' <=> Maps(k, x))
         /\ my[t].vector = vector /\ my[t].slot \in 1..Size(vector) =>
                (Maps(k, x)' <=> Elsewhere(my[t].slot, k, x) \/ (c.key = k /\ c.value = x))
<1>1. PICK v \in Vectors : v = vector
  BY DEF Structure, Shape
<1>2. /\ vector' = v /\ copy' = copy /\ Size(v)' = Size(v)
      /\ \A i \in 1..Size(v) :
           /\ v = my[t].vector /\ i = my[t].slot => vectors'[v].slots[i] = c
           /\ v # my[t].vector \/ i # my[t].slot \/ c = MySlot(t) =>
                  vectors'[v].slots[i] = vectors[v].slots[i]
  BY <1>1, DoesAfter
<1>3. DOMAIN vectors[v].slots = 1..Size(v) /\ DOMAIN vectors'[v].slots = 1..Size(v)
  <2>1. vectors'[v].slots \in Seq(Cells)
    BY DEF Structure, Shape, Tables
  <2> QED
    BY <1>2, <2>1, VectorSlots DEF Size
<1>4. copy.to # 0 => (In(copy.to, k, x)' <=> In(copy.to, k, x))
  <2>1. SUFFICES ASSUME copy.to # 0 PROVE In(copy.to, k, x)' <=> In(copy.to, k, x)
    OBVIOUS
  <2>2. PICK w \in Vectors : w = copy.to
    BY <2>1, CopiedFrom
  <2>3. my[t].vector # w
    BY <2>1, <2>2, CopiedFrom DEF Holds
  <2>4. vectors'[w].slots = vectors[w].slots
    BY <2>2, <2>3, FreeAfter
  <2>5. In(w, k, x)' <=> In(w, k, x)
    BY <2>4 DEF In, KeyAt, ValueAt
  <2> QED
    BY <1>2, <2>2, <2>5
<1>5. ASSUME my[t].vector # vector \/ c = MySlot(t) PROVE Maps(k, x)' <=> Maps(k, x)
  <2>1. \A i \in 1..Size(v) : vectors'[v].slots[i] = vectors[v].slots[i]
    BY <1>1, <1>2, <1>5
  <2>2. In(v, k, x)' <=> In(v, k, x)
    BY <1>3, <2>1 DEF In, KeyAt, ValueAt
  <2>3. In(vector, k, x)' <=> In(vector, k, x)
    BY <1>1, <1>2, <2>2
  <2> QED
    BY <1>2, <1>4, <2>3 DEF Maps
<1>6. ASSUME my[t].vector = vector, my[t].slot \in 1..Size(vector)
      PROVE  Maps(k, x)' <=> Elsewhere(my[t].slot, k, x) \/ (c.key = k /\ c.value = x)
  <2>1. PICK s \in 1..Size(v) : s = my[t].slot
    BY <1>1, <1>6
  <2>2. vectors'[v].slots[s] = c /\ \A i \in 1..Size(v) \ {s} : vectors'[v].slots[i] = vectors[v].slots[i]
    BY <1>1, <1>2, <1>6, <2>1
  <2>3. In(v, k, x)' <=> \/ c.key = k /\ c.value = x
                         \/ \E j \in DOMAIN vectors[v].slots \ {s} : KeyAt(v, j) = k /\ ValueAt(v, j) = x
    BY <1>3, <2>2 DEF In, KeyAt, ValueAt
  <2>4. In(vector, k, x)' <=> In(v, k, x)'
    BY <1>2
  <2> QED
    BY <1>1, <1>2, <1>4, <2>1, <2>3, <2>4 DEF Maps, Elsewhere
<1> QED
  BY <1>5, <1>6

(* An operation that stores no value keeps the map.                        *)
LEMMA ContentsKept ==
  ASSUME Structure, Order, Stopped, NEW t \in Threads, NEW c, NEW n, Does(t, c, n), Structure',
         c = MySlot(t) \/ (c.value \notin Values /\ MySlot(t).value \notin Values)
  PROVE  Contents' = Contents
<1>1. ASSUME NEW k \in Keys, NEW x \in Values PROVE Maps(k, x)' <=> Maps(k, x)
  <2>1. CASE my[t].vector # vector \/ c = MySlot(t)
    BY <2>1, StoredMaps
  <2>2. CASE my[t].vector = vector /\ c # MySlot(t)
    <3>1. PICK s \in 1..Size(vector) : s = my[t].slot
      BY <2>2 DEF Does, Touches
    <3>2. Maps(k, x)' <=> Elsewhere(s, k, x)
      BY <2>2, <3>1, StoredMaps
    <3>3. ValueAt(vector, s) # x
      BY <2>2, <3>1 DEF MySlot, MyVector, ValueAt
    <3>4. Maps(k, x) <=> Elsewhere(s, k, x)
      BY <3>3, WithSlot
    <3> QED
      BY <3>2, <3>4
  <2> QED
    BY <2>1, <2>2
<1> QED
  BY <1>1, SameContents

(* One that stores a value, or deletes it, in the key's slot changes the   *)
(* map for this key.                                                       *)
LEMMA ContentsStored ==
  ASSUME Structure, Order, Stopped, NEW t \in Threads, NEW c, NEW n, Does(t, c, n), Structure',
         my[t].vector = vector, my[t].slot \in 1..Size(vector), MySlot(t).key \in Keys,
         MySlot(t).value # Rehashing, ~StaleClaim(vector, my[t].slot),
         NEW new \in Values \cup {None}, c.key = MySlot(t).key,
         IF new = None THEN c.value \notin Values ELSE c.value = new
  PROVE  Contents' = [Contents EXCEPT ![MySlot(t).key] = new]
<1>1. PICK s \in 1..Size(vector) : s = my[t].slot
  OBVIOUS
<1>2. PICK key \in Keys : key = MySlot(t).key
  OBVIOUS
<1>3. KeyAt(vector, s) = key /\ ValueAt(vector, s) # Rehashing /\ ~StaleClaim(vector, s)
  BY <1>1, <1>2 DEF MySlot, MyVector, KeyAt, ValueAt
<1>4. \A k \in Keys, x \in Values :
        /\ Maps(k, x)' <=> Elsewhere(s, k, x) \/ (key = k /\ c.value = x)
        /\ Maps(k, x) <=> Elsewhere(s, k, x) \/ (key = k /\ ValueAt(vector, s) = x)
  BY <1>1, <1>2, <1>3, StoredMaps, WithSlot
<1>5. \A x \in Values : ~Elsewhere(s, key, x)
  BY <1>2, <1>3, AloneIs
<1>6. \A k \in Keys \ {key}, x \in Values : Maps(k, x)' <=> Maps(k, x)
  BY <1>4
<1>7. \A x \in Values : Maps(key, x)' <=> x = new
  BY <1>4, <1>5, KeysAssumption
<1> QED
  BY <1>2, <1>6, <1>7, ContentsChanged

(* The value of a new entry.                                               *)
LEMMA MapFill ==
  ASSUME Structure, Order, Stopped, NEW t \in Threads, FillValue(t)
  PROVE  \/ pc'[t] = "rehash" /\ Contents' = Contents
         \/ pc'[t] = "increment" /\ Contents' = [Contents EXCEPT ![Key(t)] = request[t].value]
<1>1. LET d == MySlot(t) IN
      /\ Structure' /\ pc[t] = "fill" /\ request[t].value \in Values /\ d.key = Key(t)
      /\ \/ Does(t, d, 0) /\ pc'[t] = "rehash"
         \/ d.value = Free /\ Does(t, Slot(d.key, request[t].value), 0) /\ pc'[t] = "increment"
  BY FillValueIs
<1>2. CASE pc'[t] = "rehash"
  BY <1>1, <1>2, ContentsKept
<1>3. CASE pc'[t] = "increment"
  <2>1. MySlot(t).value = Free /\ Does(t, Slot(Key(t), request[t].value), 0)
    BY <1>1, <1>3
  <2>2. /\ my[t].vector \in Vectors /\ my[t].slot \in 1..Size(my[t].vector) /\ Key(t) \in Keys
        /\ ValueAt(my[t].vector, my[t].slot) = Free
    BY <1>1, <2>1, InHand DEF AtSlot
  <2>3. my[t].vector = vector
    BY <2>2, ValueHere, KeysAssumption DEF Holds
  <2>4. ~StaleClaim(vector, my[t].slot)
    <3>1. \A u \in Threads : pc[u] = "store" /\ my[u].vector = my[t].vector /\ my[u].slot = my[t].slot => u = t
      BY <1>1 DEF Structure, SlotInv, Mine
    <3> QED
      BY <1>1, <2>3, <3>1 DEF StaleClaim
  <2>5. Contents' = [Contents EXCEPT ![MySlot(t).key] = request[t].value]
    BY <1>1, <2>1, <2>2, <2>3, <2>4, SlotParts, KeysAssumption, ContentsStored
  <2> QED
    BY <1>1, <1>3, <2>5
<1> QED
  BY <1>1, <1>2, <1>3

(* The conditional store of puthash, in its own key's slot, and of remhash.*)
LEMMA MapSwap ==
  ASSUME Structure, Order, Stopped, NEW t \in Threads, SwapValue(t),
         pc'[t] = "done" => MySlot(t).key \in {Key(t), Deleted}
  PROVE  \/ pc'[t] = "rehash" /\ Contents' = Contents
         \/ /\ pc'[t] \in {"decrement", "done"} /\ Contents[Key(t)] # None
            /\ Contents' = [Contents EXCEPT ![Key(t)] = request[t].value]
<1>1. LET d == MySlot(t) IN
      /\ Structure' /\ pc[t] = "swap"
      /\ \/ Does(t, d, 0) /\ pc'[t] = "rehash"
         \/ /\ d.value \in Values /\ request[t].op = "rem"
            /\ Does(t, Slot(d.key, Deleted), 0) /\ pc'[t] = "decrement"
         \/ /\ d.value \in Values /\ request[t].op = "put"
            /\ Does(t, Slot(d.key, request[t].value), 0) /\ pc'[t] = "done"
  BY SwapValueIs
<1>2. CASE pc'[t] = "rehash"
  BY <1>1, <1>2, ContentsKept
<1>3. CASE pc'[t] # "rehash"
  <2>1. MySlot(t).value \in Values
    BY <1>1, <1>3
  <2>2. /\ my[t].vector \in Vectors /\ my[t].slot \in 1..Size(my[t].vector) /\ Key(t) \in Keys
        /\ ValueAt(my[t].vector, my[t].slot) = MySlot(t).value
        /\ KeyAt(my[t].vector, my[t].slot) = MySlot(t).key
        /\ MySlot(t).key = Deleted => MySlot(t).value \notin Values
        /\ request[t] # Idle
    BY <1>1, InHand DEF AtSlot
  <2>3. my[t].vector = vector
    BY <2>1, <2>2, ValueHere, KeysAssumption DEF Holds
  <2>4. ~StaleClaim(vector, my[t].slot)
    BY <2>1, <2>2, <2>3, StaleIs
  <2>5. MySlot(t).key = Key(t)
    <3>1. CASE pc'[t] = "done"
      BY <2>1, <2>2, <3>1
    <3>2. CASE pc'[t] = "decrement"
      <4>1. CellAt(t) /\ my[t].slot # 0 /\ request[t].op # "put"
        BY <1>1, <2>2, <3>2, HandIs
      <4> QED
        BY <1>1, <2>1, <2>2, <4>1 DEF CellAt
    <3> QED
      BY <1>1, <1>3, <3>1, <3>2
  <2>6. /\ request[t].op = "put" => request[t].value \in Values
        /\ request[t].op # "put" => request[t].value = None
    BY <2>2, Asked DEF Structure
  <2>7. PICK c : /\ Does(t, c, 0) /\ c.key = MySlot(t).key
                 /\ IF request[t].value = None THEN c.value \notin Values
                    ELSE c.value = request[t].value
    <3>1. CASE pc'[t] = "done"
      BY <1>1, <2>6, <3>1, SlotParts, KeysAssumption
    <3>2. CASE pc'[t] = "decrement"
      BY <1>1, <2>6, <3>2, SlotParts, KeysAssumption
    <3> QED
      BY <1>1, <1>3, <3>1, <3>2
  <2>8. request[t].value \in Values \cup {None} /\ MySlot(t).value # Rehashing
    BY <1>1, <1>3, <2>1, <2>6, KeysAssumption
  <2>9. Contents' = [Contents EXCEPT ![Key(t)] = request[t].value]
    BY <1>1, <2>2, <2>3, <2>4, <2>5, <2>7, <2>8, ContentsStored
  <2>10. Contents[Key(t)] # None
    <3>1. Contents[Key(t)] = MySlot(t).value
      BY <2>1, <2>2, <2>3, <2>4, <2>5, <2>8, SlotHas
    <3> QED
      BY <2>1, <3>1, KeysAssumption
  <2> QED
    BY <1>1, <1>3, <2>9, <2>10
<1> QED
  BY <1>2, <1>3

-----------------------------------------------------------------------------
(* A rehash keeps the map: what it takes from one vector it has in hand    *)
(* until it is in the other.                                               *)
LEMMA SameMaps ==
  ASSUME vector' = vector, (copy.to)' = copy.to, (copy.carry)' = copy.carry,
         vectors'[vector].slots = vectors[vector].slots,
         copy.to # 0 => vectors'[copy.to].slots = vectors[copy.to].slots
  PROVE  Contents' = Contents
<1>1. \A k \in Keys, x \in Values : Maps(k, x)' <=> Maps(k, x)
  BY DEF Maps, In, KeyAt, ValueAt
<1> QED
  BY <1>1, SameContents

(* To wait for the lock, to decide and to count moves no entry.            *)
LEMMA MapCount ==
  ASSUME Structure, NEW t \in Threads, Lock(t) \/ Decide(t) \/ CountSlot(t)
  PROVE  Contents' = Contents
<1>1. CASE Lock(t)
  BY <1>1, SameMaps DEF Lock, Keep, tableVars
<1>2. CASE Decide(t)
  <2>1. /\ copy = NoCopy /\ vector' = vector /\ vectors' = vectors
        /\ ((copy.to)' = 0 /\ (copy.carry)' = NoCarry) \/ copy' = NoCopy
    BY <1>2, DecideIs
  <2>2. NoCopy.to = 0 /\ NoCopy.carry = NoCarry
    BY DEF NoCopy
  <2> QED
    BY <2>1, <2>2, SameMaps
<1>3. CASE CountSlot(t)
  <2> DEFINE n == IF IsLive(vectors[vector].slots[copy.index]) THEN 1 ELSE 0
  <2>1. vector' = vector /\ vectors' = vectors /\ copy' = [copy EXCEPT !.index = @ + 1, !.count = @ + n]
    BY <1>3 DEF CountSlot, Keep, tableVars
  <2>2. copy \in Copies
    BY DEF Structure, Shape
  <2> HIDE DEF n
  <2>3. (copy.to)' = copy.to /\ (copy.carry)' = copy.carry
    BY <2>1, <2>2 DEF Copies
  <2> QED
    BY <2>1, <2>3, SameMaps
<1> QED
  BY <1>1, <1>2, <1>3

(* The new vector has no entry.                                            *)
LEMMA MapMake ==
  ASSUME Structure, Structure', NEW t \in Threads, MakeVector(t)
  PROVE  Contents' = Contents
<1>1. PICK new \in Vectors \ {vector}, size \in Nat :
        /\ vectors' = [vectors EXCEPT ![new] = NewVector(size)]
        /\ pc[t] = "count" /\ (copy.to)' = new /\ (copy.carry)' = NoCarry /\ vector' = vector
  BY MakeVectorIs
<1>2. copy.to = 0 /\ copy.carry = NoCarry
  <2>1. CopyAt(t)
    BY DEF Structure, CopyInv
  <2> QED
    BY <1>1, <2>1 DEF CopyAt
<1>3. vector \in Vectors /\ vectors \in [Vectors -> Tables] /\ vectors' \in [Vectors -> Tables]
  BY DEF Structure, Shape
<1>4. vectors'[new] = NewVector(size) /\ vectors'[vector] = vectors[vector]
  BY <1>1, <1>3
<1>5. \A i \in DOMAIN NewVector(size).slots : NewVector(size).slots[i].key = Free
  <2>1. NewVector(size).slots = [i \in 1..(size + Slack) |-> Slot(Free, Free)]
    BY DEF NewVector, Unused
  <2> QED
    BY <2>1, SlotParts
<1>6. \A k \in Keys, x \in Values : ~In(new, k, x)'
  BY <1>4, <1>5, KeysAssumption DEF In, KeyAt
<1>7. \A k, x : In(vector, k, x)' <=> In(vector, k, x)
  BY <1>1, <1>4 DEF In, KeyAt, ValueAt
<1>8. \A k \in Keys, x \in Values : Maps(k, x)' <=> Maps(k, x)
  BY <1>1, <1>2, <1>6, <1>7 DEF Maps
<1> QED
  BY <1>8, SameContents

(* The value that the marker replaces is on its way.                       *)
LEMMA MapCopy ==
  ASSUME Structure, Structure', NEW t \in Threads, CopySlot(t)
  PROVE  Contents' = Contents
<1> DEFINE d == vectors[vector].slots[copy.index]
<1>1. /\ pc[t] = "copy" /\ copy.index \in 1..Size(vector) /\ d \in Cells
      /\ \A v \in Vectors \ {vector} : vectors'[v] = vectors[v]
      /\ Size(vector)' = Size(vector) /\ vector' = vector /\ (copy.to)' = copy.to
      /\ \A i \in 1..Size(vector) : vectors'[vector].slots[i] =
             IF i = copy.index THEN Slot(d.key, Rehashing) ELSE vectors[vector].slots[i]
      /\ \/ d.value \in Values /\ (copy.carry)'.key = d.key /\ (copy.carry)'.value = d.value
         \/ d.value \notin Values /\ (copy.carry)' = NoCarry
  BY CopySlotIs
<1>2. PICK j \in 1..Size(vector) : j = copy.index
  BY <1>1
<1>3. copy.carry.key = None /\ NoCarry.key = None /\ copy.to \in Vectors \ {vector}
  <2>1. CopyAt(t)
    BY DEF Structure, CopyInv
  <2> QED
    BY <1>1, <2>1 DEF CopyAt, Copying, NoCarry
<1>4. d.key = KeyAt(vector, j) /\ d.value = ValueAt(vector, j)
  BY <1>2 DEF KeyAt, ValueAt
<1> HIDE DEF d
<1>5. ASSUME NEW k \in Keys, NEW x \in Values PROVE Maps(k, x)' <=> Maps(k, x)
  <2> DEFINE Rest == \E i \in 1..Size(vector) \ {j} : KeyAt(vector, i) = k /\ ValueAt(vector, i) = x
  <2>1. DOMAIN vectors[vector].slots = 1..Size(vector) /\ DOMAIN vectors'[vector].slots = 1..Size(vector)
    <3>1. vector \in Vectors /\ vectors'[vector].slots \in Seq(Cells)
      BY <1>1 DEF Structure, Shape, Tables
    <3> QED
      BY <1>1, <3>1, VectorSlots DEF Size
  <2>2. In(vector, k, x) <=> Rest \/ (d.key = k /\ d.value = x)
    BY <1>4, <2>1 DEF In
  <2>3. In(vector, k, x)' <=> Rest
    <3>1. \A i \in 1..Size(vector) \ {j} : vectors'[vector].slots[i] = vectors[vector].slots[i]
      BY <1>1, <1>2
    <3>2. vectors'[vector].slots[j].value # x
      BY <1>1, <1>2, SlotParts, KeysAssumption
    <3> QED
      BY <1>1, <2>1, <3>1, <3>2 DEF In, KeyAt, ValueAt
  <2>4. In(copy.to, k, x)' <=> In(copy.to, k, x)
    BY <1>1, <1>3 DEF In, KeyAt, ValueAt
  <2>5. k # None
    BY KeysAssumption
  <2> HIDE DEF Rest
  <2> QED
    BY <1>1, <1>3, <2>2, <2>3, <2>4, <2>5 DEF Maps
<1> QED
  BY <1>5, SameContents

(* The entry on its way is stored in the new vector.                       *)
LEMMA MapPlace ==
  ASSUME Structure, Structure', NEW t \in Threads, PlaceEntry(t)
  PROVE  Contents' = Contents
<1>1. /\ pc[t] = "place" /\ \A v \in Vectors \ {copy.to} : vectors'[v] = vectors[v]
      /\ copy.carry.slot \in 1..Size(copy.to) /\ KeyAt(copy.to, copy.carry.slot) = Free
      /\ Size(copy.to)' = Size(copy.to) /\ vector' = vector /\ (copy.to)' = copy.to
      /\ \A i \in 1..Size(copy.to) : vectors'[copy.to].slots[i] =
             IF i = copy.carry.slot THEN Slot(copy.carry.key, copy.carry.value)
             ELSE vectors[copy.to].slots[i]
      /\ (copy.carry)' = NoCarry
  BY PlaceEntryIs
<1>2. vector \in Vectors /\ copy.to \in Vectors \ {vector}
  BY <1>1, RehashParts DEF Copying
<1>3. PICK w \in Vectors : w = copy.to /\ w # vector
  BY <1>2
<1>4. PICK s \in 1..Size(w) : s = copy.carry.slot
  BY <1>1, <1>3
<1>5. ASSUME NEW k \in Keys, NEW x \in Values PROVE Maps(k, x)' <=> Maps(k, x)
  <2> DEFINE Rest == \E i \in 1..Size(w) \ {s} : KeyAt(w, i) = k /\ ValueAt(w, i) = x
  <2>1. DOMAIN vectors[w].slots = 1..Size(w) /\ DOMAIN vectors'[w].slots = 1..Size(w)
    <3>1. vectors'[w].slots \in Seq(Cells)
      BY DEF Structure, Shape, Tables
    <3>2. Len(vectors'[w].slots) = Size(w)
      BY <1>1, <1>3 DEF Size
    <3> QED
      BY <3>1, <3>2, VectorSlots
  <2>2. In(w, k, x) <=> Rest
    <3>1. KeyAt(w, s) # k
      BY <1>1, <1>3, <1>4, KeysAssumption
    <3> QED
      BY <2>1, <3>1 DEF In
  <2>3. In(w, k, x)' <=> Rest \/ (copy.carry.key = k /\ copy.carry.value = x)
    <3>1. \A i \in 1..Size(w) \ {s} : vectors'[w].slots[i] = vectors[w].slots[i]
      BY <1>1, <1>3, <1>4
    <3>2. vectors'[w].slots[s] = Slot(copy.carry.key, copy.carry.value)
      BY <1>1, <1>3, <1>4
    <3>3. vectors'[w].slots[s].key = copy.carry.key /\ vectors'[w].slots[s].value = copy.carry.value
      BY <3>2, SlotParts
    <3> QED
      BY <2>1, <3>1, <3>3 DEF In, KeyAt, ValueAt
  <2>4. In(vector, k, x)' <=> In(vector, k, x)
    BY <1>1, <1>2 DEF In, KeyAt, ValueAt
  <2>5. NoCarry.key # k /\ copy.to # 0
    BY <1>2, ConstantTypes, KeysAssumption DEF NoCarry
  <2>6. In(copy.to, k, x)' <=> In(w, k, x)'
    BY <1>1, <1>3
  <2>7. In(copy.to, k, x) <=> In(w, k, x)
    BY <1>3
  <2> HIDE DEF Rest
  <2> QED
    BY <1>1, <2>2, <2>3, <2>4, <2>5, <2>6, <2>7 DEF Maps
<1> QED
  BY <1>5, SameContents

(* The new vector laid out anew has the same entries.                      *)
LEMMA MapFinish ==
  ASSUME Structure, NEW t \in Threads, FinishCopy(t)
  PROVE  Contents' = Contents
<1>1. pc[t] = "copy" /\ vector' = vector /\ copy' = copy
  BY FinishCopyIs
<1>2. PICK s \in Seq(Cells), tb \in Tables :
        tb.slots = s /\ Relaid(s, vectors[copy.to].slots) /\ vectors' = [vectors EXCEPT ![copy.to] = tb]
  BY FinishCopyIs
<1>3. vector \in Vectors /\ copy.to \in Vectors \ {vector} /\ vectors \in [Vectors -> Tables]
  BY <1>1, RehashParts DEF Copying, Structure, Shape
<1>4. PICK w \in Vectors : w = copy.to /\ w # vector
  BY <1>3
<1>5. PICK old \in Seq(Cells) : old = vectors[w].slots
  BY <1>3 DEF Tables
<1>6. vectors'[w].slots = s /\ vectors'[vector] = vectors[vector] /\ Relaid(s, old)
  BY <1>2, <1>3, <1>4, <1>5
<1>7. ASSUME NEW k \in Keys, NEW x \in Values PROVE In(w, k, x)' <=> In(w, k, x)
  <2>1. In(w, k, x)' <=> \E i \in UsedIn(s) : s[i].key = k /\ s[i].value = x
    BY <1>6, KeysAssumption DEF In, KeyAt, ValueAt, UsedIn
  <2>2. In(w, k, x) <=> \E i \in UsedIn(old) : old[i].key = k /\ old[i].value = x
    BY <1>5, KeysAssumption DEF In, KeyAt, ValueAt, UsedIn
  <2>3. /\ \A i \in UsedIn(s) : \E j \in UsedIn(old) : old[j] = s[i]
        /\ \A j \in UsedIn(old) : \E i \in UsedIn(s) : s[i] = old[j]
    BY <1>6 DEF Relaid
  <2>4. ASSUME NEW i \in UsedIn(s), s[i].key = k, s[i].value = x
        PROVE  \E j \in UsedIn(old) : old[j].key = k /\ old[j].value = x
    <3>1. PICK j \in UsedIn(old) : old[j] = s[i]
      BY <2>3
    <3> QED
      BY <2>4, <3>1
  <2>5. ASSUME NEW j \in UsedIn(old), old[j].key = k, old[j].value = x
        PROVE  \E i \in UsedIn(s) : s[i].key = k /\ s[i].value = x
    <3>1. PICK i \in UsedIn(s) : s[i] = old[j]
      BY <2>3
    <3> QED
      BY <2>5, <3>1
  <2> QED
    BY <2>1, <2>2, <2>4, <2>5
<1>8. ASSUME NEW k \in Keys, NEW x \in Values PROVE Maps(k, x)' <=> Maps(k, x)
  <2>1. In(vector, k, x)' <=> In(vector, k, x)
    BY <1>1, <1>6 DEF In, KeyAt, ValueAt
  <2>2. In(copy.to, k, x)' <=> In(w, k, x)'
    BY <1>1, <1>4
  <2>3. In(copy.to, k, x) <=> In(w, k, x)
    BY <1>4
  <2> QED
    BY <1>1, <1>7, <2>1, <2>2, <2>3 DEF Maps
<1> QED
  BY <1>8, SameContents

(* The old vector has no value left when the new one takes its place.      *)
LEMMA MapInstall ==
  ASSUME Structure, NEW t \in Threads, Install(t)
  PROVE  Contents' = Contents
<1>1. /\ pc[t] = "install" /\ vector' = copy.to /\ copy' = NoCopy
      /\ \A v \in Vectors \ {vector} : vectors'[v] = vectors[v]
  BY InstallIs
<1>2. /\ copy.to \in Vectors \ {vector} /\ copy.carry = NoCarry /\ Size(vector) \in Nat
      /\ \A i \in 1..Size(vector) : ValueAt(vector, i) = Rehashing
  <2>1. CopyAt(t) /\ Size(vector) \in Nat /\ copy.to \in Vectors \ {vector}
    BY <1>1, RehashParts DEF Copying
  <2>2. copy.index = Size(vector) + 1 /\ \A i \in 1..copy.index - 1 : ValueAt(vector, i) = Rehashing
    BY <1>1, <2>1 DEF CopyAt, Copying
  <2> QED
    BY <1>1, <2>1, <2>2 DEF CopyAt
<1>3. NoCopy.to = 0 /\ NoCopy.carry = NoCarry /\ NoCarry.key = None
  BY DEF NoCopy, NoCarry
<1>4. ASSUME NEW k \in Keys, NEW x \in Values PROVE Maps(k, x)' <=> Maps(k, x)
  <2>1. ~In(vector, k, x)
    <3>1. DOMAIN vectors[vector].slots = 1..Size(vector)
      BY VectorSlots DEF Structure, Shape
    <3> QED
      BY <1>2, <3>1, KeysAssumption DEF In
  <2>2. PICK w \in Vectors : w = copy.to /\ w # vector /\ w # 0
    BY <1>2, ConstantTypes
  <2>3. In(w, k, x)' <=> In(w, k, x)
    <3>1. vectors'[w] = vectors[w]
      BY <1>1, <2>2
    <3> QED
      BY <3>1 DEF In, KeyAt, ValueAt
  <2>4. In(vector, k, x)' <=> In(w, k, x)'
    BY <1>1, <2>2
  <2>5. None # k
    BY KeysAssumption
  <2> QED
    BY <1>1, <1>2, <1>3, <2>1, <2>2, <2>3, <2>4, <2>5 DEF Maps
<1> QED
  BY <1>4, SameContents

(* The collector leaves the entries where they are.                        *)
LEMMA MapCollect ==
  ASSUME Structure, Order, Stopped, Collect
  PROVE  Contents' = Contents
<1>1. /\ vector' = vector /\ copy' = copy
      /\ \A v \in Vectors : vectors'[v].slots = vectors[v].slots
  BY CollectIs
<1>2. vector \in Vectors /\ (copy.to # 0 => copy.to \in Vectors)
  BY CopiedFrom DEF Structure, Shape
<1> QED
  BY <1>1, <1>2, SameMaps

-----------------------------------------------------------------------------
(* A rehash that ended in an error stays as it was: an operation keeps it. *)
LEMMA StoppedAfter ==
  ASSUME Structure, Stopped, NEW t \in Threads, NEW c, NEW n, Does(t, c, n), NEW u \in Threads
  PROVE  StoppedAt(u)'
<1>1. CASE u = t
  <2>1. owner' # t
    BY DoesAfter DEF Does
  <2> QED
    BY <1>1, <2>1 DEF StoppedAt
<1>2. CASE u # t
  <2>1. pc'[u] = pc[u] /\ copy' = copy /\ vector' = vector /\ owner' = owner /\ StoppedAt(u)
    BY <1>2, DoesAfter DEF Stopped
  <2>2. CASE ~(pc[u] = "error" /\ owner = u)
    BY <2>1, <2>2 DEF StoppedAt
  <2>3. CASE pc[u] = "error" /\ owner = u
    <3>1. copy.to \in Vectors \ {vector} /\ ~Holds(t, copy.to)
      BY <2>3 DEF Structure, CopyInv, CopyAt
    <3>2. PICK x \in Vectors : x = copy.to
      BY <3>1
    <3>3. my[t].vector # x
      BY <3>1, <3>2 DEF Holds
    <3>4. vectors'[x].slots = vectors[x].slots
      BY <3>2, <3>3, FreeAfter
    <3>5. Used(x)' = Used(x) /\ \A j : KeyAt(x, j)' = KeyAt(x, j)
      BY <3>4 DEF Size, Used, KeyAt
    <3>6. PICK v \in Vectors : v = vector
      BY DEF Structure, Shape
    <3>7. Size(v)' = Size(v)
      BY <3>6, DoesAfter
    <3>8. ASSUME NEW j \in Used(x)
          PROVE  KeyAt(x, j) \in Keys /\ \E i \in 1..Size(v) : Source(i, KeyAt(x, j))'
      <4>1. PICK k \in Keys : k = KeyAt(x, j)
        BY <2>1, <2>3, <3>2 DEF StoppedAt
      <4>2. PICK i \in 1..Size(vector) : Source(i, k)
        BY <2>1, <2>3, <3>2, <4>1 DEF StoppedAt
      <4>3. Source(i, k)'
        BY <4>2, SourceStays
      <4>4. k = KeyAt(x, j)'
        BY <3>5, <4>1
      <4> QED
        BY <3>6, <4>1, <4>2, <4>3, <4>4
    <3>9. (copy.carry)' = NoCarry
      BY <2>1, <2>3 DEF StoppedAt
    <3>10. \A j \in Used(copy.to)' :
             /\ KeyAt(copy.to, j)' \in Keys
             /\ \E i \in 1..Size(vector)' : Source(i, KeyAt(copy.to, j))'
      <4>1. Used(copy.to)' = Used(x) /\ \A j : KeyAt(copy.to, j)' = KeyAt(x, j) /\ KeyAt(copy.to, j)' = KeyAt(x, j)'
        BY <2>1, <3>2, <3>5
      <4>2. Size(vector)' = Size(v)
        BY <2>1, <3>6, <3>7
      <4>3. ASSUME NEW j \in Used(x)
            PROVE  \E i \in 1..Size(vector)' : Source(i, KeyAt(copy.to, j))'
        <5>1. PICK i \in 1..Size(v) : Source(i, KeyAt(x, j))'
          BY <3>8
        <5> QED
          BY <2>1, <3>2, <4>2, <5>1
      <4> QED
        BY <3>8, <4>1, <4>3
    <3> QED
      BY <3>9, <3>10 DEF StoppedAt
  <2> QED
    BY <2>2, <2>3
<1> QED
  BY <1>1, <1>2

(* The one thread that rehashes has not stopped.                           *)
LEMMA StoppedNobody ==
  ASSUME NEW t \in Threads, owner' \in {t, None}, pc'[t] # "error"
  PROVE  Stopped'
<1>1. None \notin Threads
  BY KeysAssumption
<1> QED
  BY <1>1 DEF Stopped, StoppedAt

(* One entry too many: it is in the new vector, and came from the old one. *)
LEMMA StoppedPlace ==
  ASSUME Structure, Order, NEW t \in Threads, PlaceEntry(t)
  PROVE  Stopped'
<1>1. /\ pc[t] = "place" /\ UNCHANGED <<vector, owner, my>>
      /\ \A v \in Vectors \ {copy.to} : vectors'[v] = vectors[v]
      /\ copy.carry.slot \in 1..Size(copy.to)
      /\ \A i \in 1..Size(copy.to) : vectors'[copy.to].slots[i] =
             IF i = copy.carry.slot THEN Slot(copy.carry.key, copy.carry.value)
             ELSE vectors[copy.to].slots[i]
      /\ Used(copy.to)' = Used(copy.to) \cup {copy.carry.slot}
      /\ (copy.to)' = copy.to /\ (copy.carry)' = NoCarry
      /\ Goto(t, IF copy.room - 1 <= 0 THEN "error" ELSE "copy")
  BY PlaceEntryIs
<1>2. /\ owner = t /\ vector \in Vectors /\ copy.to \in Vectors \ {vector} /\ Size(vector) \in Nat
  BY <1>1, RehashParts DEF Copying
<1>3. CopiedAt(t) /\ CopyAt(t)
  BY DEF Order, Structure, CopyInv
<1>4. PICK x \in Vectors : x = copy.to /\ x # vector
  BY <1>2
<1>5. PICK s \in 1..Size(x) : s = copy.carry.slot
  BY <1>1, <1>4
<1>6. PICK k \in Keys : k = copy.carry.key
  BY <1>1, <1>3 DEF CopyAt
<1>7. PICK c \in 1..Size(vector) : c = copy.index
  BY <1>1, <1>3 DEF CopyAt
<1>8. pc'[t] \in {"copy", "error"} /\ \A u \in Threads \ {t} : pc'[u] = pc[u]
  BY <1>1, OthersStay
<1>9. vectors'[vector] = vectors[vector] /\ pc'[t] \notin Mine /\ my' = my /\ vector' = vector
  BY <1>1, <1>2, <1>8 DEF Mine
<1>10. ASSUME NEW i, NEW h, Source(i, h) PROVE Source(i, h)'
  <2>1. KeyAt(vector, i)' = KeyAt(vector, i) /\ ValueAt(vector, i)' = ValueAt(vector, i)
    BY <1>9 DEF KeyAt, ValueAt
  <2> QED
    BY <1>8, <1>9, <1>10, <2>1, SourceKept
<1>11. /\ KeyAt(x, s)' = k /\ \A i \in 1..Size(x) : i # s => KeyAt(x, i)' = KeyAt(x, i)
       /\ Used(x)' = Used(x) \cup {s}
  <2>1. \A i \in 1..Size(x) : vectors'[x].slots[i] = IF i = s THEN Slot(k, copy.carry.value)
                                                     ELSE vectors[x].slots[i]
    BY <1>1, <1>4, <1>5, <1>6
  <2>2. KeyAt(x, s)' = k /\ \A i \in 1..Size(x) : i # s => KeyAt(x, i)' = KeyAt(x, i)
    BY <2>1, SlotParts DEF KeyAt
  <2>3. Used(x)' = Used(x) \cup {s}
    BY <1>1, <1>4, <1>5
  <2> QED
    BY <2>2, <2>3
<1>12. ASSUME NEW j \in Used(x)'
       PROVE  KeyAt(x, j)' \in Keys /\ \E i \in 1..Size(vector) : Source(i, KeyAt(x, j))'
  <2>1. PICK h : h = KeyAt(x, j)'
    OBVIOUS
  <2>2. CASE j = s
    <3>1. Source(c, k)
      BY <1>1, <1>3, <1>6, <1>7 DEF CopiedAt
    <3>2. Source(c, k)' /\ h = k
      BY <1>10, <1>11, <2>1, <2>2, <3>1
    <3> QED
      BY <2>1, <3>2
  <2>3. CASE j # s
    <3>1. j \in Used(x) /\ h = KeyAt(x, j)
      BY <1>11, <1>12, <2>1, <2>3 DEF Used
    <3>2. PICK i \in 1..c - 1 : Source(i, h)
      BY <1>1, <1>3, <1>4, <1>7, <3>1 DEF CopiedAt, Copying
    <3>3. Source(i, h)' /\ i \in 1..Size(vector)
      BY <1>2, <1>10, <3>2
    <3>4. h \in Keys
      BY <1>1, <1>3, <1>4, <3>1 DEF CopyAt, Copying
    <3> QED
      BY <2>1, <3>3, <3>4
  <2> QED
    BY <2>2, <2>3
<1>13. Size(vector)' = Size(vector)
  BY <1>9 DEF Size
<1>14. (copy.to)' = x /\ (copy.carry)' = NoCarry
  BY <1>1, <1>4
<1>15. StoppedAt(t)'
  BY <1>12, <1>13, <1>14 DEF StoppedAt
<1>16. \A u \in Threads \ {t} : StoppedAt(u)'
  BY <1>1, <1>2 DEF StoppedAt
<1> QED
  BY <1>15, <1>16 DEF Stopped

(* A step that keeps the slots of all vectors keeps what was stopped.      *)
LEMMA StoppedKept ==
  ASSUME Stopped, Structure, UNCHANGED <<vector, owner, copy, pc, my>>,
         \A v \in Vectors : vectors'[v].slots = vectors[v].slots
  PROVE  Stopped'
<1>1. ASSUME NEW t \in Threads, pc[t] = "error", owner = t PROVE StoppedAt(t)'
  <2>1. StoppedAt(t) /\ CopyAt(t)
    BY DEF Stopped, Structure, CopyInv
  <2>2. PICK x \in Vectors : x = copy.to
    BY <1>1, <2>1 DEF CopyAt
  <2>3. PICK v \in Vectors : v = vector
    BY DEF Structure, Shape
  <2>4. Used(x)' = Used(x) /\ \A j : KeyAt(x, j)' = KeyAt(x, j)
    BY <2>2 DEF Size, Used, KeyAt
  <2>5. Size(v)' = Size(v) /\ \A j : KeyAt(v, j)' = KeyAt(v, j) /\ ValueAt(v, j)' = ValueAt(v, j)
    BY <2>3 DEF Size, KeyAt, ValueAt
  <2>6. ASSUME NEW i, NEW k, Source(i, k) PROVE Source(i, k)'
    BY <2>3, <2>5, <2>6 DEF Source
  <2>7. ASSUME NEW j \in Used(x)
        PROVE  KeyAt(x, j)' \in Keys /\ \E i \in 1..Size(v) : Source(i, KeyAt(x, j))'
    <3>1. PICK k \in Keys : k = KeyAt(x, j)
      BY <1>1, <2>1, <2>2 DEF StoppedAt
    <3>2. PICK i \in 1..Size(v) : Source(i, k)
      BY <1>1, <2>1, <2>2, <2>3, <3>1 DEF StoppedAt
    <3>3. Source(i, k)' /\ k = KeyAt(x, j)'
      BY <2>4, <2>6, <3>1, <3>2
    <3> QED
      BY <3>3
  <2>8. (copy.carry)' = NoCarry /\ (copy.to)' = x /\ Size(vector)' = Size(v)
    BY <1>1, <2>1, <2>2, <2>3, <2>5 DEF StoppedAt
  <2> QED
    BY <2>4, <2>7, <2>8 DEF StoppedAt
<1> QED
  BY <1>1 DEF Stopped, StoppedAt

(* Every step of a thread keeps a rehash that stopped as it was.           *)
LEMMA StoppedStep ==
  ASSUME Structure, Order, Stopped, NEW t \in Threads, Step(t) \/ Call(t)
  PROVE  Stopped'
<1>1. CASE Operation(t) \/ Reserve(t) \/ ClaimKey(t)
  <2>1. PICK c, n : Does(t, c, n)
    BY <1>1, OperationIs, ReserveIs, ClaimKeyIs
  <2> QED
    BY <2>1, StoppedAfter DEF Stopped
<1>2. CASE Lock(t)
  <2>1. owner' = t /\ Goto(t, "decide")
    BY <1>2 DEF Lock
  <2>2. pc'[t] = "decide"
    BY <2>1, OthersStay
  <2> QED
    BY <2>1, <2>2, StoppedNobody
<1>3. CASE Decide(t)
  <2>1. owner' \in {t, None} /\ (Goto(t, "count") \/ Goto(t, "retry"))
    BY <1>3, DecideIs
  <2>2. pc'[t] \in {"count", "retry"}
    BY <2>1, OthersStay
  <2> QED
    BY <2>1, <2>2, StoppedNobody
<1>4. CASE CountSlot(t) \/ CopySlot(t) \/ FinishCopy(t) \/ MakeVector(t)
  <2>1. owner' = owner /\ pc[t] \in {"count", "copy"}
    BY <1>4 DEF CountSlot, CopySlot, FinishCopy, MakeVector, Keep, rehashVars
  <2>2. owner = t
    BY <2>1, RehashParts DEF Copying
  <2>3. pc'[t] # "error"
    <3>1. CASE CountSlot(t)
      BY <2>1, <3>1 DEF CountSlot, Keep, threadVars
    <3>2. CASE CopySlot(t)
      <4>1. Goto(t, "place") \/ Goto(t, "copy")
        BY <3>2, CopySlotIs
      <4> QED
        BY <4>1, OthersStay
    <3>3. CASE FinishCopy(t)
      <4>1. Goto(t, "install")
        BY <3>3 DEF FinishCopy
      <4> QED
        BY <4>1, OthersStay
    <3>4. CASE MakeVector(t)
      <4>1. Goto(t, "copy")
        BY <3>4 DEF MakeVector
      <4> QED
        BY <4>1, OthersStay
    <3> QED
      BY <1>4, <3>1, <3>2, <3>3, <3>4
  <2> QED
    BY <2>1, <2>2, <2>3, StoppedNobody
<1>5. CASE PlaceEntry(t)
  BY <1>5, StoppedPlace
<1>6. CASE Install(t)
  <2>1. owner' = None /\ Goto(t, "retry")
    BY <1>6 DEF Install
  <2>2. pc'[t] = "retry"
    BY <2>1, OthersStay
  <2> QED
    BY <2>1, <2>2, StoppedNobody
<1> QED
  BY <1>1, <1>2, <1>3, <1>4, <1>5, <1>6 DEF Step, Operation

(* No rehash has stopped at the beginning.                                 *)
LEMMA InitStopped == Init => Stopped
BY KeysAssumption DEF Init, Stopped, StoppedAt

(* Every step keeps a rehash that stopped as it was.                       *)
LEMMA NextStopped ==
  ASSUME Structure, Order, Stopped, [Next]_vars
  PROVE  Stopped'
<1>1. ASSUME Collect PROVE Stopped'
  <2>1. /\ UNCHANGED <<vector, owner, copy, pc, my>>
        /\ \A v \in Vectors : vectors'[v].slots = vectors[v].slots
    BY <1>1, CollectIs
  <2> QED
    BY <2>1, StoppedKept
<1>2. ASSUME UNCHANGED vars PROVE Stopped'
  <2>1. UNCHANGED <<vector, vectors, owner, copy, pc, my>>
    BY <1>2 DEF vars, tableVars, rehashVars, threadVars
  <2> QED
    BY <2>1, StoppedKept
<1>3. ASSUME NEW t \in Threads, Step(t) \/ Call(t) PROVE Stopped'
  BY <1>3, StoppedStep
<1> QED
  BY <1>1, <1>2, <1>3 DEF Next

-----------------------------------------------------------------------------
(* An operation that may yet return what it saw.                           *)
Looking(t) == request[t].op \in {"get", "rem"} /\ t \notin Changed

(* What gethash or remhash has found not to be in the table was not in it  *)
(* at some moment of the call: the key moved and no vector was flagged,    *)
(* the probe ended at a free slot, or the slot of the key had no value.    *)
SeenAt(t) ==
    LET v == my[t].vector  s == my[t].slot IN
    Looking(t) =>
        /\ Contents[Key(t)] \in history[t]
        /\ pc[t] = "probe" /\ v = vector /\ ~vectors[v].moved /\ my[t].address # address[Key(t)] =>
               None \in history[t]
        /\ pc[t] = "check" /\ s = 0 /\ v = vector /\ ~vectors[v].moved => None \in history[t]
        /\ pc[t] \in {"check", "value"} /\ s # 0 /\ ValueAt(v, s) \in {Free, Deleted} =>
               None \in history[t]

Seen == history \in [Threads -> SUBSET (Values \cup {None})] /\ \A t \in Threads : SeenAt(t)

(* What a step records.                                                    *)
LEMMA RecordedIs ==
  ASSUME Seen, Structure', Recorded
  PROVE  /\ history' \in [Threads -> SUBSET (Values \cup {None})]
         /\ \A u \in Threads : Looking(u)' =>
                Contents'[request'[u].key] \in history'[u] /\ history[u] \subseteq history'[u]
<1>1. Shape'
  BY DEF Structure
<1>2. ASSUME NEW u \in Threads, request'[u].op \in {"get", "rem"} PROVE request'[u].key \in Keys
  <2>1. request'[u] # Idle
    BY <1>2 DEF Idle
  <2>2. request'[u] \in Calls(u)
    BY <1>1, <2>1 DEF Shape
  <2> QED
    BY <2>2, CallParts
<1>3. \A k \in Keys : Contents'[k] \in Values \cup {None}
  BY ContentsType
<1>4. history' = [u \in Threads |->
        IF request'[u].op \notin {"get", "rem"} \/ u \in Changed' THEN {}
        ELSE {Contents'[request'[u].key]} \cup history[u]]
  BY DEF Recorded
<1>5. history' \in [Threads -> SUBSET (Values \cup {None})]
  BY <1>2, <1>3, <1>4 DEF Seen
<1>6. ASSUME NEW u \in Threads, Looking(u)'
      PROVE  Contents'[request'[u].key] \in history'[u] /\ history[u] \subseteq history'[u]
  BY <1>4, <1>6 DEF Looking
<1> QED
  BY <1>5, <1>6

(* A thread that looks at nothing has seen what is there.                  *)
LEMMA SeenNothing ==
  ASSUME Seen, Structure', Recorded, NEW u \in Threads,
         pc'[u] \notin {"probe", "check", "value"} \/ request'[u].op \notin {"get", "rem"}
  PROVE  SeenAt(u)'
BY RecordedIs DEF SeenAt, Looking, Key

(* A thread that waits has seen what it saw, whatever another one stores.  *)
LEMMA SeenKeeps ==
  ASSUME Seen, Structure', Recorded, NEW u \in Threads,
         pc'[u] = pc[u], my'[u] = my[u], request'[u] = request[u],
         NEW v, v = my[u].vector, NEW s, s = my[u].slot,
         v = vector' => v = vector /\ (~(vectors[v].moved)' => ~vectors[v].moved),
         v = vector' /\ ~(vectors[v].moved)' /\ address'[Key(u)] # address[Key(u)] => Contents'[Key(u)] = None,
         pc[u] \in {"check", "value"} /\ s # 0 /\ ValueAt(v, s)' \in {Free, Deleted} =>
             ValueAt(v, s) \in {Free, Deleted} \/ Contents'[Key(u)] = None
  PROVE  SeenAt(u)'
<1>1. Looking(u)' <=> Looking(u)
  BY DEF Looking, Changed
<1>2. SeenAt(u) /\ Key(u)' = Key(u)
  BY DEF Seen, Key
<1>3. Looking(u)' => Contents'[Key(u)] \in history'[u] /\ history[u] \subseteq history'[u]
  BY RecordedIs DEF Key
<1>4. ASSUME Looking(u)', pc[u] = "probe", v = vector', ~(vectors[v].moved)',
             my[u].address # address'[Key(u)]
      PROVE  None \in history'[u]
  <2>1. CASE address'[Key(u)] = address[Key(u)]
    BY <1>1, <1>2, <1>3, <1>4, <2>1 DEF SeenAt
  <2>2. CASE address'[Key(u)] # address[Key(u)]
    BY <1>2, <1>3, <1>4, <2>2
  <2> QED
    BY <2>1, <2>2
<1>5. ASSUME Looking(u)', pc[u] = "check", s = 0, v = vector', ~(vectors[v].moved)'
      PROVE  None \in history'[u]
  BY <1>1, <1>2, <1>3, <1>5 DEF SeenAt
<1>6. ASSUME Looking(u)', pc[u] \in {"check", "value"}, s # 0, ValueAt(v, s)' \in {Free, Deleted}
      PROVE  None \in history'[u]
  <2>1. CASE ValueAt(v, s) \in {Free, Deleted}
    BY <1>1, <1>2, <1>3, <1>6, <2>1 DEF SeenAt
  <2>2. CASE Contents'[Key(u)] = None
    BY <1>3, <1>6, <2>2
  <2> QED
    BY <1>6, <2>1, <2>2
<1> QED
  BY <1>2, <1>3, <1>4, <1>5, <1>6 DEF SeenAt

(* Another thread's operation: the value of a slot goes when a remhash     *)
(* takes it, and then the key is not in the table.                         *)
LEMMA SeenOther ==
  ASSUME Structure, Seen, NEW t \in Threads, NEW c, NEW n, Does(t, c, n), Structure', Recorded,
         NEW u \in Threads \ {t},
         \/ c = MySlot(t) \/ c.value = MySlot(t).value \/ c.value \in Values
         \/ MySlot(t).value \in Values /\ Contents'[MySlot(t).key] = None
  PROVE  SeenAt(u)'
<1>1. /\ pc'[u] = pc[u] /\ my'[u] = my[u] /\ request'[u] = request[u]
      /\ vector' = vector /\ address' = address /\ ~Gone(vector)
  BY DoesAfter
<1>2. PICK v \in {0} \cup Vectors : v = my[u].vector
  BY HandIs
<1>3. PICK s \in Nat : s = my[u].slot
  BY HandIs
<1>4. v = vector' => v = vector /\ (~(vectors[v].moved)' => ~vectors[v].moved)
  <2>1. vector \in Vectors /\ (vectors[vector].moved)' = vectors[vector].moved
    BY <1>1, DoesAfter DEF Structure, Shape
  <2> QED
    BY <1>1, <2>1
<1>5. ASSUME pc[u] \in {"check", "value"}, s # 0, ValueAt(v, s)' \in {Free, Deleted}, Looking(u),
             ValueAt(v, s) \notin {Free, Deleted}
      PROVE  Contents'[Key(u)] = None
  <2>1. HandAt(u) /\ CellAt(u)
    BY HandIs
  <2>2. v \in Vectors /\ s \in 1..Size(v)
    BY <1>2, <1>3, <1>5, <2>1 DEF HandAt, AtSlot
  <2>3. ~Gone(v)
    BY <1>1, <1>2, <2>2, GoneIs
  <2>4. v = my[t].vector /\ s = my[t].slot /\ c # MySlot(t) /\ vectors'[v].slots[s] = c
    <3>1. vectors'[v].slots[s] # vectors[v].slots[s]
      BY <1>5 DEF ValueAt
    <3> QED
      BY <2>2, <2>3, <3>1, DoesAfter
  <2>5. c.value = ValueAt(v, s)' /\ MySlot(t).value = ValueAt(v, s) /\ MySlot(t).key = KeyAt(v, s)
    BY <2>4 DEF ValueAt, KeyAt, MySlot, MyVector
  <2>6. MySlot(t).value \in Values /\ Contents'[MySlot(t).key] = None
    BY <1>5, <2>4, <2>5, KeysAssumption
  <2>7. KeyAt(v, s) \in {Key(u), Deleted}
    BY <1>2, <1>3, <1>5, <2>1 DEF CellAt, Looking
  <2>8. KeyAt(v, s) # Deleted
    BY <2>2, <2>5, <2>6 DEF Structure, SlotInv
  <2> QED
    BY <2>5, <2>6, <2>7, <2>8
<1>6. CASE Looking(u)
  BY <1>1, <1>2, <1>3, <1>4, <1>5, <1>6, SeenKeeps
<1>7. CASE ~Looking(u)
  BY <1>1, <1>7 DEF SeenAt, Looking, Changed
<1> QED
  BY <1>6, <1>7

(* An operation keeps what the others have seen.                           *)
LEMMA SeenStep ==
  ASSUME Structure, Seen, NEW t \in Threads, NEW c, NEW n, Does(t, c, n), Structure', Recorded,
         \/ c = MySlot(t) \/ c.value = MySlot(t).value \/ c.value \in Values
         \/ MySlot(t).value \in Values /\ Contents'[MySlot(t).key] = None,
         SeenAt(t)'
  PROVE  Seen'
<1>1. \A u \in Threads \ {t} : SeenAt(u)'
  BY SeenOther
<1> QED
  BY <1>1, RecordedIs DEF Seen

(* An operation begins with the address of its key.                        *)
LEMMA SeenBegin ==
  ASSUME Structure, Seen, NEW t \in Threads, Call(t) \/ Retry(t), Recorded
  PROVE  Seen'
<1>1. PICK k \in Keys : my'[t] = Reading(k) /\ request'[t].key = k
  <2>1. CASE Call(t)
    <3>1. my'[t] = Reading(request'[t].key) /\ request'[t] \in Calls(t)
      BY <2>1, CallIs
    <3> QED
      BY <3>1, CallParts
  <2>2. CASE Retry(t)
    <3>1. my'[t] = Reading(Key(t)) /\ request' = request /\ pc[t] = "retry"
      BY <2>2, RetryIs DEF Same
    <3>2. request[t] # Idle
      BY <3>1, HandIs DEF OpAt
    <3>3. Key(t) \in Keys
      BY <3>2, Asked DEF Structure
    <3> QED
      BY <3>1, <3>3 DEF Key
  <2> QED
    BY <2>1, <2>2
<1>2. Structure' /\ Does(t, MySlot(t), 0) /\ pc'[t] = "probe" /\ address' = address
  <2>1. Structure' /\ Does(t, MySlot(t), 0) /\ pc'[t] = "probe"
    BY CallIs, RetryIs
  <2> QED
    BY <2>1, DoesAfter
<1>3. my'[t].address = address'[request'[t].key]
  BY <1>1, <1>2, ReadingIs
<1>4. SeenAt(t)'
  <2>1. Looking(t)' => Contents'[request'[t].key] \in history'[t]
    BY <1>2, RecordedIs
  <2> QED
    BY <1>2, <1>3, <2>1 DEF SeenAt, Key
<1> QED
  BY <1>2, <1>4, SeenStep

(* The probe ends: without the key at a free slot, or at a slot with it.   *)
LEMMA SeenFind ==
  ASSUME Structure, Order, Stopped, Seen, NEW t \in Threads, Find(t), Recorded,
         my'[t].slot # 0 /\ StaleClaim(my[t].vector, my'[t].slot) => Contents[Key(t)] = None
  PROVE  Seen'
<1> DEFINE s == Probe(MyVector(t).slots, my[t].address, {Free, Key(t)})
<1>1. /\ Structure' /\ Does(t, MySlot(t), 0) /\ pc[t] = "probe" /\ pc'[t] = "check"
      /\ request[t].op # "put" /\ vectors' = vectors /\ request' = request
      /\ my'[t].vector = my[t].vector
      /\ my'[t].slot = IF s # 0 /\ KeyAt(my[t].vector, s) = Key(t) THEN s ELSE 0
  BY FindIs DEF Same
<1>2. vector' = vector /\ address' = address /\ Contents' = Contents
  BY <1>1, DoesAfter, ContentsKept
<1>3. request[t] # Idle
  BY <1>1, HandIs DEF OpAt
<1>4. PICK k \in Keys : k = Key(t)
  BY <1>3, Asked DEF Structure
<1>5. PICK v \in Vectors : v = my[t].vector
  BY <1>1, FindIs
<1>6. PICK a \in Int : a = my[t].address
  BY HandIs
<1>7. Size(v) \in Nat /\ Free \notin Values /\ Deleted \notin Values /\ Free # k
  BY UsedFinite, KeysAssumption
<1>8. s = Probe(vectors[v].slots, a, {Free, k})
  BY <1>4, <1>5, <1>6 DEF MyVector
<1> HIDE DEF s
<1>9. pc'[t] # pc[t] /\ (t \in Changed' <=> FALSE) /\ (t \in Changed <=> FALSE)
  BY <1>1 DEF Changed
<1>10. request[t].op \in {"get", "rem"}
  BY <1>1, <1>3, Asked DEF Structure
<1>11. Looking(t) /\ Looking(t)'
  BY <1>1, <1>9, <1>10 DEF Looking
<1>12. Contents[k] \in history'[t] /\ history[t] \subseteq history'[t]
  BY <1>1, <1>2, <1>4, <1>11, RecordedIs DEF Key
<1>13. ASSUME my'[t].slot = 0, v = vector, ~vectors[v].moved PROVE None \in history'[t]
  <2>1. CASE a # address[k]
    <3>1. None \in history[t]
      BY <1>1, <1>4, <1>5, <1>6, <1>11, <1>13, <2>1 DEF Seen, SeenAt
    <3> QED
      BY <1>12, <3>1
  <2>2. CASE a = address[k]
    <3>1. ASSUME NEW i \in 1..Size(v), KeyAt(v, i) = k PROVE StaleClaim(v, i)
      <4>1. CASE s = 0
        <5>1. \A r \in 1..Len(vectors[v].slots) : vectors[v].slots[r].key \notin {Free, k}
          BY <1>7, <1>8, <4>1, ProbeIs DEF Size
        <5> QED
          BY <3>1, <5>1 DEF KeyAt, Size
      <4>2. CASE s # 0
        <5>1. OnTheWay(v, a, s, {Free, k}) /\ s \in 1..Size(v) /\ KeyAt(v, s) \in {Free, k}
          BY <1>7, <1>8, <4>2, ProbeWay
        <5>2. KeyAt(v, s) = Free
          BY <1>1, <1>4, <1>5, <1>13, <4>2, <5>1
        <5> QED
          BY <1>13, <2>2, <3>1, <5>1, <5>2, NotThere
      <4> QED
        BY <4>1, <4>2
    <3>2. Contents[k] = None
      BY <1>13, <3>1, AbsentIs
    <3> QED
      BY <1>12, <3>2
  <2> QED
    BY <2>1, <2>2
<1>14. ASSUME my'[t].slot # 0, ValueAt(v, my'[t].slot) \in {Free, Deleted} PROVE None \in history'[t]
  <2>1. s # 0 /\ KeyAt(v, s) = k /\ my'[t].slot = s
    BY <1>1, <1>4, <1>5, <1>14
  <2>2. s \in 1..Size(v)
    BY <1>7, <1>8, <2>1, ProbeWay
  <2>3. ValueAt(v, s) # Rehashing /\ ValueAt(v, s) \notin Values
    BY <1>7, <1>14, <2>1, KeysAssumption
  <2>4. v = vector
    BY <1>5, <2>2, <2>3, ValueHere DEF Holds
  <2>5. CASE StaleClaim(v, s)
    BY <1>4, <1>5, <1>12, <2>1, <2>5
  <2>6. CASE ~StaleClaim(v, s)
    <3>1. Contents[k] = None
      BY <2>1, <2>2, <2>3, <2>4, <2>6, SlotHas
    <3> QED
      BY <1>12, <3>1
  <2> QED
    BY <2>5, <2>6
<1>15. SeenAt(t)'
  <2>1. Contents'[Key(t)'] \in history'[t]
    BY <1>1, <1>2, <1>4, <1>12 DEF Key
  <2>2. (vectors[v].moved)' = vectors[v].moved /\ \A i : ValueAt(v, i)' = ValueAt(v, i)
    BY <1>1 DEF ValueAt
  <2> QED
    BY <1>1, <1>2, <1>5, <1>13, <1>14, <2>1, <2>2 DEF SeenAt
<1> QED
  BY <1>1, <1>15, SeenStep

(* A slot is looked at for its value.                                      *)
LEMMA SeenCheck ==
  ASSUME Structure, Seen, NEW t \in Threads, CheckFound(t), Recorded
  PROVE  Seen'
<1>1. Structure' /\ Does(t, MySlot(t), 0) /\ pc[t] = "check"
  BY CheckFoundIs
<1>2. CASE pc'[t] \notin {"probe", "check", "value"}
  BY <1>1, <1>2, SeenNothing, SeenStep
<1>3. CASE pc'[t] \in {"probe", "check", "value"}
  <2>1. pc'[t] = "value" /\ my' = my /\ vectors' = vectors /\ request' = request
    BY <1>3, CheckFoundIs DEF Same
  <2>2. Looking(t)' => Looking(t)
    BY <1>1, <2>1 DEF Looking, Changed
  <2>3. Looking(t)' => Contents'[request'[t].key] \in history'[t] /\ history[t] \subseteq history'[t]
    BY <1>1, RecordedIs
  <2>4. ValueAt(my[t].vector, my[t].slot)' = ValueAt(my[t].vector, my[t].slot)
    BY <2>1 DEF ValueAt
  <2>5. SeenAt(t)
    BY DEF Seen
  <2>6. SeenAt(t)'
    BY <1>1, <2>1, <2>2, <2>3, <2>4, <2>5 DEF SeenAt, Key
  <2> QED
    BY <1>1, <2>6, SeenStep
<1> QED
  BY <1>2, <1>3

(* The conditional store: a remhash takes the value, a puthash replaces it. *)
LEMMA SeenSwap ==
  ASSUME Structure, Order, Stopped, Seen, NEW t \in Threads, SwapValue(t), Recorded,
         pc'[t] = "done" => MySlot(t).key \in {Key(t), Deleted}
  PROVE  Seen'
<1> DEFINE d == MySlot(t)
<1>1. /\ Structure' /\ pc[t] = "swap"
      /\ \/ Does(t, d, 0) /\ pc'[t] = "rehash"
         \/ /\ d.value \in Values /\ request[t].op = "rem"
            /\ Does(t, Slot(d.key, Deleted), 0) /\ pc'[t] = "decrement"
         \/ /\ d.value \in Values /\ request[t].op = "put"
            /\ Does(t, Slot(d.key, request[t].value), 0) /\ pc'[t] = "done"
  BY SwapValueIs
<1>2. SeenAt(t)'
  BY <1>1, SeenNothing
<1>3. request[t] # Idle
  BY <1>1, HandIs DEF OpAt
<1>4. CASE Does(t, d, 0) /\ pc'[t] = "rehash"
  BY <1>1, <1>2, <1>4, SeenStep
<1>5. CASE d.value \in Values /\ request[t].op = "rem" /\ Does(t, Slot(d.key, Deleted), 0) /\ pc'[t] = "decrement"
  <2>1. request[t].value = None /\ Key(t) \in Keys
    BY <1>3, <1>5, Asked DEF Structure
  <2>2. d.key = Key(t)
    <3>1. my[t].slot # 0 /\ d.key = KeyAt(my[t].vector, my[t].slot) /\ d.key # Deleted
      BY <1>1, <1>5, InHand DEF AtSlot
    <3>2. d.key \in {Key(t), Deleted}
      BY <1>1, <1>5, <3>1, HandIs DEF CellAt
    <3> QED
      BY <3>1, <3>2
  <2>3. Contents' = [Contents EXCEPT ![Key(t)] = None]
    BY <1>5, <2>1, MapSwap
  <2>4. Contents'[d.key] = None
    BY <2>1, <2>2, <2>3, ContentsType
  <2> QED
    BY <1>1, <1>2, <1>5, <2>4, SeenStep
<1>6. CASE request[t].op = "put" /\ Does(t, Slot(d.key, request[t].value), 0)
  <2>1. request[t].value \in Values
    BY <1>3, <1>6, Asked DEF Structure
  <2>2. Slot(d.key, request[t].value).value \in Values
    BY <2>1, SlotParts
  <2> QED
    BY <1>1, <1>2, <1>6, <2>2, SeenStep
<1> QED
  BY <1>1, <1>4, <1>5, <1>6

(* The operations that look at nothing, or are done.                       *)
LEMMA SeenOperation ==
  ASSUME Structure, Seen, NEW t \in Threads, Recorded,
         \/ FindNew(t) \/ CheckForPut(t) \/ GetValue(t) \/ RemoveValue(t) \/ PutValue(t)
         \/ CountRemoved(t) \/ ClearKey(t) \/ CheckMoved(t) \/ FillValue(t) \/ CountAdded(t)
         \/ Done(t) \/ Reserve(t) \/ ClaimKey(t)
  PROVE  Seen'
<1> DEFINE d == MySlot(t)
<1>1. CASE \/ FindNew(t) \/ CheckForPut(t) \/ PutValue(t) \/ Reserve(t) \/ CountRemoved(t)
           \/ GetValue(t) \/ RemoveValue(t) \/ CountAdded(t) \/ Done(t)
  <2>1. Structure' /\ \E n : Does(t, d, n)
    BY <1>1, FindNewIs, CheckForPutIs, PutValueIs, ReserveIs, CountRemovedIs, GetValueIs, RemoveValueIs,
       CountAddedIs, DoneIs
  <2>2. pc'[t] \notin {"probe", "check", "value"} \/ request'[t].op \notin {"get", "rem"}
    <3>1. CASE FindNew(t) \/ CheckForPut(t) \/ PutValue(t)
      <4>1. request[t].op = "put" /\ request' = request
        BY <3>1, FindNewIs, CheckForPutIs, PutValueIs DEF Same
      <4> QED
        BY <4>1
    <3>2. CASE \/ Reserve(t) \/ CountRemoved(t) \/ GetValue(t) \/ RemoveValue(t) \/ CountAdded(t) \/ Done(t)
      BY <3>2, ReserveIs, CountRemovedIs, GetValueIs, RemoveValueIs, CountAddedIs, DoneIs
    <3> QED
      BY <1>1, <3>1, <3>2
  <2> QED
    BY <2>1, <2>2, SeenNothing, SeenStep
<1>2. CASE ClearKey(t)
  <2>1. Structure' /\ Does(t, Slot(Deleted, d.value), 0) /\ pc'[t] = "idle"
    BY <1>2, ClearKeyIs
  <2> QED
    BY <2>1, SlotParts, SeenNothing, SeenStep
<1>3. CASE CheckMoved(t)
  <2>1. /\ Structure' /\ pc'[t] \in {"fill", "rehash"}
        /\ Does(t, d, 0) \/ Does(t, Slot(Deleted, d.value), 0)
    BY <1>3, CheckMovedIs
  <2> QED
    BY <2>1, SlotParts, SeenNothing, SeenStep
<1>4. CASE FillValue(t)
  <2>1. /\ Structure' /\ pc'[t] \in {"increment", "rehash"} /\ request[t].value \in Values
        /\ Does(t, d, 0) \/ Does(t, Slot(d.key, request[t].value), 0)
    BY <1>4, FillValueIs
  <2> QED
    BY <2>1, SlotParts, SeenNothing, SeenStep
<1>5. CASE ClaimKey(t)
  <2>1. /\ Structure' /\ pc'[t] \in {"store", "rehash"}
        /\ Does(t, d, 0) \/ Does(t, Slot(Key(t), d.value), 0)
    BY <1>5, ClaimKeyIs
  <2> QED
    BY <2>1, SlotParts, SeenNothing, SeenStep
<1> QED
  BY <1>1, <1>2, <1>3, <1>4, <1>5

(* A rehash leaves a vector that somebody reads as it is, or marks it.     *)
LEMMA SeenRehash ==
  ASSUME Structure, Seen, Structure', Recorded, NEW t \in Threads,
         pc'[t] \notin {"probe", "check", "value"}, \A u \in Threads \ {t} : pc'[u] = pc[u],
         UNCHANGED <<my, request, address>>,
         \A u \in Threads : vector' = my[u].vector => vector = my[u].vector,
         \A v \in Vectors : (\E u \in Threads : Holds(u, v)) =>
             /\ (vectors[v].moved)' = vectors[v].moved
             /\ \A i \in 1..Size(v) : ValueAt(v, i)' \in {ValueAt(v, i), Rehashing}
  PROVE  Seen'
<1>1. ASSUME NEW u \in Threads \ {t}, pc[u] \in {"probe", "check", "value"} PROVE SeenAt(u)'
  <2>1. HandAt(u) /\ my[u].vector \in Vectors
    BY <1>1, HandIs DEF HandAt, AtSlot
  <2>2. PICK v \in Vectors : v = my[u].vector
    BY <2>1
  <2>3. PICK s \in Nat : s = my[u].slot
    BY HandIs
  <2>4. Holds(u, v)
    BY <2>2 DEF Holds
  <2>5. ASSUME pc[u] \in {"check", "value"}, s # 0, ValueAt(v, s)' \in {Free, Deleted}
        PROVE  ValueAt(v, s) \in {Free, Deleted}
    <3>1. s \in 1..Size(v)
      <4>1. v \in Vectors /\ Size(v) \in Nat
        BY UsedFinite
      <4> QED
        BY <2>1, <2>2, <2>3, <2>5, <4>1 DEF HandAt, AtSlot
    <3> QED
      BY <2>4, <2>5, <3>1, KeysAssumption
  <2>6. v = vector' => v = vector /\ (~(vectors[v].moved)' => ~vectors[v].moved)
    BY <2>2, <2>4
  <2> QED
    BY <2>2, <2>3, <2>5, <2>6, SeenKeeps
<1>2. ASSUME NEW u \in Threads, pc'[u] \notin {"probe", "check", "value"} PROVE SeenAt(u)'
  BY <1>2, SeenNothing
<1> QED
  BY <1>1, <1>2, RecordedIs DEF Seen

(* The steps of a rehash.                                                  *)
Rehash(t) ==
    \/ Lock(t) \/ Decide(t) \/ CountSlot(t) \/ MakeVector(t)
    \/ CopySlot(t) \/ PlaceEntry(t) \/ FinishCopy(t) \/ Install(t)

(* What a step of a rehash leaves alone.                                   *)
LEMMA RehashIs ==
  ASSUME Structure, NEW t \in Threads, Rehash(t)
  PROVE  /\ pc[t] \in {"rehash"} \cup Owning /\ pc'[t] \in Owning \cup {"retry", "error"}
         /\ \A u \in Threads \ {t} : pc'[u] = pc[u]
         /\ UNCHANGED <<my, request, address>> /\ answer' = NoAnswer
         /\ \A u \in Threads : vector' = my[u].vector => vector = my[u].vector
         /\ \A v \in Vectors : (\E u \in Threads : Holds(u, v)) =>
                /\ (vectors[v].moved)' = vectors[v].moved
                /\ \A i \in 1..Size(v) : ValueAt(v, i)' \in {ValueAt(v, i), Rehashing}
<1>1. ASSUME UNCHANGED <<vector, vectors, my, request, address>>, answer' = NoAnswer,
             pc[t] \in {"rehash"} \cup Owning,
             NEW p \in Owning \cup {"retry", "error"}, Goto(t, p)
      PROVE  /\ pc'[t] \in Owning \cup {"retry", "error"}
             /\ \A u \in Threads \ {t} : pc'[u] = pc[u]
             /\ \A u \in Threads : vector' = my[u].vector => vector = my[u].vector
             /\ \A v \in Vectors : /\ (vectors[v].moved)' = vectors[v].moved
                                   /\ \A i \in 1..Size(v) : ValueAt(v, i)' \in {ValueAt(v, i), Rehashing}
  BY <1>1, OthersStay DEF ValueAt
<1>2. CASE Lock(t)
  <2>1. pc[t] = "rehash" /\ Goto(t, "decide") /\ UNCHANGED <<vector, vectors, my, request, address>>
        /\ answer' = NoAnswer
    BY <1>2 DEF Lock, Keep, tableVars
  <2> QED
    BY <1>1, <2>1 DEF Owning
<1>3. CASE Decide(t)
  <2>1. /\ pc[t] = "decide" /\ UNCHANGED <<vector, vectors, my, request, address>> /\ answer' = NoAnswer
        /\ Goto(t, "count") \/ Goto(t, "retry")
    BY <1>3, DecideIs
  <2> QED
    BY <1>1, <2>1 DEF Owning
<1>4. CASE CountSlot(t)
  <2>1. /\ pc[t] = "count" /\ UNCHANGED <<vector, vectors, my, request, address, pc>> /\ answer' = NoAnswer
    BY <1>4 DEF CountSlot, Keep, tableVars, threadVars
  <2> QED
    BY <2>1 DEF Owning, ValueAt
<1>5. CASE MakeVector(t)
  <2>1. PICK new \in Vectors, size \in Nat :
          /\ vectors' = [vectors EXCEPT ![new] = NewVector(size)] /\ \A u \in Threads : ~Holds(u, new)
          /\ pc[t] = "count" /\ Goto(t, "copy") /\ UNCHANGED <<vector, address, request, my>>
          /\ answer' = NoAnswer
    BY <1>5, MakeVectorIs
  <2>2. \A v \in Vectors : v # new => vectors'[v] = vectors[v]
    BY <2>1 DEF Structure, Shape
  <2>3. pc'[t] = "copy" /\ \A u \in Threads \ {t} : pc'[u] = pc[u]
    BY <2>1, OthersStay
  <2> QED
    BY <2>1, <2>2, <2>3 DEF Owning, ValueAt
<1>6. CASE CopySlot(t)
  <2>1. PICK w \in Vectors : w = vector
    BY DEF Structure, Shape
  <2>2. /\ pc[t] = "copy" /\ (Goto(t, "place") \/ Goto(t, "copy"))
        /\ UNCHANGED <<vector, address, request, my>> /\ answer' = NoAnswer
        /\ \A v \in Vectors \ {w} : vectors'[v] = vectors[v]
        /\ (vectors[w].moved)' = vectors[w].moved
        /\ \A i \in 1..Size(w) : vectors'[w].slots[i] = vectors[w].slots[i]
                                 \/ \E k : vectors'[w].slots[i] = Slot(k, Rehashing)
    BY <1>6, <2>1, CopySlotIs
  <2>3. pc'[t] \in {"place", "copy"} /\ \A u \in Threads \ {t} : pc'[u] = pc[u]
    BY <2>2, OthersStay
  <2>4. \A i \in 1..Size(w) : ValueAt(w, i)' \in {ValueAt(w, i), Rehashing}
    BY <2>2, SlotParts DEF ValueAt
  <2>5. \A v \in Vectors : /\ (vectors[v].moved)' = vectors[v].moved
                           /\ \A i \in 1..Size(v) : ValueAt(v, i)' \in {ValueAt(v, i), Rehashing}
    BY <2>2, <2>4 DEF ValueAt
  <2> QED
    BY <2>2, <2>3, <2>5 DEF Owning
<1>7. CASE PlaceEntry(t) \/ FinishCopy(t)
  <2>1. /\ pc[t] \in {"place", "copy"} /\ (Goto(t, "copy") \/ Goto(t, "error") \/ Goto(t, "install"))
        /\ UNCHANGED <<vector, address, request, my>> /\ answer' = NoAnswer
    BY <1>7, PlaceEntryIs, FinishCopyIs
  <2>2. PICK w \in Vectors : w = copy.to /\ \A u \in Threads : ~Holds(u, w)
    BY <2>1, RehashParts DEF Copying
  <2>3. \A v \in Vectors \ {w} : vectors'[v] = vectors[v]
    BY <1>7, <2>2, PlaceEntryIs, FinishCopyIs DEF Structure, Shape
  <2>4. pc'[t] \in {"copy", "error", "install"} /\ \A u \in Threads \ {t} : pc'[u] = pc[u]
    BY <2>1, OthersStay
  <2> QED
    BY <2>1, <2>2, <2>3, <2>4 DEF Owning, ValueAt
<1>8. CASE Install(t)
  <2>1. /\ pc[t] = "install" /\ Goto(t, "retry") /\ vector' = copy.to
        /\ UNCHANGED <<address, request, my>> /\ answer' = NoAnswer
        /\ \A v \in Vectors : v # vector \/ (\E u \in Threads : Holds(u, v)) => vectors'[v] = vectors[v]
    BY <1>8, InstallIs
  <2>2. \A u \in Threads : ~Holds(u, copy.to)
    BY <2>1, RehashParts DEF Copying
  <2>3. pc'[t] = "retry" /\ \A u \in Threads \ {t} : pc'[u] = pc[u]
    BY <2>1, OthersStay
  <2> QED
    BY <2>1, <2>2, <2>3 DEF Owning, ValueAt, Holds
<1> QED
  BY <1>2, <1>3, <1>4, <1>5, <1>6, <1>7, <1>8 DEF Rehash

(* The collector moves a key that an unflagged vector does not have.       *)
LEMMA SeenCollect ==
  ASSUME Structure, Order, Stopped, Seen, Structure', Collect, Recorded
  PROVE  Seen'
<1>1. /\ UNCHANGED <<vector, pc, request, my>>
      /\ \A v \in Vectors : /\ vectors'[v].slots = vectors[v].slots
                            /\ vectors'[v].moved <=> vectors[v].moved \/ MovedIn(v)
  BY CollectIs
<1>2. Contents' = Contents
  BY MapCollect
<1>3. ASSUME NEW u \in Threads, Looking(u) PROVE SeenAt(u)'
  <2>1. PICK v \in {0} \cup Vectors : v = my[u].vector
    BY HandIs
  <2>2. PICK s \in Nat : s = my[u].slot
    BY HandIs
  <2>3. request[u] # Idle
    BY <1>3 DEF Looking, Idle
  <2>4. PICK k \in Keys : k = Key(u)
    BY <2>3, Asked DEF Structure
  <2>5. vector \in Vectors
    BY DEF Structure, Shape
  <2>6. v = vector' => v = vector /\ (~(vectors[v].moved)' => ~vectors[v].moved)
    BY <1>1, <2>5
  <2>7. ASSUME v = vector', ~(vectors[v].moved)', address'[k] # address[k] PROVE Contents'[k] = None
    <3>1. ~MovedIn(v) /\ v = vector
      BY <1>1, <2>5, <2>7
    <3>2. \A i \in 1..Size(vector) : KeyAt(vector, i) # k
      BY <2>7, <3>1 DEF MovedIn
    <3> QED
      BY <1>2, <3>2, AbsentIs
  <2>8. pc[u] \in {"check", "value"} /\ s # 0 => ValueAt(v, s)' = ValueAt(v, s)
    <3>1. HandAt(u)
      BY HandIs
    <3> QED
      BY <1>1, <2>1, <2>5, <3>1, HandIs DEF HandAt, AtSlot, ValueAt
  <2> QED
    BY <1>1, <2>1, <2>2, <2>4, <2>6, <2>7, <2>8, SeenKeeps
<1>4. ASSUME NEW u \in Threads, ~Looking(u) PROVE SeenAt(u)'
  BY <1>1, <1>4 DEF SeenAt, Looking, Changed
<1> QED
  BY <1>3, <1>4, RecordedIs DEF Seen

(* Nobody looks at anything at the beginning.                              *)
LEMMA InitSeen ==
  ASSUME Init
  PROVE  Seen
<1>1. \A t \in Threads : request[t] = Idle /\ history[t] = {}
  BY DEF Init
<1> QED
  BY <1>1 DEF Init, Seen, SeenAt, Looking, Idle

(* What the steps may not do for the table to be the map.                  *)
Alone ==
    \A t \in Threads : pc[t] = "swap" /\ pc'[t] = "done" => MySlot(t).key \in {Key(t), Deleted}

Unmisled ==
    \A t \in Threads :
        /\ request[t].op # "put" /\ pc[t] = "probe" /\ pc'[t] = "check"
        /\ my'[t].slot # 0 /\ StaleClaim(my[t].vector, my'[t].slot)
        => Contents[Key(t)] = None

(* Every step keeps what the operations have seen.                         *)
LEMMA NextSeen ==
  ASSUME Structure, Order, Stopped, Seen, Structure', Next, Alone, Unmisled
  PROVE  Seen'
<1>1. ASSUME Collect, Recorded PROVE Seen'
  BY <1>1, SeenCollect
<1>2. ASSUME NEW t \in Threads, Step(t) \/ Call(t), Recorded PROVE Seen'
  <2>1. CASE Rehash(t)
    <3>1. pc'[t] \notin {"probe", "check", "value"}
      BY <2>1, RehashIs DEF Owning
    <3> QED
      BY <1>2, <2>1, <3>1, RehashIs, SeenRehash
  <2>2. CASE Call(t) \/ Retry(t)
    BY <1>2, <2>2, SeenBegin
  <2>3. CASE Find(t)
    <3>1. my'[t].slot # 0 /\ StaleClaim(my[t].vector, my'[t].slot) => Contents[Key(t)] = None
      BY <2>3, FindIs DEF Unmisled
    <3> QED
      BY <1>2, <2>3, <3>1, SeenFind
  <2>4. CASE CheckFound(t)
    BY <1>2, <2>4, SeenCheck
  <2>5. CASE SwapValue(t)
    <3>1. pc'[t] = "done" => MySlot(t).key \in {Key(t), Deleted}
      BY <2>5, SwapValueIs DEF Alone
    <3> QED
      BY <1>2, <2>5, <3>1, SeenSwap
  <2>6. CASE \/ FindNew(t) \/ CheckForPut(t) \/ GetValue(t) \/ RemoveValue(t) \/ PutValue(t)
             \/ CountRemoved(t) \/ ClearKey(t) \/ CheckMoved(t) \/ FillValue(t) \/ CountAdded(t)
             \/ Done(t) \/ Reserve(t) \/ ClaimKey(t)
    BY <1>2, <2>6, SeenOperation
  <2> QED
    BY <1>2, <2>1, <2>2, <2>3, <2>4, <2>5, <2>6 DEF Step, Rehash
<1> QED
  BY <1>1, <1>2 DEF Next

-----------------------------------------------------------------------------
(* The steps of the table as steps of the map: a call, a change, a return, *)
(* and what is between them.                                               *)
LEMMA MapProceeds ==
  ASSUME Contents' = Contents, request' = request, Changed' = Changed, answer' = NoAnswer, Recorded
  PROVE  Map!Next
<1>1. Map!Proceed
  BY DEF Map!Proceed, Map!NoAnswer, NoAnswer
<1>2. Map!Recorded
  BY DEF Map!Recorded, Recorded
<1> QED
  BY <1>1, <1>2 DEF Map!Next

(* Where an operation has changed the map.                                 *)
Changing == {"increment", "decrement", "clear", "done"}

(* Who has changed the map, after a step of one thread.                    *)
LEMMA ChangedAfter ==
  ASSUME NEW t \in Threads, \A u \in Threads \ {t} : pc'[u] = pc[u]
  PROVE  /\ pc'[t] \in Changing => Changed' = Changed \cup {t}
         /\ pc'[t] \notin Changing => Changed' = Changed \ {t}
         /\ t \in Changed <=> pc[t] \in Changing
         /\ (pc'[t] \in Changing <=> pc[t] \in Changing) => Changed' = Changed
BY DEF Changed, Changing

(* An operation under way.                                                 *)
LEMMA Busy ==
  ASSUME Structure, NEW t \in Threads, pc[t] # "idle"
  PROVE  /\ request[t] # Idle /\ request[t] # Map!Idle /\ Key(t) \in Keys
         /\ request[t].op \in {"get", "rem", "put"}
         /\ request[t].op = "rem" => request[t].value = None
<1>1. request[t] # Idle
  BY HandIs DEF OpAt
<1> QED
  BY <1>1, Asked DEF Structure, Map!Idle, Idle

(* A change of the map.                                                    *)
LEMMA MapChanges ==
  ASSUME Structure, Recorded, NEW t \in Threads, pc[t] \notin Changing \cup {"idle"},
         request[t].op = "put" \/ (request[t].op = "rem" /\ Contents[Key(t)] # None),
         Contents' = [Contents EXCEPT ![Key(t)] = request[t].value],
         pc'[t] \in Changing, \A u \in Threads \ {t} : pc'[u] = pc[u],
         answer' = NoAnswer, request' = request
  PROVE  Map!Next
<1>1. t \notin Changed /\ Changed' = Changed \cup {t} /\ request[t] # Map!Idle
  BY ChangedAfter, Busy
<1>2. Map!Change(t)
  BY <1>1 DEF Map!Change, Map!Busy, Map!NoAnswer, NoAnswer, Key
<1>3. Map!Recorded
  BY DEF Map!Recorded, Recorded
<1> QED
  BY <1>2, <1>3 DEF Map!Next

(* A call.                                                                 *)
LEMMA MapCalls ==
  ASSUME Structure, Order, Stopped, Recorded, NEW t \in Threads, Call(t)
  PROVE  Map!Next
<1>1. PICK call \in Calls(t) : request' = [request EXCEPT ![t] = call]
  BY DEF Call
<1>2. /\ Structure' /\ Does(t, MySlot(t), 0) /\ pc[t] = "idle" /\ pc'[t] = "probe" /\ answer' = NoAnswer
  BY CallIs
<1>3. Contents' = Contents
  BY <1>2, ContentsKept
<1>4. request[t] = Map!Idle
  BY <1>2, HandIs DEF OpAt, Map!Idle, Idle
<1>5. \A u \in Threads \ {t} : pc'[u] = pc[u]
  BY <1>2, DoesAfter
<1>6. Changed' = Changed
  BY <1>2, <1>5, ChangedAfter DEF Changing
<1>7. call \in Map!Calls
  BY DEF Calls, Map!Calls
<1>8. Map!Call(t, call)
  BY <1>1, <1>2, <1>3, <1>4, <1>6 DEF Map!Call, Map!Busy, Map!NoAnswer, NoAnswer
<1>9. Map!Recorded
  BY DEF Map!Recorded, Recorded
<1> QED
  BY <1>7, <1>8, <1>9 DEF Map!Next

(* A return: the answer is one that the map allows.                        *)
LEMMA MapReturns ==
  ASSUME Structure, Structure', Seen, Recorded, NEW t \in Threads, pc[t] # "idle", pc'[t] = "idle",
         NEW c, NEW n, Does(t, c, n), Contents' = Contents, request'[t] = Idle,
         NEW x, answer' = [thread |-> t, value |-> x],
         \/ pc[t] \in Changing /\ x = "done"
         \/ pc[t] \notin Changing /\ request[t].op = "get" /\ x \in history[t]
         \/ pc[t] \notin Changing /\ request[t].op = "rem" /\ x = None /\ None \in history[t]
  PROVE  Map!Next
<1>1. request' = [request EXCEPT ![t] = Map!Idle]
  <2>1. request \in [Threads -> Requests] /\ request' \in [Threads -> Requests]
    BY DEF Structure, Shape
  <2>2. \A u \in Threads \ {t} : request'[u] = request[u]
    BY DoesAfter
  <2>3. Map!Idle = Idle
    BY DEF Map!Idle, Idle
  <2> QED
    BY <2>1, <2>2, <2>3
<1>2. \A u \in Threads \ {t} : pc'[u] = pc[u]
  BY DoesAfter
<1>3. Changed' = Changed \ {t} /\ (t \in Changed <=> pc[t] \in Changing)
  BY <1>2, ChangedAfter DEF Changing
<1>4. request[t] # Map!Idle
  BY Busy
<1>5. x \in Values \cup {None, "done"}
  BY DEF Seen
<1>6. (CASE t \in Changed -> x = "done"
      [] t \notin Changed /\ request[t].op = "get" -> x \in history[t]
      [] t \notin Changed /\ request[t].op = "rem" -> x = None /\ None \in history[t]
      [] OTHER -> FALSE)
  BY <1>3
<1>7. Map!Return(t, x)
  BY <1>1, <1>3, <1>4, <1>6 DEF Map!Return, Map!Busy
<1>8. Map!Recorded
  BY DEF Map!Recorded, Recorded
<1> QED
  BY <1>5, <1>7, <1>8 DEF Map!Next

(* A step between: the map stays, and nobody has changed it meanwhile.     *)
LEMMA MapWaits ==
  ASSUME Structure, Order, Stopped, Structure', Recorded, NEW t \in Threads, NEW c, NEW n, Does(t, c, n),
         c = MySlot(t) \/ (c.value \notin Values /\ MySlot(t).value \notin Values),
         request' = request, answer' = NoAnswer, pc'[t] \in Changing <=> pc[t] \in Changing
  PROVE  Map!Next
<1>1. Contents' = Contents
  BY ContentsKept
<1>2. \A u \in Threads \ {t} : pc'[u] = pc[u]
  BY DoesAfter
<1>3. Changed' = Changed
  BY <1>2, ChangedAfter
<1> QED
  BY <1>1, <1>3, MapProceeds

(* gethash returns what its slot holds, or what it has found not to be in  *)
(* the table.                                                              *)
LEMMA MapGet ==
  ASSUME Structure, Order, Stopped, Seen, Recorded, NEW t \in Threads, GetValue(t)
  PROVE  Map!Next
<1> DEFINE d == MySlot(t)
<1> DEFINE x == IF d.value \in {Deleted, Free} THEN None ELSE d.value
<1>1. /\ Structure' /\ Does(t, d, 0) /\ pc[t] = "value" /\ request[t].op = "get"
      /\ \/ pc'[t] = "rehash" /\ Same
         \/ /\ pc'[t] = "idle" /\ request'[t] = Idle /\ answer' = [thread |-> t, value |-> x]
            /\ d.value # Rehashing
  BY GetValueIs
<1>2. CASE pc'[t] = "rehash" /\ Same
  BY <1>1, <1>2, MapWaits DEF Same, Changing
<1>3. CASE pc'[t] = "idle" /\ request'[t] = Idle /\ answer' = [thread |-> t, value |-> x] /\ d.value # Rehashing
  <2>1. /\ my[t].vector \in Vectors /\ my[t].slot \in 1..Size(my[t].vector) /\ d \in Cells /\ Key(t) \in Keys
        /\ d.key = KeyAt(my[t].vector, my[t].slot) /\ d.value = ValueAt(my[t].vector, my[t].slot)
        /\ d.key = Deleted => d.value \notin Values
    BY <1>1, InHand DEF AtSlot
  <2>2. PICK v \in Vectors : v = my[t].vector
    BY <2>1
  <2>3. PICK s \in 1..Size(v) : s = my[t].slot
    BY <2>1, <2>2
  <2>4. s # 0 /\ Size(v) \in Nat
    BY <2>2, UsedFinite
  <2>5. t \notin Changed /\ Looking(t)
    BY <1>1 DEF Changed, Looking
  <2>6. SeenAt(t)
    BY DEF Seen
  <2>7. v = vector
    BY <1>3, <2>1, <2>2, <2>3, ValueHere DEF Holds
  <2>8. x \in history[t]
    <3>1. CASE d.value \in {Deleted, Free}
      BY <1>1, <2>1, <2>2, <2>3, <2>4, <2>5, <2>6, <3>1 DEF SeenAt
    <3>2. CASE d.value \notin {Deleted, Free}
      <4>1. d.value \in Values
        BY <1>3, <2>1, <3>2 DEF Cells
      <4>2. KeyAt(v, s) = Key(t)
        BY <1>1, <2>1, <2>2, <2>3, <2>4, <4>1, HandIs DEF CellAt
      <4>3. ~StaleClaim(v, s)
        BY <2>1, <2>2, <2>3, <4>1, StaleIs
      <4>4. Contents[Key(t)] = d.value
        BY <1>3, <2>1, <2>2, <2>3, <2>7, <4>1, <4>2, <4>3, SlotHas
      <4> QED
        BY <2>5, <2>6, <3>2, <4>4 DEF SeenAt
    <3> QED
      BY <3>1, <3>2
  <2>9. Contents' = Contents
    BY <1>1, ContentsKept
  <2> HIDE DEF x
  <2> QED
    BY <1>1, <1>3, <2>8, <2>9, MapReturns DEF Changing
<1> QED
  BY <1>1, <1>2, <1>3

(* remhash has found no value, or goes for the one that it saw.            *)
LEMMA MapRemove ==
  ASSUME Structure, Order, Stopped, Seen, Recorded, NEW t \in Threads, RemoveValue(t)
  PROVE  Map!Next
<1> DEFINE d == MySlot(t)
<1>1. /\ Structure' /\ Does(t, d, 0) /\ pc[t] = "value" /\ request[t].op = "rem"
      /\ \/ pc'[t] = "rehash" /\ Same
         \/ /\ pc'[t] = "idle" /\ request'[t] = Idle /\ answer' = [thread |-> t, value |-> None]
            /\ d.value \in {Deleted, Free} \/ d.key = Deleted
            /\ d.value # Rehashing
         \/ pc'[t] = "swap" /\ Same
  BY RemoveValueIs
<1>2. CASE pc'[t] \in {"rehash", "swap"} /\ Same
  BY <1>1, <1>2, MapWaits DEF Same, Changing
<1>3. CASE /\ pc'[t] = "idle" /\ request'[t] = Idle /\ answer' = [thread |-> t, value |-> None]
           /\ d.value \in {Deleted, Free} \/ d.key = Deleted
           /\ d.value # Rehashing
  <2>1. /\ d \in Cells /\ d.value = ValueAt(my[t].vector, my[t].slot)
        /\ d.key = Deleted => d.value \notin Values
        /\ my[t].slot \in 1..Size(my[t].vector) /\ my[t].vector \in Vectors
    BY <1>1, InHand DEF AtSlot
  <2>2. d.value \in {Deleted, Free}
    BY <1>3, <2>1 DEF Cells
  <2>3. my[t].slot # 0
    BY <2>1, UsedFinite
  <2>4. Looking(t) /\ SeenAt(t)
    BY <1>1 DEF Changed, Looking, Seen
  <2>5. None \in history[t]
    BY <1>1, <2>1, <2>2, <2>3, <2>4 DEF SeenAt
  <2>6. Contents' = Contents
    BY <1>1, ContentsKept
  <2> QED
    BY <1>1, <1>3, <2>5, <2>6, MapReturns DEF Changing
<1> QED
  BY <1>1, <1>2, <1>3

(* Nothing found, and no key has moved: the key was not there.             *)
LEMMA MapCheck ==
  ASSUME Structure, Order, Stopped, Seen, Recorded, NEW t \in Threads, CheckFound(t)
  PROVE  Map!Next
<1>1. /\ Structure' /\ Does(t, MySlot(t), 0) /\ pc[t] = "check" /\ request[t].op # "put"
      /\ \/ pc'[t] \in {"rehash", "value"} /\ Same
         \/ /\ pc'[t] = "idle" /\ request'[t] = Idle
            /\ my[t].vector = vector /\ my[t].slot = 0 /\ ~vectors[vector].moved
            /\ answer' = [thread |-> t, value |-> None]
  BY CheckFoundIs
<1>2. CASE pc'[t] \in {"rehash", "value"} /\ Same
  BY <1>1, <1>2, MapWaits DEF Same, Changing
<1>3. CASE /\ pc'[t] = "idle" /\ request'[t] = Idle
           /\ my[t].vector = vector /\ my[t].slot = 0 /\ ~vectors[vector].moved
           /\ answer' = [thread |-> t, value |-> None]
  <2>1. request[t].op \in {"get", "rem"}
    BY <1>1, Busy
  <2>2. Looking(t) /\ SeenAt(t)
    BY <1>1, <2>1 DEF Changed, Looking, Seen
  <2>3. None \in history[t]
    BY <1>1, <1>3, <2>2 DEF SeenAt
  <2>4. Contents' = Contents
    BY <1>1, ContentsKept
  <2> QED
    BY <1>1, <1>3, <2>1, <2>3, <2>4, MapReturns DEF Changing
<1> QED
  BY <1>1, <1>2, <1>3

(* A change that is made is answered "done".                               *)
LEMMA MapDone ==
  ASSUME Structure, Order, Stopped, Seen, Recorded, NEW t \in Threads,
         Done(t) \/ ClearKey(t) \/ CountAdded(t)
  PROVE  Map!Next
<1>1. /\ Structure' /\ pc[t] \in Changing /\ pc'[t] = "idle" /\ request'[t] = Idle
      /\ answer' = [thread |-> t, value |-> "done"]
  BY DoneIs, ClearKeyIs, CountAddedIs DEF Changing
<1>2. PICK c, n : /\ Does(t, c, n)
                  /\ c = MySlot(t) \/ (c.value \notin Values /\ MySlot(t).value \notin Values)
  <2>1. CASE Done(t)
    BY <2>1, DoneIs
  <2>2. CASE ClearKey(t)
    <3>1. Does(t, Slot(Deleted, MySlot(t).value), 0) /\ MySlot(t).value \in {Deleted, Rehashing}
      BY <2>2, ClearKeyIs
    <3> QED
      BY <3>1, SlotParts, KeysAssumption
  <2>3. CASE CountAdded(t)
    BY <2>3, CountAddedIs
  <2> QED
    BY <2>1, <2>2, <2>3
<1>3. Contents' = Contents
  BY <1>1, <1>2, ContentsKept
<1>4. pc[t] # "idle"
  BY <1>1 DEF Changing
<1> QED
  BY <1>1, <1>2, <1>3, <1>4, MapReturns

(* The two conditional stores of a value change the map.                   *)
LEMMA MapStores ==
  ASSUME Structure, Order, Stopped, Seen, Recorded, NEW t \in Threads, FillValue(t) \/ SwapValue(t), Alone
  PROVE  Map!Next
<1>1. \A u \in Threads \ {t} : pc'[u] = pc[u]
  BY FillValueIs, SwapValueIs, DoesAfter
<1>2. pc[t] \in {"fill", "swap"} /\ request' = request /\ answer' = NoAnswer
  BY FillValueIs, SwapValueIs DEF Same
<1>3. \/ pc'[t] = "rehash" /\ Contents' = Contents
      \/ /\ pc'[t] \in {"increment", "decrement", "done"}
         /\ Contents' = [Contents EXCEPT ![Key(t)] = request[t].value]
         /\ request[t].op = "put" \/ (request[t].op = "rem" /\ Contents[Key(t)] # None)
  <2>1. CASE FillValue(t)
    BY <2>1, MapFill, FillValueIs
  <2>2. CASE SwapValue(t)
    <3>1. pc'[t] = "done" => MySlot(t).key \in {Key(t), Deleted}
      BY <1>2, <2>2, SwapValueIs DEF Alone
    <3>2. request[t].op \in {"put", "rem"}
      BY <2>2, SwapValueIs, HandIs DEF OpAt
    <3> QED
      BY <2>2, <3>1, <3>2, MapSwap
  <2> QED
    BY <2>1, <2>2
<1>4. CASE pc'[t] = "rehash" /\ Contents' = Contents
  <2>1. Changed' = Changed
    BY <1>1, <1>2, <1>4, ChangedAfter DEF Changing
  <2> QED
    BY <1>2, <1>4, <2>1, MapProceeds
<1>5. CASE /\ pc'[t] \in {"increment", "decrement", "done"}
           /\ Contents' = [Contents EXCEPT ![Key(t)] = request[t].value]
           /\ request[t].op = "put" \/ (request[t].op = "rem" /\ Contents[Key(t)] # None)
  BY <1>1, <1>2, <1>5, MapChanges DEF Changing
<1> QED
  BY <1>3, <1>4, <1>5

(* The other steps of an operation are between.                            *)
LEMMA MapOperation ==
  ASSUME Structure, Order, Stopped, Recorded, NEW t \in Threads,
         \/ Retry(t) \/ FindNew(t) \/ Find(t) \/ CheckForPut(t) \/ PutValue(t) \/ CountRemoved(t)
         \/ Reserve(t) \/ ClaimKey(t) \/ CheckMoved(t)
  PROVE  Map!Next
<1> DEFINE d == MySlot(t)
<1>1. CASE \/ Retry(t) \/ FindNew(t) \/ Find(t) \/ CheckForPut(t) \/ PutValue(t) \/ CountRemoved(t)
           \/ Reserve(t)
  <2>1. Structure' /\ (\E n : Does(t, d, n)) /\ request' = request /\ answer' = NoAnswer
    BY <1>1, RetryIs, FindNewIs, FindIs, CheckForPutIs, PutValueIs, CountRemovedIs, ReserveIs DEF Same
  <2>2. pc'[t] \in Changing <=> pc[t] \in Changing
    BY <1>1, RetryIs, FindNewIs, FindIs, CheckForPutIs, PutValueIs, CountRemovedIs, ReserveIs DEF Changing
  <2> QED
    BY <2>1, <2>2, MapWaits
<1>2. CASE ClaimKey(t)
  <2>1. /\ Structure' /\ request' = request /\ answer' = NoAnswer /\ pc[t] = "claim"
        /\ pc'[t] \in {"rehash", "store"}
        /\ \/ Does(t, d, 0)
           \/ Does(t, Slot(Key(t), d.value), 0) /\ d.value \in {Free, Rehashing}
    BY <1>2, ClaimKeyIs DEF Same
  <2>2. pc'[t] \in Changing <=> pc[t] \in Changing
    BY <2>1 DEF Changing
  <2>3. \A k : d.value \in {Free, Rehashing} => Slot(k, d.value).value \notin Values /\ d.value \notin Values
    BY SlotParts, KeysAssumption
  <2> QED
    BY <2>1, <2>2, <2>3, MapWaits
<1>3. CASE CheckMoved(t)
  <2>1. /\ Structure' /\ request' = request /\ answer' = NoAnswer /\ pc[t] = "store"
        /\ pc'[t] \in {"rehash", "fill"}
        /\ \/ Does(t, d, 0)
           \/ Does(t, Slot(Deleted, d.value), 0) /\ d.value \in {Free, Rehashing}
    BY <1>3, CheckMovedIs DEF Same
  <2>2. pc'[t] \in Changing <=> pc[t] \in Changing
    BY <2>1 DEF Changing
  <2>3. \A k : d.value \in {Free, Rehashing} => Slot(k, d.value).value \notin Values /\ d.value \notin Values
    BY SlotParts, KeysAssumption
  <2> QED
    BY <2>1, <2>2, <2>3, MapWaits
<1> QED
  BY <1>1, <1>2, <1>3

(* A rehash is between all operations.                                     *)
LEMMA MapRehash ==
  ASSUME Structure, Order, Stopped, Structure', Recorded, NEW t \in Threads, Rehash(t)
  PROVE  Map!Next
<1>1. Contents' = Contents
  BY MapCount, MapMake, MapCopy, MapPlace, MapFinish, MapInstall DEF Rehash
<1>2. request' = request /\ answer' = NoAnswer /\ \A u \in Threads \ {t} : pc'[u] = pc[u]
  BY RehashIs
<1>3. pc[t] \notin Changing /\ pc'[t] \notin Changing
  BY RehashIs DEF Changing, Owning
<1>4. Changed' = Changed
  BY <1>2, <1>3, ChangedAfter
<1> QED
  BY <1>1, <1>2, <1>4, MapProceeds

(* Every step is one of the map.                                           *)
LEMMA MapNext ==
  ASSUME Structure, Order, Stopped, Seen, Structure', Next, Alone
  PROVE  Map!Next
<1>1. ASSUME Collect, Recorded PROVE Map!Next
  <2>1. request' = request /\ pc' = pc /\ answer' = NoAnswer /\ Contents' = Contents
    BY <1>1, CollectIs, MapCollect
  <2>2. Changed' = Changed
    BY <2>1 DEF Changed
  <2> QED
    BY <1>1, <2>1, <2>2, MapProceeds
<1>2. ASSUME NEW t \in Threads, Call(t), Recorded PROVE Map!Next
  BY <1>2, MapCalls
<1>3. ASSUME NEW t \in Threads, Step(t), Recorded PROVE Map!Next
  <2>1. CASE Rehash(t)
    BY <1>3, <2>1, MapRehash
  <2>2. CASE CheckFound(t) \/ GetValue(t) \/ RemoveValue(t)
    BY <1>3, <2>2, MapCheck, MapGet, MapRemove
  <2>3. CASE Done(t) \/ ClearKey(t) \/ CountAdded(t)
    BY <1>3, <2>3, MapDone
  <2>4. CASE FillValue(t) \/ SwapValue(t)
    BY <1>3, <2>4, MapStores
  <2>5. CASE \/ Retry(t) \/ FindNew(t) \/ Find(t) \/ CheckForPut(t) \/ PutValue(t) \/ CountRemoved(t)
             \/ Reserve(t) \/ ClaimKey(t) \/ CheckMoved(t)
    BY <1>3, <2>5, MapOperation
  <2> QED
    BY <1>3, <2>1, <2>2, <2>3, <2>4, <2>5 DEF Step, Rehash
<1> QED
  BY <1>1, <1>2, <1>3 DEF Next

(* A step in which nothing happens, of the map and of what it shows.       *)
LEMMA MapStutters ==
  ASSUME Structure, Seen, UNCHANGED vars
  PROVE  Seen' /\ UNCHANGED Map!vars
<1>1. UNCHANGED <<vector, vectors, copy, address, pc, my, request, history, answer>>
  BY DEF vars, tableVars, rehashVars, threadVars
<1>2. \A k \in Keys, x \in Values : Maps(k, x)' <=> Maps(k, x)
  BY <1>1 DEF Maps, In, KeyAt, ValueAt
<1>3. Contents' = Contents
  BY <1>2, SameContents
<1>4. Changed' = Changed
  BY <1>1 DEF Changed
<1>5. \A t \in Threads : SeenAt(t)'
  BY <1>1, <1>3, <1>4 DEF Seen, SeenAt, Looking, Key, ValueAt
<1> QED
  BY <1>1, <1>3, <1>4, <1>5 DEF Map!vars, Seen

(* The first contents are a map.                                           *)
LEMMA MapInit ==
  ASSUME Init
  PROVE  Map!Init
<1>1. Contents \in [Keys -> Values \cup {None}]
  BY ContentsType
<1>2. /\ request = [t \in Threads |-> Idle] /\ history = [t \in Threads |-> {}] /\ answer = NoAnswer
      /\ pc = [t \in Threads |-> "idle"]
  BY DEF Init
<1>3. Changed = {}
  BY <1>2 DEF Changed
<1> QED
  BY <1>1, <1>2, <1>3 DEF Map!Init, Map!Idle, Map!NoAnswer, Idle, NoAnswer

(* What the steps keep, all of it together.                                *)
Inv == Structure /\ Order /\ Stopped /\ Seen

LEMMA StepsOfMap ==
  ASSUME ~CollectInWindow, Inv, [Next]_vars, [Alone]_vars, [Unmisled]_vars
  PROVE  Inv' /\ [Map!Next]_Map!vars /\ (UNCHANGED vars \/ (Next /\ Map!Next))
<1> USE DEF Inv
<1>1. Structure' /\ Order' /\ Stopped'
  BY NextStructure, NextOrder, NextStopped
<1>2. ASSUME UNCHANGED vars PROVE Seen' /\ [Map!Next]_Map!vars
  BY <1>2, MapStutters
<1>3. ASSUME Next, Alone, Unmisled PROVE Seen' /\ Map!Next
  BY <1>1, <1>3, NextSeen, MapNext
<1> QED
  BY <1>1, <1>2, <1>3

(* The table is the shared map: every operation takes effect at one        *)
(* instant between its call and its return, whoever else stores, removes,  *)
(* copies the table or moves keys.  It is so if the collector does not     *)
(* come between the hashing and the store of a key, as long as puthash     *)
(* replaces no other key's value and no lookup takes a claim that will be  *)
(* given up for its key's slot.                                            *)
THEOREM TableIsMap ==
  ~CollectInWindow => (Spec /\ OthersKeepTheirValue /\ ClaimsMisleadNobody => ImplementsMap)
<1> SUFFICES ASSUME ~CollectInWindow
             PROVE  Spec /\ OthersKeepTheirValue /\ ClaimsMisleadNobody => ImplementsMap
  OBVIOUS
<1>1. Init => Inv /\ Map!Init
  BY InitStructure, InitOrder, InitStopped, InitSeen, MapInit DEF Inv
<1>2. Inv /\ [Next]_vars /\ [Alone]_vars /\ [Unmisled]_vars => Inv' /\ [Map!Next]_Map!vars
  BY StepsOfMap
<1>3. OthersKeepTheirValue <=> [][Alone]_vars
  BY DEF OthersKeepTheirValue, Alone
<1>4. ClaimsMisleadNobody <=> [][Unmisled]_vars
  BY DEF ClaimsMisleadNobody, Unmisled
<1> QED
  BY <1>1, <1>2, <1>3, <1>4, PTL DEF Spec, ImplementsMap, Map!Spec

(* A lookup that returns returns what the table held at some moment of the *)
(* call, in every step that is one of the map.                             *)
LEMMA LookupReturns ==
  ASSUME Structure, Next, Map!Next, NEW t \in Threads, request[t].op = "get", request'[t] = Idle
  PROVE  answer'.value \in history[t]
<1>1. request[t] # Map!Idle /\ request'[t] # request[t] /\ t \notin Changed
  BY HandIs DEF Idle, Map!Idle, OpAt, Changed
<1>2. ~Map!Proceed /\ \A u \in Threads : ~Map!Change(u)
  BY <1>1 DEF Map!Proceed, Map!Change
<1>3. ASSUME NEW u \in Threads, NEW call, Map!Call(u, call) PROVE FALSE
  <2>1. request' = [request EXCEPT ![u] = call] /\ request[u] = Map!Idle
    BY <1>3 DEF Map!Call, Map!Busy
  <2> QED
    BY <1>1, <2>1
<1>4. PICK u \in Threads, x \in Values \cup {None, "done"} : Map!Return(u, x)
  BY <1>2, <1>3 DEF Map!Next
<1>5. u = t
  <2>1. request' = [request EXCEPT ![u] = Map!Idle]
    BY <1>4 DEF Map!Return
  <2> QED
    BY <1>1, <2>1
<1>6. (CASE t \in Changed -> x = "done"
      [] t \notin Changed /\ request[t].op = "get" -> x \in history[t]
      [] t \notin Changed /\ request[t].op = "rem" -> x = None /\ None \in history[t]
      [] OTHER -> FALSE)
  BY <1>4, <1>5 DEF Map!Return
<1>7. x \in history[t]
  BY <1>1, <1>6
<1>8. answer' = [thread |-> t, value |-> x]
  BY <1>4, <1>5 DEF Map!Return
<1> QED
  BY <1>7, <1>8

(* No entry is lost: what gethash returns the table held at some moment of *)
(* the call, under the same conditions.                                    *)
THEOREM EntriesStay ==
  ~CollectInWindow => (Spec /\ OthersKeepTheirValue /\ ClaimsMisleadNobody => NothingLost)
<1> SUFFICES ASSUME ~CollectInWindow
             PROVE  Spec /\ OthersKeepTheirValue /\ ClaimsMisleadNobody => NothingLost
  OBVIOUS
<1> DEFINE Found == \A t \in Threads :
                        request[t].op = "get" /\ request'[t] = Idle => answer'.value \in history[t]
<1>1. Init => Inv
  BY InitStructure, InitOrder, InitStopped, InitSeen DEF Inv
<1>2. Inv /\ [Next]_vars /\ [Alone]_vars /\ [Unmisled]_vars => Inv' /\ [Found]_vars
  <2>1. ASSUME Inv, Next, Map!Next PROVE Found
    BY <2>1, LookupReturns DEF Inv
  <2> QED
    BY <2>1, StepsOfMap
<1>3. OthersKeepTheirValue <=> [][Alone]_vars
  BY DEF OthersKeepTheirValue, Alone
<1>4. ClaimsMisleadNobody <=> [][Unmisled]_vars
  BY DEF ClaimsMisleadNobody, Unmisled
<1>5. NothingLost <=> [][Found]_vars
  BY DEF NothingLost
<1> HIDE DEF Found
<1> QED
  BY <1>1, <1>2, <1>3, <1>4, <1>5, PTL DEF Spec
=============================================================================
