----------------------------- MODULE LockedHash -----------------------------
(***************************************************************************)
(* The locked hash tables of level-0/l0-hash.lisp, with address-based      *)
(* keys: gethash takes the table's read-write lock for reading and has it  *)
(* promoted when the keys that the collector moved must be rehashed;       *)
(* puthash, remhash and clrhash take it for writing.  An operation that    *)
(* depends on addresses keeps the collector out by the inhibit count; the  *)
(* growth of the vector does not.                                          *)
(*                                                                         *)
(* The vector that growth replaces is zeroed.  A reader that waits for its *)
(* promotion may still hold it.                                            *)
(***************************************************************************)
EXTENDS Probing, FiniteSets, Functions

CONSTANTS
    Putters, Removers, Clearers, Readers,  \* who calls puthash, remhash, ...
    Keys, Values,
    None,                         \* nil
    Free, Deleted,                \* free-hash-marker, deleted-hash-key-marker
    Zero,                         \* what %init-misc leaves in a vector
    MinSize, RehashSize, Slack,   \* as in LockFreeHash
    MaxAddress,                   \* bound: addresses of keys, so of moves
    MaxCalls,                     \* bound: operations called
    PromotedFirst,                \* does a reader that waits for its promotion
                                  \* get the lock before a putter that will grow
    CollectInWindow               \* may the collector run between hashing a key
                                  \* and storing it, during growth

ASSUME SizesAssumption ==
    /\ MinSize \in Nat \ {0} /\ RehashSize \in Nat /\ Slack \in Nat \ {0, 1}
    /\ MaxAddress \in Nat \ {0} /\ MaxCalls \in Nat
    /\ PromotedFirst \in BOOLEAN /\ CollectInWindow \in BOOLEAN

Consed == (MaxAddress - Cardinality(Keys) + 1)..MaxAddress
SomeValue == CHOOSE x \in Values : TRUE
Threads == Putters \cup Removers \cup Clearers \cup Readers

(* A key is none of the words that mark a slot, and addresses are enough.  *)
ASSUME KeysAssumption ==
    /\ IsFiniteSet(Keys) /\ IsFiniteSet(Threads) /\ Values # {}
    /\ None \notin Threads \cup Keys \cup Values
    /\ {Free, Deleted, Zero} \cap (Keys \cup Values) = {}
    /\ Free # Deleted /\ Free # Zero /\ Deleted # Zero
    /\ \E a \in [Keys -> Consed] : \A j, k \in Keys : j # k => a[j] # a[k]

VARIABLES
    vector,     \* nhash.vector, the number of a vector
    vectors,    \* the vectors: slots, key-moved flag, counts, cached slot
    threshold,  \* nhash.grow-threshold
    lock,       \* nhash.exclusion-lock: its readers and its writer
    inhibited,  \* gc-inhibit-count
    work,       \* the locals of %rehash or of %grow-hash-table
    address,    \* of each key: the collector's
    pc, request,\* of each thread
    my,         \* each thread's vector, times it inhibited the collector, result
    answer,     \* what the last step returned: thread and value, if it did
    calls,      \* operations called so far
    changed,    \* history: threads whose operation has changed the table
    history     \* history: what the table held for the key during the call

tableVars == <<vector, vectors, threshold>>
threadVars == <<request, calls, changed>>
vars == <<tableVars, lock, inhibited, work, address, pc, my, answer, threadVars, history>>

Vectors == 1..Cardinality(Readers) + 2

Idle == [op |-> "idle", key |-> None, value |-> None]
NoAnswer == [thread |-> None, value |-> None]
NoLocals == [vector |-> 0, inhibits |-> 0, result |-> None]

(* A slot in hand: what it held, where it was, and where it hashed to.     *)
Empty == [key |-> None, value |-> None, from |-> 0, to |-> 0]
NoWork == [to |-> 0, index |-> 0, done |-> {}, hand |-> Empty, back |-> "none"]

Slot(key, value) == [key |-> key, value |-> value]
NoCache == [key |-> Free, value |-> None, slot |-> 0]
Unused == [slots |-> <<>>, moved |-> FALSE, count |-> 0, deleted |-> 0,
           cached |-> NoCache]
NewVector(size) == [Unused EXCEPT !.slots = [i \in 1..(size + Slack) |-> Slot(Free, Free)]]

(* %init-misc: every word of the old vector, its header's as well.         *)
Zeroed(v) == [Unused EXCEPT !.slots = [i \in DOMAIN vectors[v].slots |-> Slot(Zero, Zero)]]

NewSize(count) == Max({MinSize, MoreThan(count, RehashSize)})

-----------------------------------------------------------------------------
Vector == vectors[vector]
Slots == Vector.slots
Entries(slots) == {i \in DOMAIN slots : slots[i].key \in Keys}

(* A walk from the address of a key finds the key's one entry.             *)
InOrder(slots) ==
    \A i \in Entries(slots) :
        Probe(slots, address[slots[i].key], {Free, slots[i].key}) = i

(* Earlier operations have stored some entries in the first vector.  The   *)
(* keys were consed one after another.                                     *)
Init ==
    /\ vector = 1
    /\ address = CHOOSE a \in [Keys -> Consed] : \A j, k \in Keys : j # k => a[j] # a[k]
    /\ \E slots \in [1..MinSize + Slack ->
                       {Slot(Free, Free)} \cup {Slot(k, SomeValue) : k \in Keys}] :
           /\ InOrder(slots) /\ Cardinality(Entries(slots)) <= MinSize
           /\ vectors = [v \in Vectors |->
                  IF v # 1 THEN Unused
                  ELSE [Unused EXCEPT !.slots = slots, !.count = Cardinality(Entries(slots))]]
           /\ threshold = MinSize - Cardinality(Entries(slots))
    /\ lock = [readers |-> {}, writer |-> None]
    /\ inhibited = 0 /\ work = NoWork
    /\ pc = [t \in Threads |-> "idle"] /\ my = [t \in Threads |-> NoLocals]
    /\ request = [t \in Threads |-> Idle] /\ answer = NoAnswer /\ calls = 0
    /\ changed = {} /\ history = [t \in Threads |-> {}]

(* What the table holds: in its vector, or in the hand of its rehasher.    *)
Reached == Range(Slots) \cup {Slot(work.hand.key, work.hand.value)}
Held(k) == {s.value : s \in {r \in Reached : r.key = k}} \cap Values
Contents == [k \in Keys |-> IF Held(k) = {} THEN None ELSE CHOOSE v \in Held(k) : TRUE]

Goto(t, point) == pc' = [pc EXCEPT ![t] = point]
Keep(others) == UNCHANGED others /\ answer' = NoAnswer

(* A step of the thread that has the table for itself.                     *)
Update(t, table, point) ==
    /\ vectors' = [vectors EXCEPT ![vector] = table]
    /\ Goto(t, point)
    /\ Keep(<<vector, lock, inhibited, address, request, calls, my>>)

-----------------------------------------------------------------------------
Calls(t) ==
    [op : {"get"}, key : IF t \in Readers THEN Keys ELSE {}, value : {None}]
      \cup [op : {"rem"}, key : IF t \in Removers THEN Keys ELSE {}, value : {None}]
      \cup [op : {"put"}, key : IF t \in Putters THEN Keys ELSE {}, value : Values]
      \cup (IF t \in Clearers THEN {[op |-> "clr", key |-> None, value |-> None]} ELSE {})

Call(t) ==
    /\ pc[t] = "idle" /\ calls < MaxCalls
    /\ \E call \in Calls(t) :
           /\ request' = [request EXCEPT ![t] = call]
           /\ Goto(t, IF call.op = "get" THEN "read" ELSE "write")
    /\ calls' = calls + 1
    /\ Keep(<<tableVars, lock, inhibited, work, address, my, changed>>)

LockIsFree == lock = [readers |-> {}, writer |-> None]

(* read-lock-hash-table; the vector is read once, and its cache is tried.  *)
ReadLock(t) ==
    LET hit == Vector.cached.key = request[t].key IN
    /\ pc[t] = "read" /\ lock.writer = None
    /\ lock' = [lock EXCEPT !.readers = @ \cup {t}]
    /\ my' = [my EXCEPT ![t].vector = vector,
                        ![t].result = IF hit THEN Vector.cached.value ELSE None]
    /\ Goto(t, IF hit THEN "enable" ELSE "find")
    /\ Keep(<<tableVars, inhibited, work, address, threadVars>>)

Waiting == {t \in Threads : pc[t] = "wait"}

(* A writer locks the table, whoever waits for a promotion.                *)
WriteLock(t) ==
    /\ pc[t] = "write" /\ LockIsFree
    /\ PromotedFirst /\ Waiting # {} => ~(request[t].op = "put" /\ threshold = 0)
    /\ lock' = [lock EXCEPT !.writer = t]
    /\ Goto(t, IF request[t].op = "clr" THEN "clear" ELSE "inhibit")
    /\ Keep(<<tableVars, inhibited, work, address, my, threadVars>>)

(* %lock-gc-lock, and how often this operation has taken it.               *)
Inhibit(t, point) ==
    /\ inhibited' = inhibited + 1
    /\ my' = [my EXCEPT ![t].inhibits = @ + 1]
    /\ Goto(t, point)
    /\ Keep(<<tableVars, lock, work, address, threadVars>>)

InhibitGC(t) ==
    /\ pc[t] = "inhibit"
    /\ Inhibit(t, IF request[t].op = "get" THEN "promote" ELSE "test")

-----------------------------------------------------------------------------
(* What gethash reads at a slot of the vector it holds.  Past its end is   *)
(* some other object.                                                      *)
ValuesAt(v, slot) ==
    IF slot \in DOMAIN vectors[v].slots THEN {vectors[v].slots[slot].value}
    ELSE Values \cup {Zero}

MutantTrustsMoved(v) == FALSE
NeedsRehashing(v) == vectors[v].moved

(* nhash.find walks the table's vector; the value is read from the vector  *)
(* that gethash holds.  A collection between hashing the key and the test  *)
(* of the flag sends it round once more, or changes nothing.               *)
Find(t) ==
    LET key == request[t].key
        slot == Probe(Slots, address[key], {Free, key})
    IN
    /\ pc[t] = "find"
    /\ IF slot # 0 /\ Slots[slot].key = key
         THEN /\ \E value \in ValuesAt(my[t].vector, slot) :
                     my' = [my EXCEPT ![t].result = value]
              /\ Goto(t, "enable")
         ELSE /\ Goto(t, IF NeedsRehashing(my[t].vector) THEN "inhibit" ELSE "enable")
              /\ UNCHANGED my
    /\ Keep(<<tableVars, lock, inhibited, work, address, threadVars>>)

(* %promote-rwlock: the only reader becomes the writer; one of several     *)
(* releases the lock and waits for it.                                     *)
Reading(t) == [readers |-> {t}, writer |-> None]
Writing(t) == [readers |-> {}, writer |-> t]

PromoteAlone(t) ==
    /\ pc[t] = "promote" /\ lock \in {Reading(t), Writing(t)}
    /\ lock' = Writing(t)
    /\ Goto(t, "test")
    /\ Keep(<<tableVars, inhibited, work, address, my, threadVars>>)

MutantKeepsReading(t) ==
    /\ pc[t] = "promote" /\ lock \notin {Reading(t), Writing(t)}
    /\ Goto(t, "wait")
    /\ Keep(<<tableVars, lock, inhibited, work, address, my, threadVars>>)
ReleaseToPromote(t) ==
    /\ pc[t] = "promote" /\ lock \notin {Reading(t), Writing(t)}
    /\ lock' = [lock EXCEPT !.readers = @ \ {t}]
    /\ Goto(t, "wait")
    /\ Keep(<<tableVars, inhibited, work, address, my, threadVars>>)

Promoted(t) ==
    /\ pc[t] = "wait" /\ LockIsFree
    /\ lock' = [lock EXCEPT !.writer = t]
    /\ Goto(t, "test")
    /\ Keep(<<tableVars, inhibited, work, address, my, threadVars>>)

-----------------------------------------------------------------------------
(* %rehash, in place: the flag and the cache are cleared, and every entry  *)
(* goes to the first slot on its way that no rehashed entry has.           *)
MutantKeepsFlag(t, back) ==
    /\ work' = [NoWork EXCEPT !.index = 1, !.back = back]
    /\ Update(t, [Vector EXCEPT !.cached = NoCache], "rehash")
    /\ UNCHANGED <<threshold, changed>>
StartRehash(t, back) ==
    /\ work' = [NoWork EXCEPT !.index = 1, !.back = back]
    /\ Update(t, [Vector EXCEPT !.moved = FALSE, !.cached = NoCache], "rehash")
    /\ UNCHANGED <<threshold, changed>>

AfterTest(t) == IF request[t].op = "get" THEN "find" ELSE request[t].op

(* puthash and remhash read the vector here, gethash has read it before.   *)
Test(t) ==
    /\ pc[t] = "test"
    /\ IF NeedsRehashing(IF request[t].op = "get" THEN my[t].vector ELSE vector)
         THEN StartRehash(t, AfterTest(t))
         ELSE /\ Goto(t, AfterTest(t))
              /\ Keep(<<tableVars, lock, inhibited, work, address, my, threadVars>>)

MutantProbe(slots, key, done) == Probe(slots, address[key], {Free, key})
RehashProbe(slots, key, done) ==
    LET open == {i \in 0..Len(slots) - 1 :
                     LET s == At(slots, address[key], i) IN s \notin done \/ slots[s].key = key}
    IN  At(slots, address[key], Min(open))

(* A key in hand, and where it goes.                                       *)
InHand(slots, i, done) ==
    [key |-> slots[i].key, value |-> slots[i].value, from |-> i,
     to |-> RehashProbe(slots, slots[i].key, done)]

RehashSlot(t) ==
    LET i == work.index
        key == Slots[i].key
        hand == InHand(Slots, i, work.done)
        deleted == key = Deleted /\ i \notin work.done
    IN
    /\ pc[t] = "rehash" /\ i <= Len(Slots)
    /\ IF key \in Keys /\ i \notin work.done
         THEN /\ work' = [work EXCEPT !.hand = hand, !.done = @ \cup {hand.to}]
              /\ UNCHANGED threshold
              /\ Update(t, Vector, "displace")
         ELSE /\ work' = [work EXCEPT !.index = @ + 1]
              /\ threshold' = threshold + IF deleted THEN 1 ELSE 0
              /\ Update(t, IF ~deleted THEN Vector
                           ELSE [Vector EXCEPT !.deleted = @ - 1, !.slots[i].key = Free],
                        "rehash")
    /\ UNCHANGED changed

(* The entry that was in the slot goes on in its turn.                     *)
Displace(t) ==
    LET hand == work.hand
        other == Slots[hand.to]
        left == IF hand.from = work.index THEN [Slots EXCEPT ![hand.from] = Slot(Free, Free)] ELSE Slots
        slots == [left EXCEPT ![hand.to] = Slot(hand.key, hand.value)]
        next == [InHand(Slots, hand.to, work.done) EXCEPT
                     !.to = RehashProbe(slots, other.key, work.done)]
        reused == IF other.key = Deleted THEN 1 ELSE 0
    IN
    /\ pc[t] = "displace"
    /\ IF hand.to # hand.from /\ other.key \in Keys
         THEN /\ work' = [work EXCEPT !.hand = next, !.done = @ \cup {next.to}]
              /\ Update(t, [Vector EXCEPT !.slots = slots], "displace")
              /\ UNCHANGED threshold
         ELSE /\ work' = [work EXCEPT !.hand = Empty, !.index = @ + 1]
              /\ Update(t, IF hand.to = hand.from THEN Vector
                           ELSE [Vector EXCEPT !.slots = slots, !.deleted = @ - reused],
                        "rehash")
              /\ threshold' = threshold + reused
    /\ UNCHANGED changed

EndRehash(t) ==
    /\ pc[t] = "rehash" /\ work.index > Len(Slots)
    /\ work' = NoWork
    /\ Goto(t, work.back)
    /\ Keep(<<tableVars, lock, inhibited, address, my, threadVars>>)

-----------------------------------------------------------------------------
(* nhash.find-new: the key, or else the first deleted slot on the way to a *)
(* free one.                                                               *)
FindNew(key) ==
    LET end == Probe(Slots, address[key], {Free, key})
    IN  IF end # 0 /\ Slots[end].key = key THEN end
        ELSE Probe(Slots, address[key], {Free, Deleted})

HasRoom(slot) == Slots[slot].key = Free => threshold > 0

PutSlot(key) == IF Vector.cached.key = key THEN Vector.cached.slot ELSE FindNew(key)

(* The rest of puthash: a free slot costs room, a deleted one does not.    *)
Put(t) ==
    LET call == request[t]
        slot == PutSlot(call.key)
        was == Slots[slot].key
    IN
    /\ pc[t] = "put" /\ slot # 0 /\ HasRoom(slot)
    /\ threshold' = threshold - IF was = Free THEN 1 ELSE 0
    /\ changed' = changed \cup {t}
    /\ Update(t, [Vector EXCEPT
                     !.slots[slot] = Slot(call.key, call.value),
                     !.count = @ + IF was = call.key THEN 0 ELSE 1,
                     !.deleted = @ - IF was = Deleted THEN 1 ELSE 0,
                     !.cached = [key |-> call.key, value |-> call.value, slot |-> slot]],
              "enable")
    /\ UNCHANGED work

(* remhash: the slot is deleted and the cache cleared.                     *)
Remove(t) ==
    LET key == request[t].key
        walk == Probe(Slots, address[key], {Free, key})
        slot == IF Vector.cached.key = key THEN Vector.cached.slot ELSE walk
    IN
    /\ pc[t] = "rem"
    /\ IF slot # 0 /\ Slots[slot].key = key
         THEN /\ changed' = changed \cup {t}
              /\ Update(t, [Vector EXCEPT !.slots[slot] = Slot(Deleted, None),
                                          !.count = @ - 1, !.deleted = @ + 1,
                                          !.cached = NoCache], "enable")
         ELSE UNCHANGED changed /\ Update(t, Vector, "enable")
    /\ UNCHANGED <<threshold, work>>

(* clrhash: without the inhibit count.                                     *)
RoomAfterClear == threshold + Vector.count + Vector.deleted

Clear(t) ==
    /\ pc[t] = "clear"
    /\ threshold' = RoomAfterClear
    /\ changed' = changed \cup {t}
    /\ Update(t, [Unused EXCEPT !.slots = [i \in DOMAIN Slots |-> Slot(Free, Free)]], "enable")
    /\ UNCHANGED work

-----------------------------------------------------------------------------
(* puthash lets the collector in while it grows the table, and starts over.*)
LetIn(t) ==
    /\ inhibited' = inhibited - 1
    /\ my' = [my EXCEPT ![t].inhibits = @ - 1]

PutNeedsRoom(t) ==
    /\ pc[t] = "put" /\ PutSlot(request[t].key) # 0 /\ ~HasRoom(PutSlot(request[t].key))
    /\ LetIn(t)
    /\ Goto(t, "grow")
    /\ Keep(<<tableVars, lock, work, address, threadVars>>)

(* %grow-hash-table-in-place-p                                             *)
GrowInPlace == Vector.deleted > Vector.count \div 2

Grow(t) ==
    LET new == Min({v \in Vectors : vectors[v] = Unused}) IN
    /\ pc[t] = "grow"
    /\ IF GrowInPlace THEN StartRehash(t, "inhibit")
       ELSE /\ vectors' = [vectors EXCEPT ![new] = NewVector(NewSize(Vector.count))]
            /\ work' = [NoWork EXCEPT !.to = new, !.index = 1]
            /\ Goto(t, "copy")
            /\ Keep(<<vector, threshold, lock, inhibited, address, my, threadVars>>)

(* The key is hashed, and then stored where it hashed to.                  *)
CopySlot(t) ==
    LET slot == Slots[work.index]
        to == Probe(vectors[work.to].slots, address[slot.key], {Free, Deleted})
    IN
    /\ pc[t] = "copy" /\ work.index <= Len(Slots)
    /\ IF slot.key \in Keys
         THEN /\ work' = [work EXCEPT !.hand = [key |-> slot.key, value |-> slot.value,
                                                from |-> work.index, to |-> to]]
              /\ Goto(t, "place")
         ELSE work' = [work EXCEPT !.index = @ + 1] /\ UNCHANGED pc
    /\ Keep(<<tableVars, lock, inhibited, address, my, threadVars>>)

PlaceEntry(t) ==
    /\ pc[t] = "place"
    /\ vectors' = [vectors EXCEPT ![work.to].slots[work.hand.to] =
                                      Slot(work.hand.key, work.hand.value)]
    /\ work' = [work EXCEPT !.hand = Empty, !.index = @ + 1]
    /\ Goto(t, "copy")
    /\ Keep(<<vector, threshold, lock, inhibited, address, my, threadVars>>)

(* The old vector is zeroed; it is garbage unless a reader still has it.   *)
HeldBy(v, others) == \E u \in others : my[u].vector = v

Install(t) ==
    /\ pc[t] = "copy" /\ work.index > Len(Slots)
    /\ vector' = work.to
    /\ vectors' = [vectors EXCEPT ![work.to].count = Vector.count,
                                  ![vector] = IF HeldBy(vector, Threads) THEN Zeroed(vector)
                                              ELSE Unused]
    /\ threshold' = NewSize(Vector.count) - Vector.count
    /\ work' = NoWork
    /\ Goto(t, "inhibit")
    /\ Keep(<<lock, inhibited, address, my, threadVars>>)

-----------------------------------------------------------------------------
(* The end of every operation: %unlock-gc-lock if it was taken, the lock.  *)
EnableGC(t) ==
    /\ pc[t] = "enable"
    /\ IF my[t].inhibits > 0 THEN LetIn(t) ELSE UNCHANGED <<inhibited, my>>
    /\ Goto(t, "unlock")
    /\ Keep(<<tableVars, lock, work, address, threadVars>>)

Unlock(t) ==
    LET v == my[t].vector IN
    /\ pc[t] = "unlock"
    /\ lock' = [readers |-> lock.readers \ {t}, writer |-> IF lock.writer = t THEN None ELSE lock.writer]
    /\ vectors' = IF v \in {0, vector} \/ HeldBy(v, Threads \ {t}) THEN vectors
                  ELSE [vectors EXCEPT ![v] = Unused]
    /\ answer' = [thread |-> t, value |-> IF t \in changed THEN "done" ELSE my[t].result]
    /\ my' = [my EXCEPT ![t] = NoLocals]
    /\ request' = [request EXCEPT ![t] = Idle]
    /\ changed' = changed \ {t}
    /\ Goto(t, "idle")
    /\ UNCHANGED <<vector, threshold, inhibited, work, address, calls>>

(* The collector compacts when nobody inhibits it: keys move down, and a   *)
(* vector that holds one that moved is flagged.                            *)
Collect ==
    /\ inhibited = 0
    /\ CollectInWindow \/ \A t \in Threads : pc[t] \notin {"place", "displace"}
    /\ \E new \in [Keys -> 1..MaxAddress] :
           /\ new # address
           /\ \A k \in Keys : new[k] <= address[k]
           /\ \A j, k \in Keys : address[j] < address[k] => new[j] < new[k]
           /\ address' = new
           /\ vectors' = [v \in Vectors |-> [vectors[v] EXCEPT !.moved =
                  @ \/ \E i \in Entries(vectors[v].slots) :
                           LET key == vectors[v].slots[i].key IN new[key] # address[key]]]
    /\ Keep(<<vector, threshold, lock, inhibited, work, pc, my, threadVars>>)

-----------------------------------------------------------------------------
Recorded ==
    history' = [t \in Threads |->
        IF request'[t].op \notin {"get", "rem"} \/ t \in changed' THEN {}
        ELSE {Contents'[request'[t].key]} \cup history[t]]

Step(t) ==
    \/ ReadLock(t) \/ WriteLock(t) \/ InhibitGC(t) \/ Find(t)
    \/ PromoteAlone(t) \/ ReleaseToPromote(t) \/ Promoted(t) \/ Test(t)
    \/ RehashSlot(t) \/ Displace(t) \/ EndRehash(t)
    \/ Put(t) \/ Remove(t) \/ Clear(t)
    \/ PutNeedsRoom(t) \/ Grow(t) \/ CopySlot(t) \/ PlaceEntry(t) \/ Install(t)
    \/ EnableGC(t) \/ Unlock(t)

Next ==
    \/ \E t \in Threads : Call(t) /\ Recorded
    \/ \E t \in Threads : Step(t) /\ Recorded
    \/ Collect /\ Recorded

Spec == Init /\ [][Next]_vars

(* The system runs every thread; nobody has to call, or to collect.        *)
FairSpec == Spec /\ \A t \in Threads : WF_vars(Step(t) /\ Recorded)

-----------------------------------------------------------------------------
(* The inhibit count is what the operations under way have taken: each     *)
(* gives back what it took, however often gethash goes round its loop and  *)
(* whatever vector it tests; an operation that took it twice would keep    *)
(* the collector out for ever.                                             *)
InhibitionBalanced ==
    /\ inhibited = Cardinality({t \in Threads : my[t].inhibits = 1})
    /\ \A t \in Threads : my[t].inhibits \in 0..1 /\ (pc[t] = "idle" => my[t].inhibits = 0)

(* Whoever moved, rehashed, deleted or grew: unless the vector is flagged, *)
(* a walk from the address of a key finds the key's one entry.             *)
EveryKeyFound == work = NoWork /\ ~Vector.moved => InOrder(Slots)

(* nhash.vector.count, nhash.vector.deleted-count and nhash.grow-threshold *)
(* agree with the slots: a puthash that sees room finds a free slot, and   *)
(* just Slack more are left to end every walk.                             *)
RoomIsThere ==
    work = NoWork =>
        LET Slotted(key) == Cardinality({i \in DOMAIN Slots : Slots[i].key = key}) IN
        /\ Vector.count = Cardinality(Entries(Slots))
        /\ Vector.deleted = Slotted(Deleted)
        /\ threshold >= 0 /\ threshold + Slack = Slotted(Free)

(* Between the steps of a writer the table is in order: every key is found *)
(* and the counts are right.                                               *)
TableInOrder == EveryKeyFound /\ RoomIsThere

(* Every operation returns: the promotions, the growths and the second     *)
(* tries come to an end.                                                   *)
EveryCallReturns == \A t \in Threads : pc[t] # "idle" ~> pc[t] = "idle"

(* The table is the shared map, each operation at one instant of its call. *)
Map == INSTANCE SharedMap WITH map <- Contents, done <- changed

ImplementsMap == Map!Spec

(* gethash: "Finds the entry in HASH-TABLE whose key is KEY and returns    *)
(* the associated value and T [...] or returns DEFAULT and NIL if there is *)
(* no such entry": what it returns the table held during the call.         *)
FindsTheEntry ==
    [][\A t \in Threads :
           request[t].op = "get" /\ request'[t] = Idle => answer'.value \in history[t]]_vars
=============================================================================
