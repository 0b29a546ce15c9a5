---------------------------- MODULE LockFreeHash ----------------------------
(***************************************************************************)
(* The lock-free hash tables of level-0/l0-hash.lisp, with address-based   *)
(* keys: gethash, puthash and remhash work on the slots of a vector with   *)
(* conditional stores; when the vector is full, or the collector has moved *)
(* a key, one thread copies it into a new vector under the table's lock.   *)
(*                                                                         *)
(* The collector may run between any two steps and moves objects down.  A  *)
(* key hashes to its address, and the probe continues at the next slot.    *)
(*                                                                         *)
(* Vectors that nobody can reach are emptied and used again.               *)
(***************************************************************************)
EXTENDS Probing, FiniteSets

CONSTANTS
    Putters, Removers, Readers,   \* threads that call puthash, remhash, gethash
    Keys, Values,
    None,                         \* nil
    Free, Deleted, Rehashing,     \* the markers of keys and values
    MinSize,                      \* least number of entries of a vector, 30
    RehashSize,                   \* entries to grow by
    Slack,                        \* slots of a vector beyond its entries
    MaxAddress,                   \* bound: addresses of keys, so of moves
    MaxCalls,                     \* bound: operations called
    CollectInWindow               \* may the collector run between hashing a key
                                  \* and storing it in the new vector

ASSUME SizesAssumption ==
    /\ MinSize \in Nat \ {0} /\ RehashSize \in Nat /\ Slack \in Nat \ {0, 1}
    /\ MaxAddress \in Nat \ {0} /\ MaxCalls \in Nat /\ CollectInWindow \in BOOLEAN

Threads == Putters \cup Removers \cup Readers
Consed == (MaxAddress - Cardinality(Keys) + 1)..MaxAddress

(* A key is none of the words that mark a slot, and addresses are enough.  *)
ASSUME KeysAssumption ==
    /\ IsFiniteSet(Keys) /\ IsFiniteSet(Threads)
    /\ None \notin Threads \cup Keys \cup Values
    /\ {Free, Deleted, Rehashing} \cap (Keys \cup Values) = {}
    /\ Free # Deleted /\ Free # Rehashing /\ Deleted # Rehashing
    /\ \E a \in [Keys -> Consed] : \A j, k \in Keys : j # k => a[j] # a[k]

VARIABLES
    vector,     \* nhash.vector, the number of a vector
    vectors,    \* the vectors: slots, key-moved flag, count
    threshold,  \* nhash.grow-threshold
    owner,      \* owner of nhash.exclusion-lock
    copy,       \* the rehasher's locals
    address,    \* of each key: the collector's
    pc, request,\* of each thread
    answer,     \* what the last step returned: thread and value, if it did
    calls,      \* operations called so far
    my,         \* each thread's locals: vector, address, slot and value read
    history     \* history: what the table held for the key during the call

tableVars == <<vector, vectors, threshold>>
rehashVars == <<owner, copy>>
threadVars == <<pc, request, calls, my>>
vars == <<tableVars, rehashVars, address, threadVars, answer, history>>

Vectors == 1..Cardinality(Threads) + 2

Idle == [op |-> "idle", key |-> None, value |-> None]
NoAnswer == [thread |-> None, value |-> None]
NoLocals == [vector |-> 0, address |-> 0, slot |-> 0, old |-> None]
NoCarry == [key |-> None, value |-> None, slot |-> 0]
NoCopy == [to |-> 0, index |-> 0, count |-> 0, full |-> 0, room |-> 0,
           grow |-> FALSE, carry |-> NoCarry]

Slot(key, value) == [key |-> key, value |-> value]
Unused == [slots |-> <<>>, moved |-> FALSE, count |-> 0]

(* compute-hash-size and %cons-nhash-vector                                *)
NewSize(count, increment) == Max({MinSize, MoreThan(count, increment)})
NewVector(size) == [Unused EXCEPT !.slots = [i \in 1..(size + Slack) |-> Slot(Free, Free)]]

IsLive(slot) == slot.value \notin {Free, Deleted, Rehashing} /\ slot.key # Deleted

-----------------------------------------------------------------------------
(* Each entry is where a probe for a free slot finds its own.              *)
Laid(slots) ==
    \A i \in DOMAIN slots : slots[i].key # Free =>
        Probe([slots EXCEPT ![i].key = Free], address[slots[i].key], {Free}) = i

(* The ways to lay entries out in n slots, stored one after another.       *)
Stored(n, entries, place) ==
    [i \in 1..n |-> IF \E e \in DOMAIN entries : place[e] = i
                      THEN entries[CHOOSE e \in DOMAIN entries : place[e] = i]
                      ELSE Slot(Free, Free)]

Layouts(n, entries) ==
    {slots \in {Stored(n, entries, place) : place \in Injection(DOMAIN entries, 1..n)} : Laid(slots)}

(* Earlier operations have stored some entries and used up the room but    *)
(* for one more (a failed puthash lowers the threshold, too).  The keys    *)
(* were consed one after another, above the addresses they can move to;    *)
(* which of them came first makes no difference.                           *)
Init ==
    /\ vector = 1
    /\ address = CHOOSE a \in [Keys -> Consed] : \A j, k \in Keys : j # k => a[j] # a[k]
    /\ \E held \in SUBSET Keys, value \in Values :
           /\ threshold \in {0, 1} /\ Cardinality(held) + threshold <= MinSize
           /\ \E slots \in Layouts(MinSize + Slack, [k \in held |-> Slot(k, value)]) :
                  vectors = [v \in Vectors |->
                      IF v = 1 THEN [slots |-> slots, moved |-> FALSE, count |-> Cardinality(held)]
                      ELSE Unused]
    /\ owner = None /\ copy = NoCopy
    /\ pc = [t \in Threads |-> "idle"] /\ calls = 0
    /\ request = [t \in Threads |-> Idle] /\ answer = NoAnswer
    /\ my = [t \in Threads |-> NoLocals]
    /\ history = [t \in Threads |-> {}]

(* What the table holds: entries not yet copied, on their way, and copied. *)
Reached == {vectors[vector].slots[i] : i \in DOMAIN vectors[vector].slots}
             \cup (IF copy.to = 0 THEN {}
                   ELSE {vectors[copy.to].slots[i] : i \in DOMAIN vectors[copy.to].slots})
             \cup {Slot(copy.carry.key, copy.carry.value)}

Held(k) == {slot.value : slot \in {s \in Reached : s.key = k}} \cap Values
Contents == [k \in Keys |-> IF Held(k) = {} THEN None ELSE CHOOSE v \in Held(k) : TRUE]

(* Nothing else changes, and nothing is returned.                          *)
Keep(others) == UNCHANGED others /\ answer' = NoAnswer

Goto(t, point) == pc' = [pc EXCEPT ![t] = point]

Key(t) == request[t].key
MyVector(t) == vectors[my[t].vector]
MySlot(t) == MyVector(t).slots[my[t].slot]

(* The vectors after a store into the slot of thread t, or its count.      *)
WithKey(t, key) == [vectors EXCEPT ![my[t].vector].slots[my[t].slot].key = key]
WithValue(t, value) == [vectors EXCEPT ![my[t].vector].slots[my[t].slot].value = value]
WithCount(t, n) == [vectors EXCEPT ![my[t].vector].count = @ + n]

(* Thread t is done with its vector and with what it read from it.         *)
LetGo(t, stored, point) ==
    LET v == my[t].vector IN
    /\ vectors' = IF v \in {0, vector, copy.to} \/ \E u \in Threads \ {t} : my[u].vector = v
                    THEN stored ELSE [stored EXCEPT ![v] = Unused]
    /\ my' = [my EXCEPT ![t] = NoLocals]
    /\ Goto(t, point)

Restart(t, stored) ==
    /\ LetGo(t, stored, "rehash")
    /\ Keep(<<vector, threshold, rehashVars, address, request, calls>>)

Return(t, stored, value) ==
    /\ LetGo(t, stored, "idle")
    /\ request' = [request EXCEPT ![t] = Idle]
    /\ answer' = [thread |-> t, value |-> value]
    /\ UNCHANGED <<vector, threshold, rehashVars, address, calls>>

GoOn(t, point) ==
    /\ Goto(t, point)
    /\ Keep(<<tableVars, rehashVars, address, request, calls, my>>)

Store(t, stored, point) ==
    /\ vectors' = stored
    /\ Goto(t, point)
    /\ Keep(<<vector, threshold, rehashVars, address, request, calls, my>>)

-----------------------------------------------------------------------------
Calls(t) ==
    {[op |-> "get", key |-> k, value |-> None] : k \in IF t \in Readers THEN Keys ELSE {}}
      \cup {[op |-> "rem", key |-> k, value |-> None] : k \in IF t \in Removers THEN Keys ELSE {}}
      \cup (IF t \in Putters THEN [op : {"put"}, key : Keys, value : Values] ELSE {})

(* An operation begins, and begins again, by reading the table's vector;   *)
(* the address is read by the probe (puthash reads it just before, too: a  *)
(* collection between the two makes it back out once more).                *)
Reading(k) == [NoLocals EXCEPT !.vector = vector, !.address = address[k]]

Call(t) ==
    /\ pc[t] = "idle" /\ calls < MaxCalls
    /\ calls' = calls + 1
    /\ \E call \in Calls(t) :
           /\ request' = [request EXCEPT ![t] = call]
           /\ my' = [my EXCEPT ![t] = Reading(call.key)]
    /\ Goto(t, "probe")
    /\ Keep(<<tableVars, rehashVars, address>>)

Retry(t) ==
    /\ pc[t] = "retry"
    /\ my' = [my EXCEPT ![t] = Reading(Key(t))]
    /\ Goto(t, "probe")
    /\ Keep(<<tableVars, rehashVars, address, request, calls>>)

(* nhash.find looks for the key, nhash.find-new for it or a free slot: the *)
(* walk is as good as one look at all the slots when it ends, because one  *)
(* that it passed never becomes free or the key.  Only puthash looks at    *)
(* the address again.                                                      *)
MutantReuses(t) == {Free, Deleted, Key(t)}
WantedForPut(t) == {Free, Key(t)}

FindNew(t) ==
    /\ pc[t] = "probe" /\ request[t].op = "put"
    /\ my' = [my EXCEPT ![t].slot = Probe(MyVector(t).slots, my[t].address, WantedForPut(t))]
    /\ Goto(t, "check")
    /\ Keep(<<tableVars, rehashVars, address, request, calls>>)

Find(t) ==
    LET slots == MyVector(t).slots
        slot == Probe(slots, my[t].address, {Free, Key(t)})
        found == slot # 0 /\ slots[slot].key = Key(t)
    IN
    /\ pc[t] = "probe" /\ request[t].op # "put"
    /\ my' = [my EXCEPT ![t].address = 0, ![t].slot = IF found THEN slot ELSE 0]
    /\ Goto(t, "check")
    /\ Keep(<<tableVars, rehashVars, address, request, calls>>)

KeysMoved(t) == MyVector(t).moved
VectorReplaced(t) == my[t].vector # vector

(* gethash and remhash: nothing found counts if no key has moved.          *)
CheckFound(t) ==
    /\ pc[t] = "check" /\ request[t].op # "put"
    /\ CASE VectorReplaced(t) -> Restart(t, vectors)
         [] ~VectorReplaced(t) /\ my[t].slot # 0 -> GoOn(t, "value")
         [] OTHER -> IF KeysMoved(t) THEN Restart(t, vectors) ELSE Return(t, vectors, None)

HasRoom(t) == threshold > 0

(* puthash: the slot found is read again; a table without a slot to find   *)
(* is an error.                                                            *)
CheckForPut(t) ==
    /\ pc[t] = "check" /\ request[t].op = "put"
    /\ CASE my[t].slot = 0 -> GoOn(t, "error")
         [] my[t].slot # 0 /\ VectorReplaced(t) -> Restart(t, vectors)
         [] my[t].slot # 0 /\ ~VectorReplaced(t) /\ MySlot(t).key # Free -> GoOn(t, "value")
         [] OTHER -> IF KeysMoved(t) \/ ~HasRoom(t) THEN Restart(t, vectors)
                     ELSE GoOn(t, "reserve")

-----------------------------------------------------------------------------
GetValue(t) ==
    LET value == MySlot(t).value IN
    /\ pc[t] = "value" /\ request[t].op = "get"
    /\ IF value = Rehashing THEN Restart(t, vectors)
       ELSE Return(t, vectors, IF value \in {Deleted, Free} THEN None ELSE value)

(* The value to replace is kept for the conditional store.                 *)
KeepOld(t) ==
    /\ my' = [my EXCEPT ![t].address = 0, ![t].old = MySlot(t).value]
    /\ Goto(t, "swap")
    /\ Keep(<<tableVars, rehashVars, address, request, calls>>)

RemoveValue(t) ==
    LET slot == MySlot(t) IN
    /\ pc[t] = "value" /\ request[t].op = "rem"
    /\ CASE slot.value = Rehashing -> Restart(t, vectors)
         [] slot.value \in {Deleted, Free} -> Return(t, vectors, None)
         [] slot.value \in Values /\ slot.key = Deleted -> Return(t, vectors, None)
         [] OTHER -> KeepOld(t)

PutValue(t) ==
    /\ pc[t] = "value" /\ request[t].op = "put"
    /\ IF MySlot(t).value \in {Rehashing, Deleted, Free} THEN Restart(t, vectors)
       ELSE KeepOld(t)

MutantStoresAnyway(t, old) == TRUE
StillHolds(t, old) == MySlot(t).value = old

(* store-gvector-conditional on the value of the slot.                     *)
SwapValue(t) ==
    /\ pc[t] = "swap"
    /\ CASE ~StillHolds(t, my[t].old) -> Restart(t, vectors)
         [] StillHolds(t, my[t].old) /\ request[t].op = "rem" ->
                Store(t, WithValue(t, Deleted), "decrement")
         [] OTHER -> /\ LetGo(t, WithValue(t, request[t].value), "done")
                     /\ Keep(<<vector, threshold, rehashVars, address, request, calls>>)

Done(t) == pc[t] = "done" /\ Return(t, vectors, "done")

CountRemoved(t) == pc[t] = "decrement" /\ Store(t, WithCount(t, -1), "clear")
ClearKey(t) == pc[t] = "clear" /\ Return(t, WithKey(t, Deleted), "done")

-----------------------------------------------------------------------------
(* A new entry: room for it, the key, and then the value.                  *)
Reserve(t) ==
    /\ pc[t] = "reserve"
    /\ threshold' = threshold - 1
    /\ Goto(t, "claim")
    /\ Keep(<<vector, vectors, rehashVars, address, request, calls, my>>)

ClaimKey(t) ==
    /\ pc[t] = "claim"
    /\ IF MySlot(t).key = Free THEN Store(t, WithKey(t, Key(t)), "store")
       ELSE Restart(t, vectors)

MutantIgnoresMove(t) == TRUE
KeyStayed(t) == address[Key(t)] = my[t].address

(* The collector has tracked the key only since it was claimed: if it      *)
(* moved before that, the slot is given up.                                *)
CheckMoved(t) ==
    /\ pc[t] = "store"
    /\ IF KeyStayed(t) THEN GoOn(t, "fill") ELSE Restart(t, WithKey(t, Deleted))

MutantGivesBack(t) ==
    /\ pc[t] = "fill"
    /\ IF StillHolds(t, Free) THEN Store(t, WithValue(t, request[t].value), "increment")
       ELSE /\ threshold' = threshold + 1
            /\ LetGo(t, vectors, "rehash")
            /\ Keep(<<vector, rehashVars, address, request, calls>>)
FillValue(t) ==
    /\ pc[t] = "fill"
    /\ IF StillHolds(t, Free) THEN Store(t, WithValue(t, request[t].value), "increment")
       ELSE Restart(t, vectors)

CountAdded(t) == pc[t] = "increment" /\ Return(t, WithCount(t, 1), "done")

-----------------------------------------------------------------------------
(* lock-free-rehash: under the lock, if it is still necessary.             *)
Lock(t) ==
    /\ pc[t] = "rehash" /\ owner = None
    /\ owner' = t
    /\ Goto(t, "decide")
    /\ Keep(<<tableVars, copy, address, request, calls, my>>)

Decide(t) ==
    /\ pc[t] = "decide"
    /\ IF threshold <= 0 \/ vectors[vector].moved
         THEN /\ threshold' = 0
              /\ copy' = [NoCopy EXCEPT !.index = 1, !.grow = threshold <= 0]
              /\ Goto(t, "count") /\ UNCHANGED owner
         ELSE /\ owner' = None
              /\ Goto(t, "retry") /\ UNCHANGED <<threshold, copy>>
    /\ Keep(<<vector, vectors, address, request, calls, my>>)

(* lock-free-count-entries, then the new vector.                           *)
Last == Len(vectors[vector].slots)

CountSlot(t) ==
    /\ pc[t] = "count" /\ copy.index <= Last
    /\ copy' = [copy EXCEPT !.index = @ + 1,
                    !.count = @ + IF IsLive(vectors[vector].slots[copy.index]) THEN 1 ELSE 0]
    /\ Keep(<<tableVars, owner, address, threadVars>>)

MakeVector(t) ==
    LET size == NewSize(copy.count, IF copy.grow THEN RehashSize ELSE 1)
        new == Min({v \in Vectors : vectors[v] = Unused})
    IN
    /\ pc[t] = "count" /\ copy.index > Last
    /\ vectors' = [vectors EXCEPT ![new] = NewVector(size)]
    /\ copy' = [copy EXCEPT !.to = new, !.index = 1, !.full = size, !.room = size]
    /\ Goto(t, "copy")
    /\ Keep(<<vector, threshold, owner, address, request, calls, my>>)

(* The value is swapped for the marker; a live entry is hashed anew.       *)
CopySlot(t) ==
    LET slot == vectors[vector].slots[copy.index]
        to == Probe(vectors[copy.to].slots, address[slot.key], {Free, Deleted})
    IN
    /\ pc[t] = "copy" /\ copy.index <= Last
    /\ vectors' = [vectors EXCEPT ![vector].slots[copy.index].value = Rehashing]
    /\ IF IsLive(slot)
         THEN /\ copy' = [copy EXCEPT !.carry = [key |-> slot.key, value |-> slot.value, slot |-> to]]
              /\ Goto(t, "place")
         ELSE /\ copy' = [copy EXCEPT !.index = @ + 1]
              /\ UNCHANGED pc
    /\ Keep(<<vector, threshold, owner, address, request, calls, my>>)

(* The entry is stored where it hashed to; one too many is an error.       *)
PlaceEntry(t) ==
    /\ pc[t] = "place"
    /\ vectors' = [vectors EXCEPT ![copy.to].slots[copy.carry.slot] =
                                      Slot(copy.carry.key, copy.carry.value)]
    /\ copy' = [copy EXCEPT !.index = @ + 1, !.room = @ - 1, !.carry = NoCarry]
    /\ Goto(t, IF copy.room - 1 <= 0 THEN "error" ELSE "copy")
    /\ Keep(<<vector, threshold, owner, address, request, calls, my>>)

(* %lock-free-rehash-in-place, on the new vector that nobody else has: its *)
(* entries go where they hash to now.                                      *)
Rehashed(slots) ==
    LET live == {i \in DOMAIN slots : IsLive(slots[i])}
    IN  Layouts(Len(slots), [i \in live |-> slots[i]])

FinishCopy(t) ==
    LET new == vectors[copy.to] IN
    /\ pc[t] = "copy" /\ copy.index > Last
    /\ \E slots \in IF new.moved THEN Rehashed(new.slots) ELSE {new.slots} :
           vectors' = [vectors EXCEPT ![copy.to] =
               [slots |-> slots, moved |-> FALSE, count |-> copy.full - copy.room]]
    /\ threshold' = copy.room
    /\ Goto(t, "install")
    /\ Keep(<<vector, rehashVars, address, request, calls, my>>)

Install(t) ==
    /\ pc[t] = "install"
    /\ vector' = copy.to
    /\ vectors' = IF \E u \in Threads : my[u].vector = vector THEN vectors
                  ELSE [vectors EXCEPT ![vector] = Unused]
    /\ owner' = None /\ copy' = NoCopy
    /\ Goto(t, "retry")
    /\ Keep(<<threshold, address, request, calls, my>>)

-----------------------------------------------------------------------------
(* The collector compacts: keys move down, and a vector that holds one     *)
(* that moved is flagged.                                                  *)
Collect ==
    /\ CollectInWindow \/ \A t \in Threads : pc[t] # "place"
    /\ \E new \in [Keys -> 1..MaxAddress] :
           /\ new # address
           /\ \A k \in Keys : new[k] <= address[k]
           /\ \A j, k \in Keys : address[j] < address[k] => new[j] < new[k]
           /\ address' = new
           /\ vectors' = [v \in Vectors |-> [vectors[v] EXCEPT !.moved =
                  @ \/ \E i \in DOMAIN vectors[v].slots :
                           LET key == vectors[v].slots[i].key
                           IN  key \in Keys /\ new[key] # address[key]]]
    /\ Keep(<<vector, threshold, rehashVars, threadVars>>)

-----------------------------------------------------------------------------
(* Every operation that may yet return what it saw sees what the table     *)
(* holds after the step.                                                   *)
Changed == {t \in Threads : pc[t] \in {"increment", "decrement", "clear", "done"}}

Recorded ==
    history' = [t \in Threads |->
        IF request'[t].op \notin {"get", "rem"} \/ t \in Changed' THEN {}
        ELSE {Contents'[request'[t].key]} \cup history[t]]

Step(t) ==
    \/ Retry(t) \/ FindNew(t) \/ Find(t) \/ CheckFound(t) \/ CheckForPut(t)
    \/ GetValue(t) \/ RemoveValue(t) \/ PutValue(t) \/ SwapValue(t)
    \/ CountRemoved(t) \/ ClearKey(t)
    \/ Reserve(t) \/ ClaimKey(t) \/ CheckMoved(t) \/ FillValue(t) \/ CountAdded(t) \/ Done(t)
    \/ Lock(t) \/ Decide(t) \/ CountSlot(t) \/ MakeVector(t)
    \/ CopySlot(t) \/ PlaceEntry(t) \/ FinishCopy(t) \/ Install(t)

Next ==
    \/ \E t \in Threads : Call(t) /\ Recorded
    \/ \E t \in Threads : Step(t) /\ Recorded
    \/ Collect /\ Recorded

Spec == Init /\ [][Next]_vars

(* The system runs every thread; nobody has to call, or to collect.        *)
FairSpec == Spec /\ \A t \in Threads : WF_vars(Step(t) /\ Recorded)

-----------------------------------------------------------------------------
(* lock-free-hash-table-count: the count of the current vector is the      *)
(* number of its entries, but for the operations between their conditional *)
(* store and the count; and a key has at most one entry, whatever moves    *)
(* and whoever copies.                                                     *)
Uncounted(point) == Cardinality({t \in Threads : pc[t] = point /\ my[t].vector = vector})
LiveSlots == {i \in DOMAIN vectors[vector].slots : IsLive(vectors[vector].slots[i])}

CountIsRight ==
    /\ copy.to = 0 =>
           vectors[vector].count = Cardinality(LiveSlots) - Uncounted("increment")
                                       + Uncounted("decrement")
    /\ \A i, j \in LiveSlots :
           vectors[vector].slots[i].key = vectors[vector].slots[j].key => i = j

(* "DON'T try to incf it back on failure -- that risks grow-threshold      *)
(* ending up too big": between rehashes the threshold never promises a     *)
(* slot that is not free, and a probe always finds a free one.             *)
RoomIsThere ==
    copy = NoCopy =>
        threshold + Slack
            <= Cardinality({i \in DOMAIN vectors[vector].slots :
                                vectors[vector].slots[i].key = Free})

(* Every operation returns, whoever copies, claims or moves keys meanwhile *)
(* (a rehash makes room for more puthashes than run at a time).            *)
EveryCallReturns == \A t \in Threads : pc[t] # "idle" ~> pc[t] = "idle"

(* The table is the shared map, each operation at one instant of its call. *)
Map == INSTANCE SharedMap WITH
    map <- Contents,
    done <- Changed

ImplementsMap == Map!Spec

(* What gethash returns the table held at some moment of the call: "gc     *)
(* cannot track this key until it's actually added to the table.  Check    *)
(* now", says puthash; the rehash, which adds keys as well, does not.      *)
NothingLost ==
    [][\A t \in Threads :
           request[t].op = "get" /\ request'[t] = Idle => answer'.value \in history[t]]_vars

(* A claim of a slot for a key that had moved before it was claimed: the    *)
(* collector did not track it, and puthash will back out of it.             *)
StaleClaim(v, i) ==
    \E t \in Threads : /\ pc[t] = "store" /\ my[t].address # address[Key(t)]
                       /\ my[t].vector = v /\ my[t].slot = i

(* gethash and remhash take a slot with their key and no value for one that *)
(* is "about to be added": no claim that will be given up is found while    *)
(* the table holds the key in another slot.                                 *)
ClaimsMisleadNobody ==
    [][\A t \in Threads :
           /\ request[t].op # "put" /\ pc[t] = "probe" /\ pc'[t] = "check"
           /\ my'[t].slot # 0 /\ StaleClaim(my[t].vector, my'[t].slot)
           => Contents[Key(t)] = None]_vars

(* puthash: "If found key, fetch value [...] Else have FREE slot": it      *)
(* replaces the value of its own key and leaves those of others alone.     *)
OthersKeepTheirValue ==
    [][\A t \in Threads :
           pc[t] = "swap" /\ pc'[t] = "done" => MySlot(t).key \in {Key(t), Deleted}]_vars
=============================================================================
