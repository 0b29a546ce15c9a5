------------------------ MODULE ReadWriteLockProofs ------------------------
(***************************************************************************)
(* A writer excludes every other thread, for every set of threads and      *)
(* every bound, with or without promotion by a writer.  The argument needs *)
(* the exact meaning of the state field: while it is negative it counts    *)
(* the read acquisitions of all threads together, so it comes back to 0    *)
(* only when the last reader leaves.  And a thread that sleeps is covered  *)
(* by its expression of interest, or by a post.                            *)
(***************************************************************************)
EXTENDS ReadWriteLock, FiniteSetTheorems, TLAPS

InProgress(t) == pc[t] \in {"spin", "body", "wait", "woken"}

(* What an operation in progress may count on about its own thread.        *)
OpInv ==
    \A t \in Thread :
        /\ pc[t] = "body" => spin = t
        /\ reads[t] <= MaxDepth
        /\ InProgress(t) /\ op[t] = "read" => reads[t] < MaxDepth
        /\ InProgress(t) /\ op[t] = "unlock" => reads[t] > 0 \/ writes[t] > 0
        /\ InProgress(t) /\ op[t] = "promote" => reads[t] = 1 \/ writes[t] > 0
        /\ InProgress(t) /\ op[t] = "unlockToWrite" => reads[t] = 1 /\ pc[t] \in {"spin", "body"}
        /\ pc[t] \in {"wait", "woken"} => op[t] \in {"read", "write"}

(* Only one thread writes, to the depth of the state field, and it is the  *)
(* one the writer field names or is about to name.                         *)
WriteInv ==
    /\ \A t \in Thread : writes[t] > 0 => state = writes[t] /\ (writer = t \/ pc[t] = "name")
    /\ \A t, u \in Thread : writes[t] > 0 /\ writes[u] > 0 => t = u
    /\ \A t \in Thread : writer = t \/ pc[t] = "name" => writes[t] > 0
    /\ state > 0 => \E t \in Thread : writes[t] > 0

ReadInv ==
    /\ IsFiniteSet(ReadHolds)
    /\ Cardinality(ReadHolds) = IF state < 0 THEN -state ELSE 0

IInv == TypeOK /\ OpInv /\ WriteInv /\ ReadInv
-----------------------------------------------------------------------------
(* One more read acquisition of a thread is one more hold.                 *)
LEMMA AddHold ==
  ASSUME TypeOK, IsFiniteSet(ReadHolds), NEW t \in Thread,
         reads[t] < MaxDepth, reads' = [reads EXCEPT ![t] = @ + 1]
  PROVE  /\ IsFiniteSet(ReadHolds')
         /\ Cardinality(ReadHolds') = Cardinality(ReadHolds) + 1
<1> DEFINE h == <<t, reads[t] + 1>>
<1>1. ReadHolds' = ReadHolds \cup {h} /\ h \notin ReadHolds
  BY RWAssumption DEF ReadHolds, TypeOK
<1> HIDE DEF h
<1> QED
  BY <1>1, FS_AddElement

(* One read acquisition less is one hold less.                             *)
LEMMA DropHold ==
  ASSUME TypeOK, IsFiniteSet(ReadHolds), NEW t \in Thread,
         reads[t] > 0, reads[t] <= MaxDepth, reads' = [reads EXCEPT ![t] = @ - 1]
  PROVE  /\ IsFiniteSet(ReadHolds')
         /\ Cardinality(ReadHolds') = Cardinality(ReadHolds) - 1
<1> DEFINE h == <<t, reads[t]>>
<1>1. ReadHolds' = ReadHolds \ {h} /\ h \in ReadHolds
  BY RWAssumption DEF ReadHolds, TypeOK
<1> HIDE DEF h
<1> QED
  BY <1>1, FS_RemoveElement

(* The same threads hold the same reads as long as the counts stay.        *)
LEMMA SameHolds == UNCHANGED reads => ReadHolds' = ReadHolds
  BY DEF ReadHolds

(* A lock without read holds has no reader.                                *)
LEMMA NoHoldNoReader ==
  ASSUME TypeOK, OpInv, ReadInv, state >= 0, NEW t \in Thread
  PROVE  reads[t] = 0
<1>1. ReadHolds = {}
  BY FS_EmptySet DEF ReadInv, TypeOK
<1>2. reads[t] > 0 => <<t, 1>> \in ReadHolds
  BY RWAssumption DEF ReadHolds, TypeOK, OpInv
<1> QED
  BY <1>1, <1>2 DEF TypeOK
-----------------------------------------------------------------------------
LEMMA InitIInv == Init => IInv
<1> SUFFICES ASSUME Init PROVE IInv
  OBVIOUS
<1>1. TypeOK /\ OpInv /\ WriteInv
  BY RWAssumption DEF Init, TypeOK, OpInv, InProgress, WriteInv, PCs, Ops
<1>2. ReadHolds = {}
  BY DEF Init, ReadHolds
<1> QED
  BY <1>1, <1>2, FS_EmptySet DEF IInv, ReadInv, Init

(* Everything but the counting of the read holds.                          *)
LEMMA NextControl ==
  ASSUME IInv, [Next]_vars
  PROVE  TypeOK' /\ OpInv' /\ WriteInv'
<1> USE RWAssumption DEF IInv, TypeOK, OpInv, WriteInv, InProgress, PCs, Ops, GoTo
<1>1. ASSUME NEW t \in Thread, NEW o \in {"read", "write", "promote", "unlock"}, Begin(t, o)
      PROVE  TypeOK' /\ OpInv' /\ WriteInv'
  <2>0. /\ UNCHANGED <<spin, state, writer, reads, writes>>
        /\ UNCHANGED <<blockedReaders, blockedWriters, readerSignal, writerSignal, aborts>>
        /\ pc[t] = "idle"
        /\ pc' = [pc EXCEPT ![t] = "spin"]
        /\ op' = [op EXCEPT ![t] = o]
    BY <1>1 DEF Begin, word, signals, grants
  <2>1. TypeOK'
    BY <2>0
  <2>2. OpInv'
    <3>1. \A u \in Thread \ {t} : pc'[u] = pc[u] /\ op'[u] = op[u]
      BY <2>0
    <3>2. pc'[t] = "spin" /\ op'[t] = o
      BY <2>0
    <3>3. /\ o = "read" => reads[t] < MaxDepth
          /\ o = "unlock" => reads[t] > 0 \/ writes[t] > 0
          /\ o = "promote" => reads[t] = 1 \/ writes[t] > 0
      BY <1>1 DEF Begin, MayBegin
    <3> QED
      BY <2>0, <3>1, <3>2, <3>3
  <2>3. WriteInv'
    BY <2>0
  <2> QED
    BY <2>1, <2>2, <2>3
<1>2. ASSUME NEW t \in Thread, Continues(t)
      PROVE  TypeOK' /\ OpInv' /\ WriteInv'
  <2>1. CASE GetSpinLock(t)
    BY <2>1 DEF GetSpinLock, word, signals, grants
  <2>2. CASE ReadBody(t)
    BY <2>2 DEF ReadBody, InBody, ReadersMayEnter, signals
  <2>3. CASE WriteBody(t)
    BY <2>3 DEF WriteBody, InBody, OneMoreWriter, signals
  <2>4. CASE NameWriter(t)
    BY <2>4 DEF NameWriter, signals, grants
  <2>5. CASE UnlockBody(t)
    <3>1. CASE state < 0 \/ (state > 0 /\ writer = t)
      BY <2>5, <3>1 DEF UnlockBody, StateAfterUnlock, WakeEverybody, word, signals, grants
    <3>2. CASE state = 0 \/ (state > 0 /\ writer # t)
      BY <2>5, <3>2, NoHoldNoReader DEF UnlockBody, word, signals, grants
    <3> QED
      BY <3>1, <3>2
  <2>6. CASE PromoteBody(t)
    BY <2>6 DEF PromoteBody, InBody, signals, grants
  <2>7. CASE Wake(t)
    BY <2>7 DEF Wake, word, grants
  <2>8. CASE Retry(t)
    BY <2>8 DEF Retry, word, signals, grants
  <2> QED
    BY <1>2, <2>1, <2>2, <2>3, <2>4, <2>5, <2>6, <2>7, <2>8 DEF Continues
<1>3. ASSUME NEW t \in Thread, AbortWait(t)
      PROVE  TypeOK' /\ OpInv' /\ WriteInv'
  BY <1>3 DEF AbortWait, word, signals, grants
<1>4. CASE UNCHANGED vars
  BY <1>4 DEF vars, word, signals, grants
<1> QED
  BY <1>1, <1>2, <1>3, <1>4 DEF Next, Begins, Unlocks

(* read-lock-rwlock, unlock-rwlock: each step changes the state and the     *)
(* set of read holds together.                                             *)
LEMMA NextReads ==
  ASSUME IInv, [Next]_vars
  PROVE  ReadInv'
<1> USE RWAssumption DEF IInv
<1>0. state \in Int /\ Cardinality(ReadHolds) \in Nat
  BY FS_CardinalityType DEF TypeOK, ReadInv
<1>1. CASE UNCHANGED <<state, reads>>
  BY <1>1, SameHolds DEF ReadInv
<1>2. ASSUME NEW t \in Thread, ReadBody(t), ~UNCHANGED <<state, reads>>
      PROVE  ReadInv'
  <2>1. /\ state <= 0
        /\ state' = state - 1
        /\ reads' = [reads EXCEPT ![t] = @ + 1]
        /\ reads[t] < MaxDepth
    BY <1>2 DEF ReadBody, InBody, ReadersMayEnter, OpInv, InProgress
  <2>2. IsFiniteSet(ReadHolds') /\ Cardinality(ReadHolds') = Cardinality(ReadHolds) + 1
    BY <2>1, AddHold DEF ReadInv
  <2> QED
    BY <1>0, <2>1, <2>2 DEF ReadInv
<1>3. ASSUME NEW t \in Thread, WriteBody(t), ~UNCHANGED <<state, reads>>
      PROVE  ReadInv'
  <2>1. state >= 0 /\ state' = state + 1 /\ UNCHANGED reads
    BY <1>0, <1>3 DEF WriteBody, WriteInv, TypeOK
  <2> QED
    BY <1>0, <2>1, SameHolds DEF ReadInv
<1>4. ASSUME NEW t \in Thread, UnlockBody(t), ~UNCHANGED <<state, reads>>
      PROVE  ReadInv'
  <2>1. CASE state > 0
    <3>1. state' = state - 1 /\ UNCHANGED reads
      BY <1>4, <2>1 DEF UnlockBody, StateAfterUnlock, word, grants
    <3> QED
      BY <1>0, <2>1, <3>1, SameHolds DEF ReadInv
  <2>2. CASE state < 0
    <3>1. state' = state + 1 /\ reads' = [reads EXCEPT ![t] = @ - 1]
      BY <1>0, <1>4, <2>2 DEF UnlockBody, StateAfterUnlock
    <3>2. reads[t] > 0 /\ reads[t] <= MaxDepth
      BY <1>0, <1>4, <2>2 DEF UnlockBody, OpInv, InProgress, WriteInv, TypeOK
    <3>3. IsFiniteSet(ReadHolds') /\ Cardinality(ReadHolds') = Cardinality(ReadHolds) - 1
      BY <3>1, <3>2, DropHold DEF ReadInv
    <3> QED
      BY <1>0, <2>2, <3>1, <3>3 DEF ReadInv
  <2>3. CASE state = 0
    BY <1>4, <2>3 DEF UnlockBody, word, grants
  <2> QED
    BY <1>0, <2>1, <2>2, <2>3
<1>5. ASSUME NEW t \in Thread, PromoteBody(t), ~UNCHANGED <<state, reads>>
      PROVE  ReadInv'
  <2>1. state = -1 /\ state' = 1 /\ reads' = [reads EXCEPT ![t] = @ - 1]
    BY <1>5 DEF PromoteBody, grants
  <2>2. reads[t] > 0 /\ reads[t] <= MaxDepth
    BY <1>0, <1>5, <2>1 DEF PromoteBody, InBody, OpInv, InProgress, WriteInv, TypeOK
  <2>3. IsFiniteSet(ReadHolds') /\ Cardinality(ReadHolds') = Cardinality(ReadHolds) - 1
    BY <2>1, <2>2, DropHold DEF ReadInv
  <2>4. state < 0 /\ state + 1 = 0
    BY <2>1
  <2>5. Cardinality(ReadHolds) = 1
    BY <1>0, <2>4 DEF ReadInv
  <2>6. Cardinality(ReadHolds') = 0 /\ state' = 1
    BY <2>1, <2>3, <2>5
  <2> QED
    BY <2>3, <2>6 DEF ReadInv
<1>6. ASSUME NEW t \in Thread, Continues(t)
      PROVE  \/ UNCHANGED <<state, reads>>
             \/ ReadBody(t) \/ WriteBody(t) \/ UnlockBody(t) \/ PromoteBody(t)
  BY <1>6 DEF Continues, GetSpinLock, NameWriter, Wake, Retry, word, grants
<1>7. ASSUME NEW t \in Thread, Begins(t) \/ Unlocks(t) \/ AbortWait(t)
      PROVE  UNCHANGED <<state, reads>>
  BY <1>7 DEF Begins, Unlocks, Begin, AbortWait, word, grants
<1>8. CASE UNCHANGED vars
  BY <1>1, <1>8 DEF vars, word, grants
<1> QED
  BY <1>1, <1>2, <1>3, <1>4, <1>5, <1>6, <1>7, <1>8 DEF Next

(* The inductive invariant holds of every behaviour.                       *)
THEOREM Inductive == Spec => []IInv
<1>1. IInv /\ [Next]_vars => IInv'
  BY NextControl, NextReads DEF IInv
<1> QED
  BY InitIInv, <1>1, PTL DEF Spec

(* The fields of the lock word keep their types: no count drops below 0.   *)
THEOREM TypeCorrect == Spec => []TypeOK
  BY Inductive, PTL DEF IInv

(* Whoever %write-lock-rwlock-ptr or %promote-rwlock gave the lock has it  *)
(* alone: no other writer, and no reader.                                  *)
THEOREM Exclusion == Spec => []WriterExcludes
<1>1. IInv => WriterExcludes
  BY NoHoldNoReader DEF IInv, TypeOK, WriteInv, WriterExcludes
<1> QED
  BY <1>1, Inductive, PTL

(* The state field counts the holds (%unlock-rwlock-ptr frees the lock by  *)
(* it).                                                                    *)
THEOREM Counting == Spec => []StateCountsHolds
<1>1. IInv => StateCountsHolds
  BY DEF IInv, TypeOK, WriteInv, ReadInv, StateCountsHolds
<1> QED
  BY <1>1, Inductive, PTL
-----------------------------------------------------------------------------
(* Who sleeps is covered.  SleepersCovered says nothing of an infinite set, *)
(* so the invariant adds that never infinitely many sleep.                 *)
SleepInv ==
    /\ IsFiniteSet(Sleepers("read")) /\ IsFiniteSet(Sleepers("write"))
    /\ SleepersCovered

(* A thread that goes to sleep, or wakes up, is one sleeper more or less    *)
(* of its kind, and none of another kind.                                  *)
LEMMA OneSleeper ==
  ASSUME TypeOK, NEW t \in Thread, NEW p \in PCs, pc' = [pc EXCEPT ![t] = p],
         NEW o \in {"read", "write"}, IsFiniteSet(Sleepers(o)),
         op' = op \/ (pc[t] # "wait" /\ p # "wait" /\ \A u \in Thread \ {t} : op'[u] = op[u])
  PROVE  /\ IsFiniteSet(Sleepers(o)')
         /\ Cardinality(Sleepers(o)) \in Nat /\ Cardinality(Sleepers(o)') \in Nat
         /\ Cardinality(Sleepers(o)') =
              IF op[t] # o THEN Cardinality(Sleepers(o))
              ELSE IF pc[t] # "wait" /\ p = "wait" THEN Cardinality(Sleepers(o)) + 1
              ELSE IF pc[t] = "wait" /\ p # "wait" THEN Cardinality(Sleepers(o)) - 1
              ELSE Cardinality(Sleepers(o))
<1>1. CASE op[t] = o /\ pc[t] # "wait" /\ p = "wait"
  <2>1. Sleepers(o)' = Sleepers(o) \cup {t} /\ t \notin Sleepers(o)
    BY <1>1 DEF TypeOK, Sleepers
  <2> QED
    BY <1>1, <2>1, FS_AddElement, FS_CardinalityType
<1>2. CASE op[t] = o /\ pc[t] = "wait" /\ p # "wait"
  <2>1. Sleepers(o)' = Sleepers(o) \ {t} /\ t \in Sleepers(o)
    BY <1>2 DEF TypeOK, Sleepers
  <2> QED
    BY <1>2, <2>1, FS_RemoveElement, FS_CardinalityType
<1>3. CASE op[t] # o \/ (pc[t] = "wait" <=> p = "wait")
  <2>1. Sleepers(o)' = Sleepers(o)
    BY <1>3 DEF TypeOK, Sleepers
  <2> QED
    BY <1>3, <2>1, FS_CardinalityType
<1> QED
  BY <1>1, <1>2, <1>3

(* %read-lock-rwlock-ptr, %write-lock-rwlock-ptr and %unlock-rwlock-ptr: a  *)
(* thread says that it is interested before it sleeps, and a release turns *)
(* every expression of interest into a post.                               *)
LEMMA NextSleep ==
  ASSUME IInv, SleepInv, [Next]_vars
  PROVE  SleepInv'
<1> DEFINE readers == Cardinality(Sleepers("read"))
           writers == Cardinality(Sleepers("write"))
<1>0. /\ readers \in Nat /\ writers \in Nat /\ readers <= blockedReaders + readerSignal
      /\ writers <= blockedWriters + writerSignal
      /\ blockedReaders \in Nat /\ blockedWriters \in Nat
      /\ readerSignal \in Nat /\ writerSignal \in Nat
  BY FS_CardinalityType DEF IInv, TypeOK, SleepInv, SleepersCovered
<1>1. SUFFICES /\ IsFiniteSet(Sleepers("read")') /\ IsFiniteSet(Sleepers("write")')
               /\ readers' <= blockedReaders' + readerSignal'
               /\ writers' <= blockedWriters' + writerSignal'
  BY DEF SleepInv, SleepersCovered
<1> TypeOK /\ OpInv /\ IsFiniteSet(Sleepers("read")) /\ IsFiniteSet(Sleepers("write"))
  BY DEF IInv, SleepInv
<1> USE DEF PCs
<1>2. ASSUME NEW t \in Thread, NEW o \in Ops, Begin(t, o)
      PROVE  SleepInv'
  <2>1. pc[t] = "idle" /\ pc' = [pc EXCEPT ![t] = "spin"] /\ op' = [op EXCEPT ![t] = o]
        /\ UNCHANGED <<blockedReaders, blockedWriters, readerSignal, writerSignal>>
    BY <1>2 DEF Begin, GoTo, word, signals
  <2>2. \A u \in Thread \ {t} : op'[u] = op[u]
    BY <2>1 DEF TypeOK
  <2> QED
    BY <1>0, <2>1, <2>2, OneSleeper DEF SleepInv, SleepersCovered
<1>3. ASSUME NEW t \in Thread, ReadBody(t)
      PROVE  SleepInv'
  <2>1. /\ pc[t] = "body" /\ op[t] = "read" /\ op' = op
        /\ UNCHANGED <<blockedWriters, readerSignal, writerSignal>>
        /\ \/ pc' = [pc EXCEPT ![t] = "idle"] /\ blockedReaders' = blockedReaders
           \/ pc' = [pc EXCEPT ![t] = "wait"] /\ blockedReaders' = blockedReaders + 1
    BY <1>3 DEF ReadBody, InBody, GoTo, signals
  <2> QED
    BY <1>0, <2>1, OneSleeper DEF SleepInv, SleepersCovered
<1>4. ASSUME NEW t \in Thread, WriteBody(t)
      PROVE  SleepInv'
  <2>1. /\ pc[t] = "body" /\ op[t] = "write" /\ op' = op
        /\ UNCHANGED <<blockedReaders, readerSignal, writerSignal>>
        /\ \/ pc' = [pc EXCEPT ![t] = "idle"] /\ blockedWriters' = blockedWriters
           \/ pc' = [pc EXCEPT ![t] = "name"] /\ blockedWriters' = blockedWriters
           \/ pc' = [pc EXCEPT ![t] = "wait"] /\ blockedWriters' = blockedWriters + 1
    BY <1>4 DEF WriteBody, InBody, GoTo, OneMoreWriter, signals
  <2> QED
    BY <1>0, <2>1, OneSleeper DEF SleepInv, SleepersCovered
<1>5. ASSUME NEW t \in Thread, UnlockBody(t)
      PROVE  SleepInv'
  <2>1. /\ pc[t] = "body" /\ op[t] \in {"unlock", "unlockToWrite"}
        /\ \/ pc' = [pc EXCEPT ![t] = "idle"] /\ op' = op
           \/ pc' = [pc EXCEPT ![t] = "spin"] /\ op' = [op EXCEPT ![t] = "write"]
    BY <1>5 DEF UnlockBody, GoTo
  <2>2. /\ blockedReaders' + readerSignal' = blockedReaders + readerSignal
        /\ blockedWriters' + writerSignal' = blockedWriters + writerSignal
    BY <1>0, <1>5 DEF UnlockBody, WakeEverybody, word, signals
  <2>3. \A u \in Thread \ {t} : op'[u] = op[u]
    BY <2>1 DEF TypeOK
  <2> QED
    BY <1>0, <2>1, <2>2, <2>3, OneSleeper DEF SleepInv, SleepersCovered
<1>6. ASSUME NEW t \in Thread, PromoteBody(t)
      PROVE  SleepInv'
  <2>1. /\ pc[t] = "body"
        /\ UNCHANGED <<blockedReaders, blockedWriters, readerSignal, writerSignal>>
        /\ \/ pc' = [pc EXCEPT ![t] = "idle"] /\ op' = op
           \/ pc' = [pc EXCEPT ![t] = "spin"] /\ op' = [op EXCEPT ![t] = "unlockToWrite"]
    BY <1>6 DEF PromoteBody, InBody, GoTo, signals
  <2>2. \A u \in Thread \ {t} : op'[u] = op[u]
    BY <2>1 DEF TypeOK
  <2> QED
    BY <1>0, <2>1, <2>2, OneSleeper DEF SleepInv, SleepersCovered
<1>7. ASSUME NEW t \in Thread, Wake(t)
      PROVE  SleepInv'
  <2>1. /\ pc[t] = "wait" /\ op[t] \in {"read", "write"} /\ op' = op
        /\ pc' = [pc EXCEPT ![t] = "woken"]
        /\ UNCHANGED <<blockedReaders, blockedWriters>>
        /\ IF op[t] = "read"
             THEN readerSignal' = readerSignal - 1 /\ UNCHANGED writerSignal
             ELSE writerSignal' = writerSignal - 1 /\ UNCHANGED readerSignal
    BY <1>7 DEF Wake, GoTo, word, OpInv
  <2>2. /\ IsFiniteSet(Sleepers("read")') /\ IsFiniteSet(Sleepers("write")')
        /\ readers' = IF op[t] = "read" THEN readers - 1 ELSE readers
        /\ writers' = IF op[t] = "write" THEN writers - 1 ELSE writers
    BY <2>1, OneSleeper
  <2> QED
    BY <1>0, <2>1, <2>2 DEF SleepInv, SleepersCovered
<1> HIDE DEF PCs
<1>8. ASSUME NEW t \in Thread, GetSpinLock(t) \/ NameWriter(t) \/ Retry(t) \/ AbortWait(t)
      PROVE  SleepInv'
  <2>1. UNCHANGED <<op, blockedReaders, blockedWriters, readerSignal, writerSignal>>
    BY <1>8 DEF GetSpinLock, NameWriter, Retry, AbortWait, word, signals
  <2>2. PICK p \in PCs : p # "wait" /\ pc' = [pc EXCEPT ![t] = p]
    BY <1>8 DEF GetSpinLock, NameWriter, Retry, AbortWait, GoTo, PCs
  <2>3. ASSUME NEW o \in {"read", "write"}
        PROVE  /\ IsFiniteSet(Sleepers(o)')
               /\ Cardinality(Sleepers(o)') \in Nat
               /\ Cardinality(Sleepers(o)') <= Cardinality(Sleepers(o))
    <3>1. IsFiniteSet(Sleepers(o)) /\ op' = op
      BY <2>1, <2>3
    <3> HIDE <2>3
    <3>2. /\ IsFiniteSet(Sleepers(o)')
          /\ Cardinality(Sleepers(o)) \in Nat /\ Cardinality(Sleepers(o)') \in Nat
          /\ Cardinality(Sleepers(o)') =
               IF op[t] # o THEN Cardinality(Sleepers(o))
               ELSE IF pc[t] # "wait" /\ p = "wait" THEN Cardinality(Sleepers(o)) + 1
               ELSE IF pc[t] = "wait" /\ p # "wait" THEN Cardinality(Sleepers(o)) - 1
               ELSE Cardinality(Sleepers(o))
      BY <2>2, <3>1, OneSleeper
    <3> QED
      BY <2>2, <3>2
  <2>4. /\ IsFiniteSet(Sleepers("read")') /\ readers' \in Nat /\ readers' <= readers
        /\ IsFiniteSet(Sleepers("write")') /\ writers' \in Nat /\ writers' <= writers
    BY <2>3
  <2> QED
    BY <1>0, <2>1, <2>4 DEF SleepInv, SleepersCovered
<1>9. CASE UNCHANGED vars
  BY <1>9 DEF vars, word, signals, SleepInv, SleepersCovered, Sleepers
<1> QED
  BY <1>2, <1>3, <1>4, <1>5, <1>6, <1>7, <1>8, <1>9
  DEF Next, Begins, Unlocks, Continues, Ops, SleepInv, SleepersCovered

(* "Spurious wakeups are better than deadlock": the next release answers    *)
(* every sleeper, unless a post is already there for it.                   *)
THEOREM SleepersAreCovered == Spec => []SleepersCovered
<1>1. Init => SleepInv
  <2> SUFFICES ASSUME Init PROVE SleepInv
    OBVIOUS
  <2>1. Sleepers("read") = {} /\ Sleepers("write") = {}
    BY DEF Init, Sleepers
  <2> QED
    BY <2>1, FS_EmptySet DEF Init, SleepInv, SleepersCovered
<1>2. IInv /\ SleepInv /\ [Next]_vars => SleepInv'
  BY NextSleep
<1>3. SleepInv => SleepersCovered
  BY DEF SleepInv
<1> QED
  BY <1>1, <1>2, <1>3, Inductive, PTL DEF Spec
=============================================================================
