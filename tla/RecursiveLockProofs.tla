------------------------- MODULE RecursiveLockProofs -------------------------
(***************************************************************************)
(* Safety of RecursiveLock for every set of threads, every mix of the C    *)
(* and the Lisp implementation and every bound: its types, the mutual      *)
(* exclusion property HoldersOwn, that it implements ReentrantMutex, and   *)
(* that every arrival at the lock is accounted for.                        *)
(* The callers of recursive_lock_trylock are assumed to pass was_free.     *)
(***************************************************************************)
EXTENDS RecursiveLock, FiniteSetTheorems, TLAPS

(* The spinlock's section holds the thread the spinlock names, nobody else *)
SpinInv == \A t \in Thread : pc[t] = "body" <=> spin = t

(* avail tells a free lock from a held one, and a thread the lock does not *)
(* belong to has nothing to undo.                                          *)
OwnInv ==
    /\ avail = 0 <=> owner = NoThread
    /\ owner = NoThread => count = 0
    /\ \A t \in Thread : depth[t] = IF owner = t THEN count ELSE 0

InProgress(t) == pc[t] \in {"spin", "body"}

(* A held lock with count 0 is one whose owner is on its way through the   *)
(* unlock; a thread that is still acquiring is not the owner.              *)
PhaseInv ==
    \A t \in Thread :
        /\ InProgress(t) /\ op[t] = "unlock" => owner = t /\ count = 0
        /\ owner = t /\ count = 0 => InProgress(t) /\ op[t] = "unlock"
        /\ pc[t] \in {"wait", "woken"} => op[t] = "lock" /\ owner # t
        /\ InProgress(t) /\ op[t] \in {"lock", "try"} => owner # t

IInv == TypeOK /\ SpinInv /\ OwnInv /\ PhaseInv

(* new_recursive_lock: a fresh lock is free, and nobody has anything to    *)
(* undo.                                                                   *)
LEMMA InitIInv == Init => IInv
  BY LockAssumption DEF Init, IInv, TypeOK, SpinInv, OwnInv, PhaseInv, InProgress, PCs

(* Every section of the lock, under either implementation, keeps the        *)
(* invariant.                                                              *)
LEMMA NextIInv ==
  ASSUME WasFreeArg, IInv, [Next]_vars
  PROVE  IInv'
<1> USE LockAssumption DEF IInv, TypeOK, SpinInv, OwnInv, PhaseInv, InProgress, PCs,
                           LastRelease, FirstArrival, StillWaiting, Posts
<1>1. ASSUME NEW t \in Thread, Begins(t)
      PROVE  IInv'
  <2>1. CASE Reenter(t)
    BY <2>1 DEF Reenter, history
  <2>2. ASSUME NEW i \in Impls, StartLock(t, i)
        PROVE  IInv'
    BY <2>2 DEF StartLock, Begin, GoTo, lockFields, history
  <2>3. CASE StartTry(t)
    BY <2>3 DEF StartTry, Begin, GoTo, lockFields, history
  <2>4. CASE StartCTry(t)
    BY <2>4 DEF StartCTry, Begin, GoTo, lockFields, history
  <2> QED
    BY <1>1, <2>1, <2>2, <2>3, <2>4 DEF Begins
<1>2. ASSUME NEW t \in Thread, NEW i \in Impls, StartUnlock(t, i)
      PROVE  IInv'
  BY <1>2 DEF StartUnlock, Begin, GoTo, history
<1>3. ASSUME NEW t \in Thread, Continues(t)
      PROVE  IInv'
  <2>1. CASE GetSpinLock(t)
    BY <2>1 DEF GetSpinLock, GoTo, lockFields, history
  <2>2. CASE LockBody(t)
    BY <2>2 DEF LockBody, TakeOwnership, GoTo, history
  <2>3. CASE TryBody(t)
    BY <2>3 DEF TryBody, TakeOwnership, GoTo
  <2>4. CASE CTryBody(t)
    BY <1>3, <2>4 DEF CTryBody, TakeOwnership, GoTo, history
  <2>5. CASE CUnlockBody(t)
    BY <2>5 DEF CUnlockBody, GoTo, history
  <2>6. CASE LispUnlockBody(t)
    BY <2>6 DEF LispUnlockBody, GoTo, history
  <2>7. CASE Raise(t)
    BY <2>7 DEF Raise, GoTo, lockFields, history
  <2>8. CASE Wake(t)
    BY <2>8 DEF Wake, GoTo, lockFields, history
  <2>9. CASE Retry(t)
    BY <2>9 DEF Retry, GoTo, lockFields, history
  <2> QED
    BY <1>3, <2>1, <2>2, <2>3, <2>4, <2>5, <2>6, <2>7, <2>8, <2>9 DEF Continues
<1>4. ASSUME NEW t \in Thread, AbortWait(t)
      PROVE  IInv'
  BY <1>4 DEF AbortWait, GoTo, lockFields
<1>5. CASE UNCHANGED vars
  BY <1>5 DEF vars, lockFields, history
<1> QED
  BY <1>1, <1>2, <1>3, <1>4, <1>5 DEF Next, Unlocks

(* The inductive invariant holds of every behaviour.                       *)
THEOREM Inductive == ASSUME WasFreeArg PROVE Spec => []IInv
<1>1. IInv /\ [Next]_vars => IInv'
  BY NextIInv
<1> QED
  BY InitIInv, <1>1, PTL DEF Spec

(* Every field of the lock word, and every thread's program counter, keeps *)
(* its type: the unsigned fields never drop below 0.                       *)
THEOREM TypeCorrect == ASSUME WasFreeArg PROVE Spec => []TypeOK
  BY Inductive, PTL DEF IInv

(* Mutual exclusion: a thread that was told it has the lock is its owner   *)
(* and the count is what it still has to undo (lock_recursive_lock,        *)
(* unlock_recursive_lock and their Lisp counterparts).                     *)
THEOREM MutualExclusion == ASSUME WasFreeArg PROVE Spec => []HoldersOwn
<1>1. IInv => HoldersOwn
  BY LockAssumption DEF IInv, TypeOK, OwnInv, HoldersOwn
<1> QED
  BY <1>1, Inductive, PTL
-----------------------------------------------------------------------------
(* A fresh lock is a free mutex.                                           *)
LEMMA InitRefines == Init => Mutex!Init
  BY DEF Init, Mutex!Init

(* Every section of the lock is a step of the mutex, or invisible in it.    *)
LEMMA NextRefines ==
  ASSUME WasFreeArg, IInv, [Next]_vars
  PROVE  [Mutex!Next]_(Mutex!vars)
<1> USE LockAssumption DEF IInv, TypeOK, SpinInv, OwnInv, PhaseInv, InProgress, PCs,
                           LastRelease, FirstArrival, StillWaiting, Posts
<1>1. ASSUME NEW t \in Thread, Begins(t)
      PROVE  [Mutex!Next]_(Mutex!vars)
  <2>1. CASE Reenter(t)
    <3>1. Mutex!Reacquire(t)
      BY <2>1 DEF Reenter, Mutex!Reacquire
    <3> QED
      BY <3>1 DEF Mutex!Next
  <2>2. CASE ~Reenter(t)
    BY <1>1, <2>2 DEF Begins, StartLock, StartTry, StartCTry, lockFields, Mutex!vars
  <2> QED
    BY <2>1, <2>2
<1>2. ASSUME NEW t \in Thread, NEW i \in Impls, StartUnlock(t, i)
      PROVE  [Mutex!Next]_(Mutex!vars)
  <2>1. Mutex!Release(t)
    BY <1>2 DEF StartUnlock, Mutex!Release
  <2> QED
    BY <2>1 DEF Mutex!Next
<1>3. ASSUME NEW t \in Thread, Continues(t)
      PROVE  [Mutex!Next]_(Mutex!vars)
  <2>1. CASE TakeOwnership(t) /\ avail = 0
    <3>1. Mutex!Acquire(t)
      BY <2>1 DEF TakeOwnership, Mutex!Acquire
    <3> QED
      BY <3>1 DEF Mutex!Next
  <2>2. CASE CTryBody(t) /\ owner = t
    <3>1. Mutex!Reacquire(t)
      BY <2>2 DEF CTryBody, TakeOwnership, Mutex!Reacquire
    <3> QED
      BY <3>1 DEF Mutex!Next
  <2>3. CASE CTryBody(t) /\ owner # t /\ avail # 0
    BY <2>3 DEF CTryBody, Mutex!vars
  <2>4. CASE GetSpinLock(t) \/ Raise(t) \/ Wake(t) \/ Retry(t)
    BY <2>4 DEF GetSpinLock, Raise, Wake, Retry, lockFields, Mutex!vars
  <2>5. CASE LockBody(t) \/ TryBody(t)
    BY <2>1, <2>5 DEF LockBody, TryBody, Mutex!vars
  <2>6. CASE CUnlockBody(t) \/ LispUnlockBody(t)
    BY <2>6 DEF CUnlockBody, LispUnlockBody, Mutex!vars
  <2>7. CASE CTryBody(t) /\ owner # t /\ avail = 0
    BY <2>1, <2>7 DEF CTryBody
  <2> QED
    BY <1>3, <2>2, <2>3, <2>4, <2>5, <2>6, <2>7 DEF Continues
<1>4. ASSUME NEW t \in Thread, AbortWait(t)
      PROVE  [Mutex!Next]_(Mutex!vars)
  BY <1>4 DEF AbortWait, lockFields, Mutex!vars
<1>5. CASE UNCHANGED vars
  BY <1>5 DEF vars, lockFields, Mutex!vars
<1> QED
  BY <1>1, <1>2, <1>3, <1>4, <1>5 DEF Next, Unlocks

(* The lock, its spinlock, its semaphore and its two ways of handing over  *)
(* implement a reentrant mutex.                                            *)
THEOREM Refinement == ASSUME WasFreeArg PROVE Spec => ImplementsMutex
<1>1. IInv /\ [Next]_vars => [Mutex!Next]_(Mutex!vars)
  BY NextRefines
<1> QED
  BY InitRefines, Inductive, <1>1, PTL DEF Spec, ImplementsMutex, Mutex!Spec
-----------------------------------------------------------------------------
(* No arrival is forgotten.  The sums are over sets, which are finite; and *)
(* only a thread that is posting owes posts.                               *)
AccountInv ==
    /\ IsFiniteSet(Owed) /\ IsFiniteSet(Waiters)
    /\ ArrivalsAccounted
    /\ \A t \in Thread : pc[t] # "raise" => raises[t] = 0

(* The release of the spinlock leaves a number of posts to be made.        *)
LEMMA OwesMore ==
  ASSUME TypeOK, NEW t \in Thread, NEW k \in Nat, raises[t] = 0,
         raises' = [raises EXCEPT ![t] = k], IsFiniteSet(Owed)
  PROVE  IsFiniteSet(Owed') /\ Cardinality(Owed') = Cardinality(Owed) + k
<1> DEFINE new == {t} \X (1..k)
<1>1. \A p \in Owed : p[1] # t
  BY DEF Owed, TypeOK
<1>2. Owed' = Owed \cup new /\ Owed \cap new = {}
  <2>1. \A u \in Thread \ {t} : raises'[u] = raises[u]
    BY DEF TypeOK
  <2>2. raises'[t] = k
    BY DEF TypeOK
  <2>3. Owed = UNION {{u} \X (1..raises[u]) : u \in Thread \ {t}}
    BY DEF Owed, TypeOK
  <2>4. Owed' = (UNION {{u} \X (1..raises[u]) : u \in Thread \ {t}}) \cup new
    BY <2>1, <2>2 DEF Owed
  <2> QED
    BY <1>1, <2>3, <2>4
<1>3. IsFiniteSet(1..k) /\ Cardinality(1..k) = k
  BY FS_Interval
<1>4. IsFiniteSet({t}) /\ Cardinality({t}) = 1
  BY FS_Singleton
<1>5. IsFiniteSet(new) /\ Cardinality(new) = k
  <2>1. /\ IsFiniteSet({t} \X (1..k))
        /\ Cardinality({t} \X (1..k)) = Cardinality({t}) * Cardinality(1..k)
    BY <1>3, <1>4, FS_Product
  <2>2. Cardinality({t}) * Cardinality(1..k) = k
    BY <1>3, <1>4
  <2> QED
    BY <2>1, <2>2
<1> HIDE DEF new
<1>6. Cardinality(Owed) \in Nat /\ Cardinality(Owed \cap new) = 0
  BY <1>2, FS_CardinalityType, FS_EmptySet
<1>7. /\ IsFiniteSet(Owed \cup new)
      /\ Cardinality(Owed \cup new)
           = Cardinality(Owed) + Cardinality(new) - Cardinality(Owed \cap new)
  BY <1>5, FS_Union
<1> QED
  BY <1>2, <1>5, <1>6, <1>7

(* A post that is made is not owed any more.                               *)
LEMMA OwesLess ==
  ASSUME TypeOK, NEW t \in Thread, raises[t] > 0,
         raises' = [raises EXCEPT ![t] = @ - 1], IsFiniteSet(Owed)
  PROVE  IsFiniteSet(Owed') /\ Cardinality(Owed') = Cardinality(Owed) - 1
<1> DEFINE p == <<t, raises[t]>>
<1>1. p \in Owed
  BY DEF Owed, TypeOK
<1>2. Owed' = Owed \ {p}
  <2>1. /\ raises'[t] = raises[t] - 1 /\ raises[t] \in Nat
        /\ \A u \in Thread \ {t} : raises'[u] = raises[u]
    BY DEF TypeOK
  <2>2. 1..(raises[t] - 1) = (1..raises[t]) \ {raises[t]}
    BY <2>1
  <2> QED
    BY <2>1, <2>2 DEF Owed
<1> HIDE DEF p
<1> QED
  BY <1>1, <1>2, FS_RemoveElement

(* A thread that starts or stops waiting is one waiter more or less.        *)
LEMMA OneWaiter ==
  ASSUME TypeOK, NEW t \in Thread, NEW p \in PCs, pc' = [pc EXCEPT ![t] = p],
         IsFiniteSet(Waiters)
  PROVE  /\ IsFiniteSet(Waiters')
         /\ Cardinality(Waiters') =
              IF pc[t] # "wait" /\ p = "wait" THEN Cardinality(Waiters) + 1
              ELSE IF pc[t] = "wait" /\ p # "wait" THEN Cardinality(Waiters) - 1
              ELSE Cardinality(Waiters)
<1>1. CASE pc[t] # "wait" /\ p = "wait"
  <2>1. Waiters' = Waiters \cup {t} /\ t \notin Waiters
    BY <1>1 DEF TypeOK, Waiters
  <2> QED
    BY <1>1, <2>1, FS_AddElement
<1>2. CASE pc[t] = "wait" /\ p # "wait"
  <2>1. Waiters' = Waiters \ {t} /\ t \in Waiters
    BY <1>2 DEF TypeOK, Waiters
  <2> QED
    BY <1>2, <2>1, FS_RemoveElement
<1>3. CASE pc[t] = "wait" <=> p = "wait"
  <2>1. Waiters' = Waiters
    BY <1>3 DEF TypeOK, Waiters
  <2> QED
    BY <1>3, <2>1
<1> QED
  BY <1>1, <1>2, <1>3

(* A thread that neither starts nor stops waiting, nor posts.              *)
LEMMA SameWaiters ==
  ASSUME TypeOK, AccountInv, NEW t \in Thread, NEW p \in PCs \ {"wait"},
         pc[t] # "wait", pc' = [pc EXCEPT ![t] = p], pc[t] # "raise",
         UNCHANGED <<sem, waiting, leaks, raises>>, Arrivals' = Arrivals
  PROVE  AccountInv'
<1>1. Waiters' = Waiters /\ Owed' = Owed
  BY DEF TypeOK, Waiters, Owed
<1>2. \A u \in Thread : pc'[u] # "raise" => raises'[u] = 0
  BY DEF TypeOK, AccountInv
<1> QED
  BY <1>1, <1>2 DEF AccountInv, ArrivalsAccounted

(* lock_recursive_lock, %unlock-recursive-lock-ptr, the semaphore: every   *)
(* step moves an arrival from one account to another.                      *)
LEMMA NextAccount ==
  ASSUME WasFreeArg, IInv, AccountInv, [Next]_vars
  PROVE  AccountInv'
<1>0. /\ Cardinality(Owed) \in Nat /\ Cardinality(Waiters) \in Nat
      /\ sem \in Nat /\ waiting \in Nat /\ avail \in Nat /\ leaks \in Nat
      /\ IsFiniteSet(Owed) /\ IsFiniteSet(Waiters)
      /\ sem + Cardinality(Owed) + waiting + Arrivals = Cardinality(Waiters) + leaks
      /\ \A t \in Thread : pc[t] # "raise" => raises[t] = 0
  BY FS_CardinalityType DEF IInv, TypeOK, AccountInv, ArrivalsAccounted
<1>t. TypeOK
  BY DEF IInv
<1> USE DEF PCs, GoTo
<1>1. ASSUME NEW t \in Thread, Begins(t)
      PROVE  AccountInv'
  <2>1. CASE Reenter(t)
    BY <1>0, <2>1 DEF Reenter, history, AccountInv, ArrivalsAccounted, Arrivals, Owed, Waiters
  <2>2. CASE ~Reenter(t)
    <3>1. /\ pc[t] = "idle" /\ pc' = [pc EXCEPT ![t] = "spin"]
          /\ UNCHANGED <<sem, waiting, leaks, raises, avail>>
      BY <1>1, <2>2 DEF Begins, StartLock, StartTry, StartCTry, Begin, lockFields, history
    <3> QED
      BY <1>t, <3>1, SameWaiters DEF Arrivals
  <2> QED
    BY <2>1, <2>2
<1>2. ASSUME NEW t \in Thread, NEW i \in Impls, StartUnlock(t, i)
      PROVE  AccountInv'
  <2>1. CASE LastRelease
    <3>1. /\ pc[t] = "idle" /\ pc' = [pc EXCEPT ![t] = "spin"]
          /\ UNCHANGED <<sem, waiting, leaks, raises, avail>>
      BY <1>2, <2>1 DEF StartUnlock, Begin, history
    <3> QED
      BY <1>t, <3>1, SameWaiters DEF Arrivals
  <2>2. CASE ~LastRelease
    <3>1. UNCHANGED <<sem, waiting, leaks, raises, avail, pc>>
      BY <1>2, <2>2 DEF StartUnlock, history
    <3> QED
      BY <1>0, <3>1 DEF AccountInv, ArrivalsAccounted, Arrivals, Owed, Waiters
  <2> QED
    BY <2>1, <2>2
<1>3. ASSUME NEW t \in Thread, GetSpinLock(t) \/ CTryBody(t) \/ Retry(t)
      PROVE  AccountInv'
  <2>1. /\ pc[t] \in {"spin", "body", "woken"} /\ Arrivals' = Arrivals
        /\ \E p \in PCs \ {"wait"} : pc' = [pc EXCEPT ![t] = p]
        /\ UNCHANGED <<sem, waiting, leaks, raises>>
    BY <1>3 DEF GetSpinLock, CTryBody, Retry, TakeOwnership, FirstArrival, Arrivals,
                lockFields, history
  <2> QED
    BY <1>t, <2>1, SameWaiters
<1>4. ASSUME NEW t \in Thread, LockBody(t)
      PROVE  AccountInv'
  <2>1. CASE FirstArrival
    <3>1. /\ pc[t] = "body" /\ pc' = [pc EXCEPT ![t] = "idle"] /\ Arrivals' = Arrivals
          /\ UNCHANGED <<sem, waiting, leaks, raises>>
      BY <1>4, <2>1 DEF LockBody, TakeOwnership, FirstArrival, Arrivals, history
    <3> QED
      BY <1>t, <3>1, SameWaiters
  <2>2. CASE ~FirstArrival
    <3>1. /\ pc[t] = "body" /\ avail # 0 /\ avail' = avail + 1
          /\ pc' = [pc EXCEPT ![t] = "wait"]
          /\ UNCHANGED <<sem, waiting, leaks, raises>>
      BY <1>4, <2>2 DEF LockBody, FirstArrival, history
    <3>2. Cardinality(Waiters') = Cardinality(Waiters) + 1 /\ IsFiniteSet(Waiters')
      BY <1>0, <1>t, <3>1, OneWaiter
    <3>3. Owed' = Owed /\ \A u \in Thread : pc'[u] # "raise" => raises'[u] = 0
      BY <1>0, <1>t, <3>1 DEF Owed, TypeOK
    <3> QED
      BY <1>0, <3>1, <3>2, <3>3 DEF AccountInv, ArrivalsAccounted, Arrivals
  <2> QED
    BY <2>1, <2>2
<1>5. ASSUME NEW t \in Thread, TryBody(t)
      PROVE  AccountInv'
  <2>1. CASE FirstArrival
    <3>1. /\ pc[t] = "body" /\ pc' = [pc EXCEPT ![t] = "idle"] /\ Arrivals' = Arrivals
          /\ UNCHANGED <<sem, waiting, leaks, raises>>
      BY <1>5, <2>1 DEF TryBody, TakeOwnership, FirstArrival, Arrivals
    <3> QED
      BY <1>t, <3>1, SameWaiters
  <2>2. CASE ~FirstArrival
    <3>1. /\ pc[t] = "body" /\ avail # 0 /\ avail' = avail + 1 /\ leaks' = leaks + 1
          /\ pc' = [pc EXCEPT ![t] = "idle"]
          /\ UNCHANGED <<sem, waiting, raises>>
      BY <1>5, <2>2 DEF TryBody, FirstArrival
    <3>2. /\ Owed' = Owed /\ Waiters' = Waiters
          /\ \A u \in Thread : pc'[u] # "raise" => raises'[u] = 0
      BY <1>0, <1>t, <3>1 DEF Owed, Waiters, TypeOK
    <3> QED
      BY <1>0, <3>1, <3>2 DEF AccountInv, ArrivalsAccounted, Arrivals
  <2> QED
    BY <2>1, <2>2
<1>6. ASSUME NEW t \in Thread, CUnlockBody(t) \/ LispUnlockBody(t)
      PROVE  AccountInv'
  <2>1. /\ pc[t] = "body" /\ pc' = [pc EXCEPT ![t] = "raise"] /\ raises[t] = 0
        /\ avail' = 0 /\ UNCHANGED <<sem, leaks>>
    BY <1>0, <1>6 DEF CUnlockBody, LispUnlockBody, history
  <2>2. avail \in Nat \ {0}
    BY <1>6, LockAssumption
       DEF CUnlockBody, LispUnlockBody, IInv, TypeOK, OwnInv, PhaseInv, InProgress
  <2>3. \E k \in Nat : /\ raises' = [raises EXCEPT ![t] = k]
                       /\ k + waiting' = waiting + avail - 1
    <3>1. CASE CUnlockBody(t)
      <4> DEFINE pending == avail - 1 + waiting - 1
      <4>1. /\ raises' = [raises EXCEPT ![t] = Posts(pending)]
            /\ waiting' = StillWaiting(pending)
        BY <3>1 DEF CUnlockBody
      <4>2. /\ Posts(pending) \in Nat
            /\ Posts(pending) + StillWaiting(pending) = waiting + avail - 1
        BY <1>0, <2>2 DEF StillWaiting, Posts
      <4> QED
        BY <4>1, <4>2
    <3>2. CASE LispUnlockBody(t)
      <4>1. /\ raises' = [raises EXCEPT ![t] = avail - 1 + waiting] /\ waiting' = 0
            /\ avail - 1 + waiting \in Nat
            /\ avail - 1 + waiting + 0 = waiting + avail - 1
        BY <1>0, <2>2, <3>2 DEF LispUnlockBody
      <4> QED
        BY <4>1
    <3> QED
      BY <1>6, <3>1, <3>2
  <2>4. PICK k \in Nat : /\ raises' = [raises EXCEPT ![t] = k]
                         /\ k + waiting' = waiting + avail - 1
    BY <2>3
  <2>5. IsFiniteSet(Owed') /\ Cardinality(Owed') = Cardinality(Owed) + k
    BY <1>0, <1>t, <2>1, <2>4, OwesMore
  <2>6. waiting' \in Nat
    BY <1>0, <1>6, <2>2 DEF CUnlockBody, LispUnlockBody, StillWaiting
  <2>7. Waiters' = Waiters /\ \A u \in Thread : pc'[u] # "raise" => raises'[u] = 0
    BY <1>0, <1>t, <2>1, <2>4 DEF Waiters, TypeOK
  <2>8. Arrivals = avail - 1 /\ Arrivals' = 0
    BY <2>1, <2>2 DEF Arrivals
  <2>9. sem + (Cardinality(Owed) + k) + waiting' + 0 = Cardinality(Waiters) + leaks
    <3>1. PICK kept \in Nat : waiting' = kept
      BY <2>6
    <3>2. sem + (Cardinality(Owed) + k) + kept + 0 = Cardinality(Waiters) + leaks
      BY <1>0, <2>2, <2>4, <2>8, <3>1
    <3> QED
      BY <3>1, <3>2
  <2>10. ArrivalsAccounted'
    BY <2>1, <2>5, <2>7, <2>8, <2>9 DEF ArrivalsAccounted
  <2> QED
    BY <1>0, <2>5, <2>7, <2>10 DEF AccountInv
<1>7. ASSUME NEW t \in Thread, Raise(t)
      PROVE  AccountInv'
  <2>1. CASE raises[t] > 0
    <3>1. /\ pc[t] = "raise" /\ UNCHANGED <<waiting, leaks, avail, pc>>
          /\ sem' = sem + 1 /\ raises' = [raises EXCEPT ![t] = @ - 1]
      BY <1>7, <2>1 DEF Raise, lockFields, history
    <3>2. IsFiniteSet(Owed') /\ Cardinality(Owed') = Cardinality(Owed) - 1
      BY <1>0, <1>t, <2>1, <3>1, OwesLess
    <3>3. Waiters' = Waiters /\ \A u \in Thread : pc'[u] # "raise" => raises'[u] = 0
      BY <1>0, <1>t, <3>1 DEF Waiters, TypeOK
    <3> QED
      BY <1>0, <3>1, <3>2, <3>3 DEF AccountInv, ArrivalsAccounted, Arrivals
  <2>2. CASE raises[t] = 0
    <3>1. /\ pc[t] = "raise" /\ pc' = [pc EXCEPT ![t] = "idle"]
          /\ UNCHANGED <<waiting, leaks, avail, sem, raises>>
      BY <1>7, <2>2 DEF Raise, lockFields, history
    <3>2. /\ Owed' = Owed /\ Waiters' = Waiters
          /\ \A u \in Thread : pc'[u] # "raise" => raises'[u] = 0
      BY <1>0, <1>t, <2>2, <3>1 DEF Owed, Waiters, TypeOK
    <3> QED
      BY <1>0, <3>1, <3>2 DEF AccountInv, ArrivalsAccounted, Arrivals
  <2> QED
    BY <1>t, <1>7, <2>1, <2>2 DEF Raise, TypeOK
<1>8. ASSUME NEW t \in Thread, Wake(t)
      PROVE  AccountInv'
  <2> DEFINE next == IF impl[t] = "c" THEN "spin" ELSE "woken"
  <2>1. /\ pc[t] = "wait" /\ sem > 0 /\ sem' = sem - 1
        /\ next \in PCs \ {"wait", "raise"} /\ pc' = [pc EXCEPT ![t] = next]
        /\ UNCHANGED <<waiting, leaks, avail, raises>>
    BY <1>8 DEF Wake, lockFields, history
  <2> HIDE DEF next
  <2>2. Cardinality(Waiters') = Cardinality(Waiters) - 1 /\ IsFiniteSet(Waiters')
    BY <1>0, <1>t, <2>1, OneWaiter
  <2>3. Owed' = Owed /\ \A u \in Thread : pc'[u] # "raise" => raises'[u] = 0
    BY <1>0, <1>t, <2>1 DEF Owed, TypeOK
  <2> QED
    BY <1>0, <2>1, <2>2, <2>3 DEF AccountInv, ArrivalsAccounted, Arrivals
<1>9. ASSUME NEW t \in Thread, AbortWait(t)
      PROVE  AccountInv'
  <2>1. /\ pc[t] \in {"wait", "woken"} /\ pc' = [pc EXCEPT ![t] = "idle"]
        /\ leaks' = IF pc[t] = "wait" THEN leaks + 1 ELSE leaks
        /\ UNCHANGED <<waiting, avail, sem, raises>>
    BY <1>9 DEF AbortWait, lockFields
  <2>2. CASE pc[t] = "wait"
    <3>1. Cardinality(Waiters') = Cardinality(Waiters) - 1 /\ IsFiniteSet(Waiters')
      BY <1>0, <1>t, <2>1, <2>2, OneWaiter
    <3>2. Owed' = Owed /\ \A u \in Thread : pc'[u] # "raise" => raises'[u] = 0
      BY <1>0, <1>t, <2>1, <2>2 DEF Owed, TypeOK
    <3> QED
      BY <1>0, <2>1, <2>2, <3>1, <3>2 DEF AccountInv, ArrivalsAccounted, Arrivals
  <2>3. CASE pc[t] = "woken"
    BY <1>t, <2>1, <2>3, SameWaiters DEF Arrivals
  <2> QED
    BY <2>1, <2>2, <2>3
<1>10. CASE UNCHANGED vars
  BY <1>0, <1>10
     DEF vars, lockFields, history, AccountInv, ArrivalsAccounted, Arrivals, Owed, Waiters
<1> QED
  BY <1>1, <1>2, <1>3, <1>4, <1>5, <1>6, <1>7, <1>8, <1>9, <1>10
     DEF Next, Unlocks, Continues

(* No unlock forgets a waiter, and none gets rid of an arrival whose       *)
(* thread is gone (the avail and waiting fields of the lock, its semaphore *)
(* and the loops that post it).                                            *)
THEOREM ArrivalsAreAccounted == ASSUME WasFreeArg PROVE Spec => []ArrivalsAccounted
<1>1. Init => AccountInv
  <2> SUFFICES ASSUME Init PROVE AccountInv
    OBVIOUS
  <2>1. Owed = {} /\ Waiters = {}
    BY DEF Init, Owed, Waiters
  <2>2. IsFiniteSet({}) /\ Cardinality({}) = 0
    BY FS_EmptySet
  <2> QED
    BY <2>1, <2>2 DEF Init, AccountInv, ArrivalsAccounted, Arrivals
<1>2. IInv /\ AccountInv /\ [Next]_vars => AccountInv'
  BY NextAccount
<1>3. AccountInv => ArrivalsAccounted
  BY DEF AccountInv
<1> QED
  BY <1>1, <1>2, <1>3, Inductive, PTL DEF Spec
=============================================================================
