---------------------------- MODULE ReadWriteLock ----------------------------
(***************************************************************************)
(* The read-write lock of level-0/l0-misc.lisp (the build without          *)
(* futexes): MAKE-READ-WRITE-LOCK, WITH-READ-LOCK and WITH-WRITE-LOCK, and *)
(* the promotion hash tables use.  A spinlock protects the lock word; two  *)
(* semaphores hold the blocked readers and the blocked writers.  A wait is *)
(* interruptible, and a waiter that is thrown out of it leaves its         *)
(* "expression of interest" behind in the blocked-readers or               *)
(* blocked-writers field.                                                  *)
(***************************************************************************)
EXTENDS Integers, FiniteSets

CONSTANTS Thread,          \* the threads that use the lock
          NoThread,        \* the writer field when nobody writes
          WriterPromotes,  \* whether a thread promotes a lock it writes
          MaxDepth,        \* bound: nesting of one thread's acquisitions
          MaxAborts        \* bound: waits an interrupt throws out of

ASSUME RWAssumption ==
    /\ NoThread \notin Thread
    /\ WriterPromotes \in BOOLEAN
    /\ MaxDepth \in Nat
    /\ MaxAborts \in Nat

VARIABLES
    spin,             \* the thread that has the spinlock, or NoThread
    state,            \* 0 free, > 0 the writer's depth, < 0 minus the readers
    writer,           \* the thread that writes, or NoThread
    blockedReaders,   \* expressions of interest in reading
    blockedWriters,   \* expressions of interest in writing
    readerSignal,     \* value of the readers' semaphore
    writerSignal,     \* value of the writers' semaphore
    pc,               \* where each thread is in its operation
    op,               \* "read", "write", "unlock", "promote" or the unlock in it
    reads,            \* read acquisitions each thread was granted and holds
    writes,           \* write acquisitions each thread was granted and holds
    aborts            \* history: aborted waits

word == <<state, writer, blockedReaders, blockedWriters>>
signals == <<readerSignal, writerSignal>>
grants == <<reads, writes>>
vars == <<spin, word, signals, pc, op, grants, aborts>>

Init ==
    /\ spin = NoThread
    /\ state = 0
    /\ writer = NoThread
    /\ blockedReaders = 0
    /\ blockedWriters = 0
    /\ readerSignal = 0
    /\ writerSignal = 0
    /\ pc = [t \in Thread |-> "idle"]
    /\ op = [t \in Thread |-> "read"]
    /\ reads = [t \in Thread |-> 0]
    /\ writes = [t \in Thread |-> 0]
    /\ aborts = 0
-----------------------------------------------------------------------------
GoTo(t, where) == pc' = [pc EXCEPT ![t] = where]

(* What a thread may ask for.  A reader does not ask to write: it would    *)
(* wait for itself.  A promoter reads exactly once, or writes.             *)
MayBegin(t, o) ==
    CASE o = "read"    -> reads[t] < MaxDepth
      [] o = "write"   -> reads[t] = 0 /\ writes[t] < MaxDepth
      [] o = "unlock"  -> reads[t] > 0 \/ writes[t] > 0
      [] o = "promote" -> reads[t] = 1 \/ (writes[t] > 0 /\ WriterPromotes)

Begin(t, o) ==
    /\ pc[t] = "idle"
    /\ MayBegin(t, o)
    /\ GoTo(t, "spin")
    /\ op' = [op EXCEPT ![t] = o]
    /\ UNCHANGED <<spin, word, signals, grants, aborts>>

GetSpinLock(t) ==
    /\ pc[t] = "spin"
    /\ spin = NoThread
    /\ spin' = t
    /\ GoTo(t, "body")
    /\ UNCHANGED <<word, signals, op, grants, aborts>>

InBody(t, o) == pc[t] = "body" /\ op[t] = o

(* Mutants are wrong versions of the definition that follows them; each    *)
(* shows that a property notices the slip.  No action uses them.           *)
MutantReadsPastWriter == state <= 1
ReadersMayEnter == state <= 0

(* A writer that asks to read is refused with a deadlock error.            *)
ReadBody(t) ==
    /\ InBody(t, "read")
    /\ spin' = NoThread
    /\ \/ writer = t /\ GoTo(t, "idle") /\ UNCHANGED <<state, blockedReaders, reads>>
       \/ /\ writer # t
          /\ ReadersMayEnter
          /\ state' = state - 1
          /\ reads' = [reads EXCEPT ![t] = @ + 1]
          /\ GoTo(t, "idle")
          /\ UNCHANGED blockedReaders
       \/ /\ writer # t
          /\ ~ReadersMayEnter
          /\ blockedReaders' = blockedReaders + 1
          /\ GoTo(t, "wait")
          /\ UNCHANGED <<state, reads>>
    /\ UNCHANGED <<writer, blockedWriters, signals, op, writes, aborts>>

MutantWaitsUncounted == blockedWriters
OneMoreWriter == blockedWriters + 1

(* The writer names itself only after it has released the spinlock.        *)
WriteBody(t) ==
    /\ InBody(t, "write")
    /\ spin' = NoThread
    /\ \/ /\ writer = t
          /\ state' = state + 1
          /\ writes' = [writes EXCEPT ![t] = @ + 1]
          /\ GoTo(t, "idle")
          /\ UNCHANGED blockedWriters
       \/ /\ writer # t
          /\ state = 0
          /\ state' = 1
          /\ writes' = [writes EXCEPT ![t] = 1]
          /\ GoTo(t, "name")
          /\ UNCHANGED blockedWriters
       \/ /\ writer # t
          /\ state # 0
          /\ blockedWriters' = OneMoreWriter
          /\ GoTo(t, "wait")
          /\ UNCHANGED <<state, writes>>
    /\ UNCHANGED <<writer, blockedReaders, signals, op, reads, aborts>>

NameWriter(t) ==
    /\ pc[t] = "name"
    /\ writer' = t
    /\ GoTo(t, "idle")
    /\ UNCHANGED <<spin, state, blockedReaders, blockedWriters, signals, op, grants, aborts>>

MutantReadersWhenNoWriter ==
    /\ writer' = NoThread
    /\ writerSignal' = writerSignal + blockedWriters
    /\ blockedWriters' = 0
    /\ readerSignal' = readerSignal + IF blockedWriters = 0 THEN blockedReaders ELSE 0
    /\ blockedReaders' = IF blockedWriters = 0 THEN 0 ELSE blockedReaders

(* The lock has become free: every expression of interest gets a post, and *)
(* both kinds are forgotten.  The posts are made inside the spinlock's     *)
(* section, where a woken thread cannot get any further than the spinlock. *)
WakeEverybody ==
    /\ writer' = NoThread
    /\ writerSignal' = writerSignal + blockedWriters
    /\ readerSignal' = readerSignal + blockedReaders
    /\ blockedWriters' = 0
    /\ blockedReaders' = 0

StateAfterUnlock == IF state > 0 THEN state - 1 ELSE state + 1

(* The unlock; a promotion that has to block unlocks the same way and then *)
(* asks to write.  A thread that is not the writer, or finds the lock      *)
(* free, gets an error and changes nothing.                                *)
UnlockBody(t) ==
    /\ pc[t] = "body"
    /\ op[t] \in {"unlock", "unlockToWrite"}
    /\ spin' = NoThread
    /\ \/ /\ state < 0 \/ (state > 0 /\ writer = t)
          /\ state' = StateAfterUnlock
          /\ IF StateAfterUnlock = 0
             THEN WakeEverybody
             ELSE UNCHANGED <<writer, blockedReaders, blockedWriters, signals>>
          /\ IF state > 0
             THEN writes' = [writes EXCEPT ![t] = @ - 1] /\ UNCHANGED reads
             ELSE reads' = [reads EXCEPT ![t] = @ - 1] /\ UNCHANGED writes
       \/ /\ state = 0 \/ (state > 0 /\ writer # t)
          /\ UNCHANGED <<word, signals, grants>>
    /\ IF op[t] = "unlock"
       THEN GoTo(t, "idle") /\ UNCHANGED op
       ELSE GoTo(t, "spin") /\ op' = [op EXCEPT ![t] = "write"]
    /\ UNCHANGED aborts

(* A promoter that already writes falls out of the first branch of the     *)
(* cond, which does not release the spinlock.                              *)
PromoteBody(t) ==
    /\ InBody(t, "promote")
    /\ \/ state > 0 /\ writer = t /\ GoTo(t, "idle") /\ UNCHANGED <<spin, state, writer, op, grants>>
       \/ /\ state = 0 \/ (state > 0 /\ writer # t)
          /\ spin' = NoThread
          /\ GoTo(t, "idle")
          /\ UNCHANGED <<state, writer, op, grants>>
       \/ /\ state = -1
          /\ spin' = NoThread
          /\ state' = 1
          /\ writer' = t
          /\ reads' = [reads EXCEPT ![t] = @ - 1]
          /\ writes' = [writes EXCEPT ![t] = 1]
          /\ GoTo(t, "idle")
          /\ UNCHANGED op
       \/ /\ state < -1
          /\ spin' = NoThread
          /\ GoTo(t, "spin")
          /\ op' = [op EXCEPT ![t] = "unlockToWrite"]
          /\ UNCHANGED <<state, writer, grants>>
    /\ UNCHANGED <<blockedReaders, blockedWriters, signals, aborts>>
-----------------------------------------------------------------------------
Wake(t) ==
    /\ pc[t] = "wait"
    /\ IF op[t] = "read"
       THEN readerSignal > 0 /\ readerSignal' = readerSignal - 1 /\ UNCHANGED writerSignal
       ELSE writerSignal > 0 /\ writerSignal' = writerSignal - 1 /\ UNCHANGED readerSignal
    /\ GoTo(t, "woken")
    /\ UNCHANGED <<spin, word, op, grants, aborts>>

Retry(t) ==
    /\ pc[t] = "woken"
    /\ GoTo(t, "spin")
    /\ UNCHANGED <<spin, word, signals, op, grants, aborts>>

(* An interrupt throws out of the wait, before or after a post was taken.  *)
AbortWait(t) ==
    /\ pc[t] \in {"wait", "woken"}
    /\ aborts < MaxAborts
    /\ aborts' = aborts + 1
    /\ GoTo(t, "idle")
    /\ UNCHANGED <<spin, word, signals, op, grants>>
-----------------------------------------------------------------------------
Begins(t) == \E o \in {"read", "write", "promote"} : Begin(t, o)

Unlocks(t) == Begin(t, "unlock")

Continues(t) ==
    \/ GetSpinLock(t)
    \/ ReadBody(t) \/ WriteBody(t) \/ NameWriter(t) \/ UnlockBody(t) \/ PromoteBody(t)
    \/ Wake(t) \/ Retry(t)

Next == \E t \in Thread : Begins(t) \/ Unlocks(t) \/ Continues(t) \/ AbortWait(t)

(* A thread keeps running inside an operation, and whoever holds the lock  *)
(* gives it back.                                                          *)
Fairness == \A t \in Thread : WF_vars(Continues(t)) /\ WF_vars(Unlocks(t))

Spec == Init /\ [][Next]_vars

FairSpec == Spec /\ Fairness
-----------------------------------------------------------------------------
PCs == {"idle", "spin", "body", "name", "wait", "woken"}
Ops == {"read", "write", "unlock", "promote", "unlockToWrite"}

TypeOK ==
    /\ {spin, writer} \subseteq Thread \cup {NoThread}
    /\ state \in Int
    /\ {blockedReaders, blockedWriters, readerSignal, writerSignal, aborts} \subseteq Nat
    /\ pc \in [Thread -> PCs]
    /\ op \in [Thread -> Ops]
    /\ reads \in [Thread -> Nat]
    /\ writes \in [Thread -> Nat]

(* A writer excludes everybody else, its own reads included.               *)
WriterExcludes ==
    \A t, u \in Thread : writes[t] > 0 => reads[u] = 0 /\ (u # t => writes[u] = 0)

(* The state field is exactly what the threads hold: the writer's depth,   *)
(* or minus the number of read acquisitions of all threads together.       *)
ReadHolds == {h \in Thread \X (1..MaxDepth) : h[2] <= reads[h[1]]}

StateCountsHolds ==
    /\ state > 0 => \E t \in Thread : writes[t] = state
    /\ state <= 0 => Cardinality(ReadHolds) = -state /\ \A t \in Thread : writes[t] = 0

Sleepers(o) == {t \in Thread : pc[t] = "wait" /\ op[t] = o}

(* "Spurious wakeups are better than deadlock": every sleeper is covered   *)
(* by an expression of interest the next release will answer, or by a post *)
(* that is already there.                                                  *)
SleepersCovered ==
    /\ Cardinality(Sleepers("read")) <= blockedReaders + readerSignal
    /\ Cardinality(Sleepers("write")) <= blockedWriters + writerSignal

(* A reader does not sleep on a lock that nobody writes, nor a writer on a *)
(* free one, even if other waiters were thrown out of their waits.         *)
SleepersWake ==
    \A t \in Thread :
        /\ (t \in Sleepers("read") /\ state <= 0) ~> (t \notin Sleepers("read") \/ state > 0)
        /\ (t \in Sleepers("write") /\ state = 0) ~> (t \notin Sleepers("write") \/ state # 0)

(* The spinlock is held only inside the body of an operation.              *)
SpinHeldInside == \A t \in Thread : spin = t => pc[t] = "body"
=============================================================================
