---------------------------- MODULE RecursiveLock ----------------------------
(***************************************************************************)
(* The recursive lock built on a spinlock and a counting semaphore (every  *)
(* build but the futex ones).  One lock word is worked on by two           *)
(* implementations: the C functions of lisp-kernel/thread_manager.c and    *)
(* the Lisp functions of level-0/l0-misc.lisp.  The kernel's TCR area lock *)
(* and exception lock are taken by both, because *kernel-tcr-area-lock*    *)
(* and *kernel-exception-lock* are Lisp lock objects over them.            *)
(*                                                                         *)
(* The implementations hand the lock over differently: the C unlock posts  *)
(* the semaphore once and remembers the other waiters in "waiting", the    *)
(* Lisp unlock posts once for every arrival it counted.  A Lisp waiter can *)
(* be thrown out of its wait by an interrupt; a C waiter cannot.           *)
(***************************************************************************)
EXTENDS Integers, FiniteSets

CONSTANTS Thread,        \* the threads that use the lock
          NoThread,      \* the NULL owner
          Impls,         \* which implementations they use: {"c", "lisp"} or less
          Tries,         \* the try-lock operations they use, of "try" and "ctry"
          WasFreeArg,    \* whether recursive_lock_trylock gets a was_free pointer
          MaxDepth,      \* bound: nesting of one thread's acquisitions
          MaxLeaks       \* bound: failed Lisp tries and aborted Lisp waits

ASSUME LockAssumption ==
    /\ NoThread \notin Thread
    /\ Impls \subseteq {"c", "lisp"}
    /\ Tries \subseteq {"try", "ctry"}
    /\ WasFreeArg \in BOOLEAN
    /\ MaxDepth \in Nat
    /\ MaxLeaks \in Nat

VARIABLES
    spin,       \* the thread in the spinlock's section, or NoThread
    owner,      \* the lock's owner field
    count,      \* the lock's count field
    avail,      \* arrivals since the lock was last free, the owner's included
    waiting,    \* arrivals a C unlock has passed on without posting for them
    sem,        \* the value of the lock's semaphore
    pc,         \* where each thread is in its operation
    op,         \* the operation, "lock", "try", "ctry" or "unlock"
    impl,       \* the implementation that runs it
    raises,     \* posts a releasing thread has still to make
    depth,      \* acquisitions a thread was told of and did not undo
    leaks,      \* history: arrivals counted in avail whose thread is gone
    lost        \* history: aborts that took a post of the semaphore with them

lockFields == <<owner, count, avail, waiting>>
history == <<leaks, lost>>
vars == <<spin, lockFields, sem, pc, op, impl, raises, depth, history>>

Init ==
    /\ spin = NoThread
    /\ owner = NoThread
    /\ count = 0
    /\ avail = 0
    /\ waiting = 0
    /\ sem = 0
    /\ pc = [t \in Thread |-> "idle"]
    /\ op = [t \in Thread |-> "lock"]
    /\ impl = [t \in Thread |-> "c"]
    /\ raises = [t \in Thread |-> 0]
    /\ depth = [t \in Thread |-> 0]
    /\ leaks = 0
    /\ lost = 0
-----------------------------------------------------------------------------
GoTo(t, where) == pc' = [pc EXCEPT ![t] = where]

Begin(t, o, i) ==
    /\ GoTo(t, "spin")
    /\ op' = [op EXCEPT ![t] = o]
    /\ impl' = [impl EXCEPT ![t] = i]

(* Mutants are wrong versions of the definition that follows them; each    *)
(* shows that a property notices the slip.  No action uses them.           *)
LastRelease == count = 1

MutantSecondArrival == avail <= 1
FirstArrival == avail = 0

(* The fast path of every acquisition: only a thread itself makes itself   *)
(* the owner, so the test needs no spinlock.                               *)
Reenter(t) ==
    /\ pc[t] = "idle"
    /\ owner = t
    /\ depth[t] < MaxDepth
    /\ count' = count + 1
    /\ depth' = [depth EXCEPT ![t] = @ + 1]
    /\ UNCHANGED <<spin, owner, avail, waiting, sem, pc, op, impl, raises, history>>

StartLock(t, i) ==
    /\ pc[t] = "idle"
    /\ owner # t
    /\ Begin(t, "lock", i)
    /\ UNCHANGED <<spin, lockFields, sem, raises, depth, history>>

StartTry(t) ==
    /\ pc[t] = "idle"
    /\ leaks < MaxLeaks
    /\ owner # t
    /\ Begin(t, "try", "lisp")
    /\ UNCHANGED <<spin, lockFields, sem, raises, depth, history>>

(* recursive_lock_trylock looks at the owner before it takes the spinlock, *)
(* and takes the spinlock whatever it saw.                                 *)
StartCTry(t) ==
    /\ pc[t] = "idle"
    /\ count < MaxDepth
    /\ Begin(t, "ctry", "c")
    /\ UNCHANGED <<spin, lockFields, sem, raises, depth, history>>

(* A thread that is not the owner gets EPERM or a not-lock-owner error and *)
(* changes nothing.                                                        *)
StartUnlock(t, i) ==
    /\ pc[t] = "idle"
    /\ owner = t
    /\ count' = count - 1
    /\ depth' = [depth EXCEPT ![t] = @ - 1]
    /\ IF LastRelease THEN Begin(t, "unlock", i) ELSE UNCHANGED <<pc, op, impl>>
    /\ UNCHANGED <<spin, owner, avail, waiting, sem, raises, history>>
-----------------------------------------------------------------------------
GetSpinLock(t) ==
    /\ pc[t] = "spin"
    /\ spin = NoThread
    /\ spin' = t
    /\ GoTo(t, "body")
    /\ UNCHANGED <<lockFields, sem, op, impl, raises, depth, history>>

TakeOwnership(t) ==
    /\ owner' = t
    /\ count' = 1
    /\ depth' = [depth EXCEPT ![t] = 1]
    /\ GoTo(t, "idle")

LockBody(t) ==
    /\ pc[t] = "body"
    /\ op[t] = "lock"
    /\ avail' = avail + 1
    /\ spin' = NoThread
    /\ \/ FirstArrival /\ TakeOwnership(t)
       \/ ~FirstArrival /\ GoTo(t, "wait") /\ UNCHANGED <<owner, count, depth>>
    /\ UNCHANGED <<waiting, sem, op, impl, raises, history>>

(* The Lisp try counts itself in avail even when it fails.                 *)
TryBody(t) ==
    /\ pc[t] = "body"
    /\ op[t] = "try"
    /\ avail' = avail + 1
    /\ spin' = NoThread
    /\ \/ FirstArrival /\ TakeOwnership(t) /\ UNCHANGED leaks
       \/ /\ ~FirstArrival
          /\ leaks' = leaks + 1
          /\ GoTo(t, "idle")
          /\ UNCHANGED <<owner, count, depth>>
    /\ UNCHANGED <<waiting, sem, op, impl, raises, lost>>

(* An owner that passes a was_free pointer is done at once.  One that does *)
(* not goes on to the compare-and-swap of avail with its count already     *)
(* incremented, and is told EBUSY because avail is not 0.                  *)
CTryBody(t) ==
    /\ pc[t] = "body"
    /\ op[t] = "ctry"
    /\ spin' = NoThread
    /\ \/ /\ owner = t
          /\ count' = count + 1
          /\ depth' = [depth EXCEPT ![t] = IF WasFreeArg THEN @ + 1 ELSE @]
          /\ GoTo(t, "idle")
          /\ UNCHANGED <<owner, avail>>
       \/ owner # t /\ FirstArrival /\ avail' = 1 /\ TakeOwnership(t)
       \/ owner # t /\ ~FirstArrival /\ GoTo(t, "idle") /\ UNCHANGED <<owner, count, avail, depth>>
    /\ UNCHANGED <<waiting, sem, op, impl, raises, history>>

(* The C unlock counts one arrival as woken: it posts for that one, if     *)
(* there is one, and keeps the rest in waiting.                            *)
MutantForgetsTheRest(pending) == 0
StillWaiting(pending) == IF pending > 0 THEN pending ELSE 0

MutantPostsOneTooFew(pending) == IF pending > 0 THEN 1 ELSE 0
Posts(pending) == IF pending >= 0 THEN 1 ELSE 0

CUnlockBody(t) ==
    LET pending == avail - 1 + waiting - 1
    IN  /\ pc[t] = "body"
        /\ op[t] = "unlock"
        /\ impl[t] = "c"
        /\ owner' = NoThread
        /\ avail' = 0
        /\ waiting' = StillWaiting(pending)
        /\ raises' = [raises EXCEPT ![t] = Posts(pending)]
        /\ spin' = NoThread
        /\ GoTo(t, "raise")
        /\ UNCHANGED <<count, sem, op, impl, depth, history>>

LispUnlockBody(t) ==
    /\ pc[t] = "body"
    /\ op[t] = "unlock"
    /\ impl[t] = "lisp"
    /\ owner' = NoThread
    /\ avail' = 0
    /\ waiting' = 0
    /\ raises' = [raises EXCEPT ![t] = avail - 1 + waiting]
    /\ spin' = NoThread
    /\ GoTo(t, "raise")
    /\ UNCHANGED <<count, sem, op, impl, depth, history>>

Raise(t) ==
    /\ pc[t] = "raise"
    /\ \/ /\ raises[t] > 0
          /\ sem' = sem + 1
          /\ raises' = [raises EXCEPT ![t] = @ - 1]
          /\ UNCHANGED pc
       \/ raises[t] = 0 /\ GoTo(t, "idle") /\ UNCHANGED <<sem, raises>>
    /\ UNCHANGED <<spin, lockFields, op, impl, depth, history>>
-----------------------------------------------------------------------------
(* The C waiter retries as soon as it has taken a post; the Lisp waiter    *)
(* first leaves its without-interrupts, where pending interrupts run.      *)
Wake(t) ==
    /\ pc[t] = "wait"
    /\ sem > 0
    /\ sem' = sem - 1
    /\ GoTo(t, IF impl[t] = "c" THEN "spin" ELSE "woken")
    /\ UNCHANGED <<spin, lockFields, op, impl, raises, depth, history>>

Retry(t) ==
    /\ pc[t] = "woken"
    /\ GoTo(t, "spin")
    /\ UNCHANGED <<spin, lockFields, sem, op, impl, raises, depth, history>>

(* An interrupt function throws out of the Lisp wait: process-reset,       *)
(* process-kill, or any process-interrupt that does not return.            *)
AbortWait(t) ==
    /\ pc[t] \in {"wait", "woken"}
    /\ impl[t] = "lisp"
    /\ leaks + lost < MaxLeaks
    /\ leaks' = IF pc[t] = "wait" THEN leaks + 1 ELSE leaks
    /\ lost' = IF pc[t] = "woken" THEN lost + 1 ELSE lost
    /\ GoTo(t, "idle")
    /\ UNCHANGED <<spin, lockFields, sem, op, impl, raises, depth>>
-----------------------------------------------------------------------------
Begins(t) ==
    \/ Reenter(t)
    \/ \E i \in Impls : StartLock(t, i)
    \/ "try" \in Tries /\ StartTry(t)
    \/ "ctry" \in Tries /\ StartCTry(t)

Unlocks(t) == \E i \in Impls : StartUnlock(t, i)

Continues(t) ==
    \/ GetSpinLock(t) \/ LockBody(t) \/ TryBody(t) \/ CTryBody(t)
    \/ CUnlockBody(t) \/ LispUnlockBody(t) \/ Raise(t)
    \/ Wake(t) \/ Retry(t)

Next == \E t \in Thread : Begins(t) \/ Unlocks(t) \/ Continues(t) \/ AbortWait(t)

(* A thread in the middle of an operation keeps running, and a thread that *)
(* holds the lock gives it back.  Nobody has to start an operation.        *)
Fairness == \A t \in Thread : WF_vars(Continues(t)) /\ WF_vars(Unlocks(t))

Spec == Init /\ [][Next]_vars

FairSpec == Spec /\ Fairness
-----------------------------------------------------------------------------
PCs == {"idle", "spin", "body", "raise", "wait", "woken"}

TypeOK ==
    /\ spin \in Thread \cup {NoThread}
    /\ owner \in Thread \cup {NoThread}
    /\ {count, avail, waiting, sem, leaks, lost} \subseteq Nat
    /\ pc \in [Thread -> PCs]
    /\ op \in [Thread -> {"lock", "try", "ctry", "unlock"}]
    /\ impl \in [Thread -> {"c", "lisp"}]
    /\ raises \in [Thread -> Nat]
    /\ depth \in [Thread -> Nat]

(* Whoever was told it has the lock is the owner, the count is exactly the *)
(* number of acquisitions it still has to undo, and so no two threads have *)
(* been told so at once.                                                   *)
HoldersOwn ==
    /\ \A t \in Thread : depth[t] > 0 => owner = t /\ count = depth[t]
    /\ owner # NoThread => count = depth[owner]

Waiters == {t \in Thread : pc[t] = "wait"}

Arrivals == IF avail = 0 THEN 0 ELSE avail - 1

(* The posts that releasing threads have still to make.                    *)
Owed == UNION {{t} \X (1..raises[t]) : t \in Thread}

(* Every sleeping waiter is accounted for: by a post it can take, a post   *)
(* some releasing thread still has to make, an arrival the present owner   *)
(* will pass on, or one the next C unlock will.  What is left over is      *)
(* exactly the failed tries and aborted waits: no unlock forgets a waiter, *)
(* and no unlock ever gets rid of a stale arrival either.                  *)
ArrivalsAccounted ==
    sem + Cardinality(Owed) + waiting + Arrivals = Cardinality(Waiters) + leaks

(* The lock is a reentrant mutex.  A release takes effect when the count   *)
(* drops to 0, before the spinlock is taken to hand the lock over.         *)
Mutex == INSTANCE ReentrantMutex
            WITH holder <- IF count = 0 THEN NoThread ELSE owner, depth <- count

ImplementsMutex == Mutex!Spec

(* A free lock that somebody sleeps on is taken by somebody, as long as no *)
(* interrupt has thrown out a waiter that had already taken a post.        *)
FreeLockTaken ==
    [](lost = 0) => \A t \in Thread :
        (pc[t] = "wait" /\ owner = NoThread) ~> (pc[t] # "wait" \/ owner # NoThread)

(* The same without the premise: GRAB-LOCK "waits until a given lock can   *)
(* be obtained, then obtains it".                                          *)
FreeLockAlwaysTaken ==
    \A t \in Thread :
        (pc[t] = "wait" /\ owner = NoThread) ~> (pc[t] # "wait" \/ owner # NoThread)
=============================================================================
