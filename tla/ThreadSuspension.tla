-------------------------- MODULE ThreadSuspension --------------------------
(***************************************************************************)
(* How the kernel stops and restarts Lisp threads: lisp-kernel/            *)
(* thread_manager.c (suspend_tcr, tcr_suspend_ack, resume_tcr, the signal  *)
(* handler suspend_resume_handler, the ring of thread context records) and *)
(* the trap entry of x86-exceptions.c through which Lisp and the collector *)
(* call them.                                                              *)
(*                                                                         *)
(* A thread that traps takes the exception lock, then the area lock.       *)
(* Under the area lock it increments suspend_count of its target, or of    *)
(* every other thread of the ring for a collection, sends a signal where   *)
(* the count became 1, and waits for the target's handler to acknowledge.  *)
(* The handler then waits on the thread's resume semaphore.  A thread at   *)
(* interrupt level -2 only notes the request and serves it when it         *)
(* restores its level.  The two locks are taken here as plain mutual       *)
(* exclusion, which RecursiveLock implements.                              *)
(***************************************************************************)
EXTENDS Integers, FiniteSets

CONSTANTS
    Threads,     \* thread context records (TCRs)
    None,        \* no thread
    Starters,    \* the threads that run at the start
    Deferrers,   \* the threads whose code uses with-deferred-gc
    HaveTLS,     \* whether the build keeps TCRs in thread-local storage
    MaxTraps     \* bound: calls of the kernel made by all threads together

ASSUME SuspensionAssumption ==
    /\ None \notin Threads
    /\ Starters \subseteq Threads /\ Deferrers \subseteq Threads
    /\ HaveTLS \in BOOLEAN /\ MaxTraps \in Nat

VARIABLES
    pc,          \* where each thread is, below any signal handler it is in
    op,          \* the operation a trapping thread asked for
    target,      \* its argument
    todo,        \* the threads its current loop has still to visit
    traps,       \* calls made so far
    exOwner,     \* owner of EXCEPTION_LOCK, or None
    areaOwner,   \* owner of TCR_AREA_LOCK, or None
    ring,        \* the circular list of TCRs
    alive,       \* TCRs with osid # 0, whose semaphores exist
    count,       \* suspend_count of each TCR
    suspend,     \* its semaphore suspend: acknowledgements
    resume,      \* its semaphore resume
    signals,     \* suspend signals sent and not yet delivered
    ackPending,  \* TCRs with the flag SUSPEND_ACK_PENDING
    pending,     \* TCRs with the flag PENDING_SUSPEND
    handler,     \* progress of the suspend handler of each thread
    context,     \* TCRs whose suspend_context is set
    deferred,    \* threads at interrupt level -2
    holds        \* history: suspensions by Lisp that no Lisp call undid

locks == <<exOwner, areaOwner>>
requests == <<count, suspend, resume, signals, ackPending>>
own == <<pending, handler, context, deferred>>
vars == <<pc, op, target, todo, traps, locks, ring, alive, requests, own, holds>>

Operations == {"none", "suspend", "resume", "gc", "create", "now"}

Points == {"unborn", "newborn", "lisp", "unbind", "raising", "getEx", "getArea",
           "suspending", "acking", "stopped", "resuming", "leaving",
           "awaitChild", "exiting", "gone"}

Init ==
    /\ pc = [t \in Threads |-> IF t \in Starters THEN "lisp" ELSE "unborn"]
    /\ op = [t \in Threads |-> "none"]
    /\ target = [t \in Threads |-> None]
    /\ todo = [t \in Threads |-> {}]
    /\ traps = 0
    /\ exOwner = None /\ areaOwner = None
    /\ ring = Starters /\ alive = Starters
    /\ count = [t \in Threads |-> 0]
    /\ suspend = [t \in Threads |-> 0] /\ resume = [t \in Threads |-> 0]
    /\ signals = [t \in Threads |-> 0]
    /\ ackPending = {} /\ pending = {} /\ context = {} /\ deferred = {}
    /\ handler = [t \in Threads |-> "off"]
    /\ holds = [t \in Threads |-> 0]

-----------------------------------------------------------------------------
(* Outside its suspend handler a thread runs its own code.                 *)
Runs(t, point) == handler[t] = "off" /\ pc[t] = point

Goto(t, point) == pc' = [pc EXCEPT ![t] = point]

(* Whoever changes the ring, or suspends or resumes, waits for this.       *)
MutantBargesIn == TRUE
AreaLockFree == areaOwner = None

(* Lisp code traps: signal_handler serves a suspension that was noted at   *)
(* level -2 by signalling itself, before it asks for the exception lock.   *)
EnterTrap(t, o, u) ==
    /\ op' = [op EXCEPT ![t] = o]
    /\ target' = [target EXCEPT ![t] = u]
    /\ pending' = pending \ {t}
    /\ signals' = IF t \in pending THEN [signals EXCEPT ![t] = @ + 1] ELSE signals
    /\ Goto(t, IF t \in pending THEN "raising" ELSE "getEx")

(* Suspends, resumes or collects; the body of with-deferred-gc may not.    *)
Trap(t, o, u) ==
    /\ Runs(t, "lisp") /\ t \notin deferred /\ traps < MaxTraps
    /\ traps' = traps + 1
    /\ EnterTrap(t, o, u)
    /\ UNCHANGED <<todo, locks, ring, alive, count, suspend, resume, ackPending,
                   handler, context, deferred, holds>>

ProcessSuspend(t, u) == u \in ring \ {t} /\ Trap(t, "suspend", u)
ProcessResume(t, u) == u \in ring \ {t} /\ Trap(t, "resume", u)
GCTrap(t) == Trap(t, "gc", None)

(* The signal a thread sends itself is delivered before it goes on.        *)
Raised(t) ==
    /\ Runs(t, "raising") /\ signals[t] = 0
    /\ Goto(t, "getEx")
    /\ UNCHANGED <<op, target, todo, traps, locks, ring, alive, requests, own, holds>>

GetExceptionLock(t) ==
    /\ Runs(t, "getEx") /\ exOwner = None
    /\ exOwner' = t
    /\ Goto(t, IF op[t] = "now" THEN "leaving" ELSE "getArea")
    /\ UNCHANGED <<op, target, todo, traps, areaOwner, ring, alive, requests, own, holds>>

(* The locked section of the operation begins.  xNewThread comes here      *)
(* without the exception lock: creating a thread is an ordinary call.      *)
GetAreaLock(t) ==
    /\ Runs(t, "getArea") /\ AreaLockFree
    /\ areaOwner' = t
    /\ todo' = [todo EXCEPT ![t] = CASE op[t] = "gc" -> ring \ {t}
                                     [] op[t] = "create" -> {}
                                     [] OTHER -> {target[t]}]
    /\ Goto(t, CASE op[t] = "resume" -> "resuming"
                 [] op[t] = "create" -> "leaving"
                 [] OTHER -> "suspending")
    /\ UNCHANGED <<op, target, traps, exOwner, ring, alive, requests, own, holds>>

-----------------------------------------------------------------------------
(* suspend_tcr.  A record that was freed since the caller looked it up is  *)
(* left alone here: what the write to its memory does is not the kernel's. *)
Recorded(u) == u \in ring \/ HaveTLS

MutantAlwaysSignals(u) == u \in alive
IsSignalled(u) == u \in alive /\ count[u] = 0

SuspendTcr(t, u) ==
    /\ Runs(t, "suspending") /\ u \in todo[t]
    /\ todo' = [todo EXCEPT ![t] = @ \ {u}]
    /\ LET visited == Recorded(u) /\ (op[t] = "gc" => u \in alive)
           signalled == visited /\ IsSignalled(u)
       IN /\ count' = [count EXCEPT ![u] = IF visited THEN @ + 1 ELSE @]
          /\ signals' = [signals EXCEPT ![u] = IF signalled THEN @ + 1 ELSE @]
          /\ ackPending' = IF signalled THEN ackPending \cup {u} ELSE ackPending
          /\ holds' = [holds EXCEPT ![u] = IF visited /\ op[t] = "suspend" THEN @ + 1 ELSE @]
    /\ UNCHANGED <<pc, op, target, traps, locks, ring, alive, suspend, resume, own>>

(* Whose acknowledgement the caller of suspend_tcr waits for.              *)
MutantAwaitsNobody(t) == IF op[t] = "gc" THEN alive \ {t} ELSE {}
ToAcknowledge(t) == IF op[t] = "gc" THEN alive \ {t} ELSE {target[t]}

AllSignalled(t) ==
    /\ Runs(t, "suspending") /\ todo[t] = {}
    /\ todo' = [todo EXCEPT ![t] = ToAcknowledge(t)]
    /\ Goto(t, "acking")
    /\ UNCHANGED <<op, target, traps, locks, ring, alive, requests, own, holds>>

TcrSuspendAck(t, u) ==
    /\ Runs(t, "acking") /\ u \in todo[t] \cap ackPending
    /\ suspend[u] > 0
    /\ suspend' = [suspend EXCEPT ![u] = @ - 1]
    /\ ackPending' = ackPending \ {u}
    /\ UNCHANGED <<pc, op, target, todo, traps, locks, ring, alive, count, resume,
                   signals, own, holds>>

(* Everybody is parked.  The collector drops the records of dead threads   *)
(* from the ring before it collects.                                       *)
AllAcknowledged(t) ==
    /\ Runs(t, "acking") /\ todo[t] \cap ackPending = {}
    /\ todo' = [todo EXCEPT ![t] = {}]
    /\ ring' = IF op[t] = "gc" THEN {u \in ring : u \in alive} ELSE ring
    /\ Goto(t, IF op[t] = "gc" THEN "stopped" ELSE "leaving")
    /\ UNCHANGED <<op, target, traps, locks, alive, requests, own, holds>>

ToResume(t) == {u \in ring \ {t} : u \in alive}

(* The collection is over: resume_other_threads.                           *)
Collected(t) ==
    /\ Runs(t, "stopped")
    /\ todo' = [todo EXCEPT ![t] = ToResume(t)]
    /\ Goto(t, "resuming")
    /\ UNCHANGED <<op, target, traps, locks, ring, alive, requests, own, holds>>

(* atomic_decf does not go below 0.                                        *)
MutantNoFloor(n) == n - 1
Decremented(n) == IF n = 0 THEN 0 ELSE n - 1

Wakes(u) == count[u] = 1 /\ u \in alive

ResumeTcr(t, u) ==
    /\ Runs(t, "resuming") /\ u \in todo[t]
    /\ todo' = [todo EXCEPT ![t] = @ \ {u}]
    /\ IF Recorded(u)
          THEN /\ resume' = [resume EXCEPT ![u] = IF Wakes(u) THEN @ + 1 ELSE @]
               /\ count' = [count EXCEPT ![u] = Decremented(@)]
               /\ holds' = IF op[t] = "resume" /\ holds[u] > 0
                              THEN [holds EXCEPT ![u] = @ - 1] ELSE holds
          ELSE UNCHANGED <<resume, count, holds>>
    /\ UNCHANGED <<pc, op, target, traps, locks, ring, alive, suspend, signals,
                   ackPending, own>>

AllResumed(t) ==
    /\ Runs(t, "resuming") /\ todo[t] = {}
    /\ Goto(t, "leaving")
    /\ UNCHANGED <<op, target, todo, traps, locks, ring, alive, requests, own, holds>>

(* The area lock is released; create_system_thread started its child       *)
(* while it held it.                                                       *)
ReleaseAreaLock(t) ==
    /\ Runs(t, "leaving") /\ areaOwner = t
    /\ areaOwner' = None
    /\ pc' = IF op[t] = "create"
               THEN [pc EXCEPT ![t] = "awaitChild", ![target[t]] = "newborn"]
               ELSE pc
    /\ UNCHANGED <<op, target, todo, traps, exOwner, ring, alive, requests, own, holds>>

(* pthread_create failed: there is nobody to wait for.                     *)
CreationFails(t) ==
    /\ Runs(t, "leaving") /\ areaOwner = t /\ op[t] = "create"
    /\ areaOwner' = None
    /\ op' = [op EXCEPT ![t] = "none"] /\ target' = [target EXCEPT ![t] = None]
    /\ Goto(t, "lisp")
    /\ UNCHANGED <<todo, traps, exOwner, ring, alive, requests, own, holds>>

ReturnFromTrap(t) ==
    /\ Runs(t, "leaving") /\ exOwner = t /\ areaOwner # t
    /\ exOwner' = None
    /\ op' = [op EXCEPT ![t] = "none"] /\ target' = [target EXCEPT ![t] = None]
    /\ Goto(t, "lisp")
    /\ UNCHANGED <<todo, traps, areaOwner, ring, alive, requests, own, holds>>

-----------------------------------------------------------------------------
(* Threads come and go.  xNewThread waits until its child has registered.  *)
NewThread(t, u) ==
    /\ Runs(t, "lisp") /\ t \notin deferred
    /\ pc[u] = "unborn" /\ \A v \in Threads : target[v] # u
    /\ op' = [op EXCEPT ![t] = "create"] /\ target' = [target EXCEPT ![t] = u]
    /\ Goto(t, "getArea")
    /\ UNCHANGED <<todo, traps, locks, ring, alive, requests, own, holds>>

(* lisp_thread_entry: the new thread joins the ring under the area lock.   *)
EnqueueTcr(t) ==
    /\ pc[t] = "newborn" /\ AreaLockFree
    /\ ring' = ring \cup {t} /\ alive' = alive \cup {t}
    /\ Goto(t, "lisp")
    /\ UNCHANGED <<op, target, todo, traps, locks, requests, own, holds>>

ChildCreated(t) ==
    /\ Runs(t, "awaitChild") /\ pc[target[t]] # "newborn"
    /\ op' = [op EXCEPT ![t] = "none"] /\ target' = [target EXCEPT ![t] = None]
    /\ Goto(t, "lisp")
    /\ UNCHANGED <<todo, traps, locks, ring, alive, requests, own, holds>>

Exit(t) ==
    /\ Runs(t, "lisp") /\ t \notin deferred
    /\ Goto(t, "exiting")
    /\ UNCHANGED <<op, target, todo, traps, locks, ring, alive, requests, own, holds>>

(* shutdown_thread_tcr, in one piece under the area lock: the semaphores   *)
(* are destroyed and osid is cleared; only builds with thread-local TCRs   *)
(* take the record out of the ring here.                                   *)
ShutdownThread(t) ==
    /\ Runs(t, "exiting") /\ AreaLockFree
    /\ alive' = alive \ {t}
    /\ ring' = IF HaveTLS THEN ring \ {t} ELSE ring
    /\ suspend' = [suspend EXCEPT ![t] = 0] /\ resume' = [resume EXCEPT ![t] = 0]
    /\ Goto(t, "gone")
    /\ UNCHANGED <<op, target, todo, traps, locks, count, signals, ackPending, own, holds>>

-----------------------------------------------------------------------------
(* with-deferred-gc binds *interrupt-level* to -2.  Unbinding it tests the *)
(* flag and stores the old level in separate instructions.                 *)
BindLevel(t) ==
    /\ Runs(t, "lisp") /\ t \in Deferrers \ deferred
    /\ deferred' = deferred \cup {t}
    /\ UNCHANGED <<pc, op, target, todo, traps, locks, ring, alive, requests,
                   pending, handler, context, holds>>

UnbindTest(t) ==
    /\ Runs(t, "lisp") /\ t \in deferred
    /\ IF t \in pending
          THEN deferred' = deferred \ {t} /\ EnterTrap(t, "now", None)
          ELSE Goto(t, "unbind") /\ UNCHANGED <<op, target, pending, signals, deferred>>
    /\ UNCHANGED <<todo, traps, locks, ring, alive, count, suspend, resume, ackPending,
                   handler, context, holds>>

UnbindStore(t) ==
    /\ Runs(t, "unbind")
    /\ deferred' = deferred \ {t}
    /\ Goto(t, "lisp")
    /\ UNCHANGED <<op, target, todo, traps, locks, ring, alive, requests, pending,
                   handler, context, holds>>

-----------------------------------------------------------------------------
(* suspend_resume_handler, entered at any point of a registered thread.    *)
(* The suspend signal is blocked while its handler runs.                   *)
DeliverSignal(t) ==
    /\ signals[t] > 0 /\ handler[t] = "off"
    /\ signals' = [signals EXCEPT ![t] = @ - 1]
    /\ IF t \in deferred
          THEN pending' = pending \cup {t} /\ UNCHANGED <<handler, context>>
          ELSE /\ context' = context \cup {t}
               /\ handler' = [handler EXCEPT ![t] = "entered"]
               /\ UNCHANGED pending
    /\ UNCHANGED <<pc, op, target, todo, traps, locks, ring, alive, count, suspend,
                   resume, ackPending, deferred, holds>>

Park(t) ==
    /\ handler[t] = "entered"
    /\ suspend' = [suspend EXCEPT ![t] = @ + 1]
    /\ handler' = [handler EXCEPT ![t] = "parked"]
    /\ UNCHANGED <<pc, op, target, todo, traps, locks, ring, alive, count, resume,
                   signals, ackPending, pending, context, deferred, holds>>

Unpark(t) ==
    /\ handler[t] = "parked" /\ resume[t] > 0
    /\ resume' = [resume EXCEPT ![t] = @ - 1]
    /\ handler' = [handler EXCEPT ![t] = "woken"]
    /\ UNCHANGED <<pc, op, target, todo, traps, locks, ring, alive, count, suspend,
                   signals, ackPending, pending, context, deferred, holds>>

ReturnFromSignal(t) ==
    /\ handler[t] = "woken"
    /\ context' = context \ {t}
    /\ handler' = [handler EXCEPT ![t] = "off"]
    /\ UNCHANGED <<pc, op, target, todo, traps, locks, ring, alive, requests, pending,
                   deferred, holds>>

-----------------------------------------------------------------------------
(* What a thread does once it has begun, and must go on with.              *)
Kernel(t) ==
    \/ Raised(t) \/ GetExceptionLock(t) \/ GetAreaLock(t)
    \/ \E u \in Threads : SuspendTcr(t, u) \/ TcrSuspendAck(t, u) \/ ResumeTcr(t, u)
    \/ AllSignalled(t) \/ AllAcknowledged(t) \/ Collected(t) \/ AllResumed(t)
    \/ ReleaseAreaLock(t) \/ CreationFails(t) \/ ReturnFromTrap(t)
    \/ EnqueueTcr(t) \/ ChildCreated(t) \/ ShutdownThread(t)
    \/ UnbindTest(t) \/ UnbindStore(t)

Handler(t) == DeliverSignal(t) \/ Park(t) \/ Unpark(t) \/ ReturnFromSignal(t)

(* What a Lisp program may or may not ask for.                             *)
Lisp(t) ==
    \/ GCTrap(t)
    \/ \E u \in Threads : ProcessSuspend(t, u) \/ ProcessResume(t, u) \/ NewThread(t, u)
    \/ Exit(t) \/ BindLevel(t)

Next == \E t \in Threads : Kernel(t) \/ Handler(t) \/ Lisp(t)

Spec == Init /\ [][Next]_vars

FairSpec == Spec /\ \A t \in Threads : WF_vars(Kernel(t)) /\ WF_vars(Handler(t))

-----------------------------------------------------------------------------
(* suspend_other_threads: while a collector runs, every thread that could  *)
(* run Lisp is parked in its handler with its context published, and the   *)
(* ring holds no dead record.                                              *)
WorldStopped ==
    \A c \in Threads : pc[c] = "stopped" =>
        /\ ring = alive
        /\ \A u \in Threads \ {c} :
              /\ u \in ring => handler[u] = "parked" /\ u \in context
              /\ u \notin ring => pc[u] \in {"unborn", "newborn", "gone"}

(* The suspensions that the collector holds while it stops the world.      *)
CollectorHolds(u) ==
    {c \in Threads \ {u} : op[c] = "gc" /\ u \in alive
        /\ \/ pc[c] = "suspending" /\ u \notin todo[c]
           \/ pc[c] \in {"acking", "stopped"}
           \/ pc[c] = "resuming" /\ u \in todo[c]}

(* suspend_count counts exactly the suspensions that nobody undid: those   *)
(* of process-suspend and, during a collection, the collector's own.  And  *)
(* with the area lock free there is no half-done suspension: a live thread *)
(* is parked, or has been told to go on, exactly as its count says.        *)
CountsBalance ==
    /\ \A u \in alive : count[u] = holds[u] + Cardinality(CollectorHolds(u))
    /\ areaOwner = None =>
         /\ ackPending = {}
         /\ \A u \in alive :
               /\ signals[u] = 0 /\ suspend[u] = 0 /\ u \notin pending
               /\ IF count[u] > 0 THEN handler[u] = "parked" /\ resume[u] = 0
                                  ELSE handler[u] = "parked" => resume[u] = 1

(* lisp_suspend_tcr and suspend_other_threads: nobody is ever parked while *)
(* it owns the exception lock or the area lock, so a parked thread cannot  *)
(* keep the threads that are to resume it out of the kernel.               *)
LockOwnersRun ==
    \A u \in Threads : handler[u] = "parked" /\ resume[u] = 0
                           => exOwner # u /\ areaOwner # u

(* The request that a thread noted at level -2 has been passed over: the   *)
(* thread is back at a level where it may be suspended.                    *)
Missed == ~ (pending \subseteq deferred)

(* A parked thread goes on, unless Lisp keeps it suspended.                *)
ParkedGoesOn ==
    \A u \in Threads : handler[u] = "parked" ~> (handler[u] # "parked" \/ holds[u] > 0 \/ Missed)

(* Whoever takes the area lock, to stop one thread or all, gets its        *)
(* acknowledgements and lets the lock go again, and whoever was parked     *)
(* goes on, unless a deferred request was passed over.                     *)
StopCompletes ==
    /\ areaOwner # None ~> (areaOwner = None \/ Missed)
    /\ ParkedGoesOn

(* _SPunbind_interrupt_level: "Missed a suspend request; force suspend now *)
(* if we're restoring interrupt level to -1 or greater".                   *)
SuspendForced == pending \subseteq deferred
=============================================================================
