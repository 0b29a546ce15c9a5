----------------------- MODULE ThreadSuspensionProofs -----------------------
(***************************************************************************)
(* Nobody is parked while it owns a lock of the kernel: for every set of   *)
(* threads, with and without thread-local TCRs, whoever defers signals.    *)
(*                                                                         *)
(* Who suspends owns both locks until everybody it signalled has           *)
(* acknowledged.  So while a suspend signal is on its way, noted, or being *)
(* handled, both locks belong to the suspender, which is not the target.   *)
(*                                                                         *)
(* From that, who is counted as suspended is parked when the collector     *)
(* runs: the suspension counts are right, and each is told to its thread   *)
(* by exactly one request, in one place at a time.                         *)
(***************************************************************************)
EXTENDS ThreadSuspension, FiniteSetTheorems, TLAPS

Shape ==
    /\ pc \in [Threads -> Points] /\ op \in [Threads -> Operations]
    /\ target \in [Threads -> Threads \cup {None}]
    /\ todo \in [Threads -> SUBSET Threads]
    /\ exOwner \in Threads \cup {None} /\ areaOwner \in Threads \cup {None}
    /\ alive \subseteq Threads /\ ring \subseteq Threads
    /\ count \in [Threads -> Nat] /\ resume \in [Threads -> Nat]
    /\ suspend \in [Threads -> 0..1] /\ signals \in [Threads -> 0..1]
    /\ ackPending \subseteq Threads /\ pending \subseteq Threads
    /\ handler \in [Threads -> {"off", "entered", "parked", "woken"}]

(* What a thread at a point of the kernel owns, and asked for.             *)
PointInv ==
    \A t \in Threads :
        /\ pc[t] \in {"raising", "getEx"} => op[t] \in {"suspend", "resume", "gc", "now"}
        /\ pc[t] = "getArea" => /\ op[t] \in {"suspend", "resume", "gc", "create"}
                                /\ op[t] # "create" => exOwner = t
        /\ pc[t] \in {"suspending", "acking"} =>
               areaOwner = t /\ exOwner = t /\ op[t] \in {"suspend", "gc"}
        /\ pc[t] \in {"stopped", "resuming"} => areaOwner = t
        /\ op[t] \in {"suspend", "resume"} => target[t] \in Threads \ {t}
        /\ pc[t] = "suspending" => /\ t \notin todo[t]
                                   /\ op[t] = "suspend" => todo[t] \subseteq {target[t]}

(* An acknowledgement is owed to the thread that owns the area lock, which *)
(* has still to wait for it.                                               *)
Awaited(s) == IF pc[s] = "suspending" THEN ToAcknowledge(s) \ todo[s]
              ELSE IF pc[s] = "acking" THEN todo[s] ELSE {}

AckInv == \A u \in ackPending : areaOwner \in Threads \ {u} /\ u \in Awaited(areaOwner)

(* A request is in one place: sent, noted, being handled, acknowledged.    *)
SignalInv ==
    \A u \in Threads :
        /\ signals[u] = 1 \/ suspend[u] = 1 \/ handler[u] = "entered" \/ u \in pending
               => u \in ackPending
        /\ signals[u] = 1 => suspend[u] = 0 /\ handler[u] # "entered" /\ u \notin pending
        /\ suspend[u] = 1 => handler[u] # "entered" /\ u \notin pending
        /\ handler[u] = "entered" => u \notin pending

(* A thread in its suspend handler owns neither lock.                      *)
HandlerInv == \A u \in Threads : handler[u] # "off" => exOwner # u /\ areaOwner # u

IInv == Shape /\ PointInv /\ AckInv /\ SignalInv /\ HandlerInv

(* new_tcr: the records a new thread starts with satisfy the invariant.    *)
LEMMA InitIInv == Init => IInv
  BY SuspensionAssumption DEF Init, IInv, Shape, PointInv, AckInv, SignalInv, HandlerInv,
     Points, Operations

(* Every step of a thread in the kernel, its signal handler or Lisp code    *)
(* keeps the invariant.                                                    *)
LEMMA NextIInv ==
  ASSUME IInv, [Next]_vars
  PROVE  IInv'
<1> USE SuspensionAssumption
     DEF IInv, Shape, PointInv, AckInv, SignalInv, HandlerInv, Awaited, ToAcknowledge,
         Points, Operations, Runs, Goto, locks, requests, own
<1>1. ASSUME NEW t \in Threads, Raised(t) PROVE IInv'
  BY <1>1 DEF Raised
<1>2. ASSUME NEW t \in Threads, GetExceptionLock(t) PROVE IInv'
  BY <1>2 DEF GetExceptionLock
<1>3. ASSUME NEW t \in Threads, GetAreaLock(t) PROVE IInv'
  BY <1>3 DEF GetAreaLock, AreaLockFree
<1>4. ASSUME NEW t \in Threads, AllSignalled(t) PROVE IInv'
  BY <1>4 DEF AllSignalled
<1>5. ASSUME NEW t \in Threads, AllAcknowledged(t) PROVE IInv'
  BY <1>5 DEF AllAcknowledged
<1>6. ASSUME NEW t \in Threads, Collected(t) PROVE IInv'
  BY <1>6 DEF Collected, ToResume
<1>7. ASSUME NEW t \in Threads, AllResumed(t) PROVE IInv'
  BY <1>7 DEF AllResumed
<1>8. ASSUME NEW t \in Threads, ReleaseAreaLock(t) PROVE IInv'
  BY ZenonT(60), <1>8 DEF ReleaseAreaLock
<1>9. ASSUME NEW t \in Threads, CreationFails(t) PROVE IInv'
  BY <1>9 DEF CreationFails
<1>10. ASSUME NEW t \in Threads, ReturnFromTrap(t) PROVE IInv'
  BY <1>10 DEF ReturnFromTrap
<1>11. ASSUME NEW t \in Threads, EnqueueTcr(t) PROVE IInv'
  BY <1>11 DEF EnqueueTcr, AreaLockFree
<1>12. ASSUME NEW t \in Threads, ChildCreated(t) PROVE IInv'
  BY <1>12 DEF ChildCreated
<1>13. ASSUME NEW t \in Threads, ShutdownThread(t) PROVE IInv'
  BY <1>13 DEF ShutdownThread, AreaLockFree
<1>14. ASSUME NEW t \in Threads, UnbindTest(t) PROVE IInv'
  BY <1>14 DEF UnbindTest, EnterTrap
<1>15. ASSUME NEW t \in Threads, UnbindStore(t) PROVE IInv'
  BY <1>15 DEF UnbindStore
<1>16. ASSUME NEW t \in Threads, DeliverSignal(t) PROVE IInv'
  BY <1>16 DEF DeliverSignal
<1>17. ASSUME NEW t \in Threads, Park(t) PROVE IInv'
  BY <1>17 DEF Park
<1>18. ASSUME NEW t \in Threads, Unpark(t) PROVE IInv'
  BY <1>18 DEF Unpark
<1>19. ASSUME NEW t \in Threads, ReturnFromSignal(t) PROVE IInv'
  BY <1>19 DEF ReturnFromSignal
<1>20. ASSUME NEW t \in Threads, GCTrap(t) PROVE IInv'
  BY <1>20 DEF GCTrap, Trap, EnterTrap
<1>21. ASSUME NEW t \in Threads, Exit(t) PROVE IInv'
  BY <1>21 DEF Exit
<1>22. ASSUME NEW t \in Threads, BindLevel(t) PROVE IInv'
  BY <1>22 DEF BindLevel
<1>23. ASSUME NEW t \in Threads, NEW u \in Threads, SuspendTcr(t, u) PROVE IInv'
  BY <1>23 DEF SuspendTcr, IsSignalled, Recorded
<1>24. ASSUME NEW t \in Threads, NEW u \in Threads, TcrSuspendAck(t, u) PROVE IInv'
  BY <1>24 DEF TcrSuspendAck
<1>25. ASSUME NEW t \in Threads, NEW u \in Threads, ResumeTcr(t, u) PROVE IInv'
  BY <1>25 DEF ResumeTcr, Decremented, Wakes
<1>26. ASSUME NEW t \in Threads, NEW u \in Threads, ProcessSuspend(t, u) PROVE IInv'
  BY <1>26 DEF ProcessSuspend, Trap, EnterTrap
<1>27. ASSUME NEW t \in Threads, NEW u \in Threads, ProcessResume(t, u) PROVE IInv'
  BY <1>27 DEF ProcessResume, Trap, EnterTrap
<1>28. ASSUME NEW t \in Threads, NEW u \in Threads, NewThread(t, u) PROVE IInv'
  BY <1>28 DEF NewThread
<1>29. CASE UNCHANGED vars
  BY <1>29 DEF vars
<1> QED
  BY <1>1, <1>2, <1>3, <1>4, <1>5, <1>6, <1>7, <1>8, <1>9, <1>10, <1>11,
     <1>12, <1>13, <1>14, <1>15, <1>16, <1>17, <1>18, <1>19, <1>20, <1>21,
     <1>22, <1>23, <1>24, <1>25, <1>26, <1>27, <1>28, <1>29
  DEF Next, Kernel, Handler, Lisp

(* suspend_tcr, suspend_resume_handler: the locks and every request are     *)
(* where the invariant says, in every state.                               *)
THEOREM Inductive == Spec => []IInv
  BY InitIInv, NextIInv, PTL DEF Spec

(* lisp_suspend_tcr, suspend_other_threads: a thread is not parked while   *)
(* it owns the exception lock or the area lock.                            *)
THEOREM LockOwners == Spec => []LockOwnersRun
<1>1. IInv => LockOwnersRun
  BY DEF IInv, HandlerInv, LockOwnersRun
<1> QED
  BY <1>1, Inductive, PTL

(* The points from the first signal to the last resumption.                *)
Operating == {"suspending", "acking", "stopped", "resuming"}

OneOperator ==
    \A s, t \in Threads : pc[s] \in Operating /\ pc[t] \in Operating => s = t

(* suspend_other_threads: one collection at a time, and nobody suspends or *)
(* resumes anybody meanwhile.                                              *)
THEOREM OneAtATime == Spec => []OneOperator
<1>1. IInv => OneOperator
  BY DEF IInv, PointInv, OneOperator, Operating
<1> QED
  BY <1>1, Inductive, PTL
-----------------------------------------------------------------------------
(* Threads that have been in the ring.                                     *)
Known(t) == pc[t] \notin {"unborn", "newborn"}

(* Who is alive, and what a new thread starts with.                        *)
LifeInv ==
    /\ holds \in [Threads -> Nat]
    /\ alive = {t \in Threads : Known(t) /\ pc[t] # "gone"}
    /\ alive \subseteq ring /\ ackPending \subseteq alive
    /\ \A t \in ring : Known(t)
    /\ \A t \in Threads :
         /\ handler[t] # "off" => t \in alive \cap context
         /\ ~Known(t) => count[t] = 0 /\ holds[t] = 0 /\ resume[t] = 0

(* A child has one parent, and is not born before the parent says so.      *)
Creating(t) == op[t] = "create" /\ pc[t] \in {"getArea", "leaving"}

ChildInv ==
    /\ \A t \in Threads : /\ pc[t] = "awaitChild" => op[t] = "create"
                          /\ Creating(t) => target[t] \in Threads /\ pc[target[t]] = "unborn"
    /\ \A s, t \in Threads : Creating(s) /\ Creating(t) /\ target[s] = target[t] => s = t

(* Whom a suspension or a collection has still to visit.                   *)
VisitInv ==
    \A t \in Threads :
        /\ op[t] \in {"suspend", "resume"} => Known(target[t])
        /\ pc[t] \in {"suspending", "resuming"} => \A u \in todo[t] : Known(u)
        /\ pc[t] = "stopped" => op[t] = "gc" /\ ring = alive
        /\ pc[t] = "resuming" => /\ op[t] \in {"resume", "gc"}
                                 /\ op[t] = "gc" => todo[t] \subseteq alive \ {t}

(* Whether thread s, collecting, has a suspension of u.                     *)
Holds(s, u) ==
    /\ s # u /\ op[s] = "gc"
    /\ \/ pc[s] = "suspending" /\ u \notin todo[s]
       \/ pc[s] \in {"acking", "stopped"}
       \/ pc[s] = "resuming" /\ u \in todo[s]

CountInv ==
    \A u \in alive :
        count[u] = holds[u] + (IF areaOwner \in Threads /\ Holds(areaOwner, u) THEN 1 ELSE 0)

(* It is told to go on exactly if it is still parked.                      *)
Told(u) == resume[u] = IF handler[u] = "parked" THEN 1 ELSE 0

(* A live thread is on its way to be parked, or parked, or told to go on.  *)
ParkInv ==
    \A u \in alive :
        IF u \in ackPending
          THEN /\ count[u] = 1
               /\ \/ signals[u] = 1 /\ Told(u)
                  \/ u \in pending /\ handler[u] = "off" /\ resume[u] = 0
                  \/ handler[u] = "entered" /\ resume[u] = 0
                  \/ suspend[u] = 1 /\ handler[u] = "parked" /\ resume[u] = 0
          ELSE IF count[u] > 0 THEN handler[u] = "parked" /\ resume[u] = 0
                               ELSE Told(u)

BInv == LifeInv /\ ChildInv /\ VisitInv /\ CountInv /\ ParkInv

(* new_tcr: nobody is suspended in the beginning, nor asked to be.         *)
LEMMA InitBInv == Init => BInv
  BY SuspensionAssumption
     DEF Init, BInv, LifeInv, ChildInv, VisitInv, CountInv, ParkInv, Known, Creating,
         Holds, Told

(* suspend_tcr, resume_tcr, suspend_resume_handler, new_tcr, enqueue_tcr,  *)
(* shutdown_thread_tcr: who is counted as suspended is told so, and whose  *)
(* count drops to 0 is told to go on.                                      *)
LEMMA NextBInv ==
  ASSUME IInv, BInv, [Next]_vars
  PROVE  BInv'
<1> IInv'
  BY NextIInv
<1> USE SuspensionAssumption
     DEF IInv, Shape, PointInv, AckInv, SignalInv, Awaited, ToAcknowledge,
         Points, Operations, Runs, Goto, locks, requests, own, BInv, LifeInv,
         ChildInv, VisitInv, CountInv, ParkInv, Known, Creating, Holds, Told
<1>1. ASSUME NEW t \in Threads, Raised(t) PROVE BInv'
  BY <1>1 DEF Raised
<1>2. ASSUME NEW t \in Threads, GetExceptionLock(t) PROVE BInv'
  BY <1>2 DEF GetExceptionLock
<1>3. ASSUME NEW t \in Threads, GetAreaLock(t) PROVE BInv'
  BY <1>3 DEF GetAreaLock, AreaLockFree
<1>4. ASSUME NEW t \in Threads, AllSignalled(t) PROVE BInv'
  BY <1>4 DEF AllSignalled
<1>5. ASSUME NEW t \in Threads, AllAcknowledged(t) PROVE BInv'
  BY <1>5 DEF AllAcknowledged
<1>6. ASSUME NEW t \in Threads, Collected(t) PROVE BInv'
  BY <1>6 DEF Collected, ToResume
<1>7. ASSUME NEW t \in Threads, AllResumed(t) PROVE BInv'
  BY <1>7 DEF AllResumed
<1>8. ASSUME NEW t \in Threads, ReleaseAreaLock(t) PROVE BInv'
  BY <1>8 DEF ReleaseAreaLock
<1>9. ASSUME NEW t \in Threads, CreationFails(t) PROVE BInv'
  BY <1>9 DEF CreationFails
<1>10. ASSUME NEW t \in Threads, ReturnFromTrap(t) PROVE BInv'
  BY <1>10 DEF ReturnFromTrap
<1>11. ASSUME NEW t \in Threads, EnqueueTcr(t) PROVE BInv'
  BY <1>11 DEF EnqueueTcr, AreaLockFree
<1>12. ASSUME NEW t \in Threads, ChildCreated(t) PROVE BInv'
  BY <1>12 DEF ChildCreated
<1>13. ASSUME NEW t \in Threads, ShutdownThread(t) PROVE BInv'
  BY <1>13 DEF ShutdownThread, AreaLockFree
<1>14. ASSUME NEW t \in Threads, UnbindTest(t) PROVE BInv'
  BY SMTT(60), <1>14 DEF UnbindTest, EnterTrap
<1>15. ASSUME NEW t \in Threads, UnbindStore(t) PROVE BInv'
  BY <1>15 DEF UnbindStore
<1>16. ASSUME NEW t \in Threads, DeliverSignal(t) PROVE BInv'
  BY <1>16 DEF DeliverSignal
<1>17. ASSUME NEW t \in Threads, Park(t) PROVE BInv'
  BY <1>17 DEF Park
<1>18. ASSUME NEW t \in Threads, Unpark(t) PROVE BInv'
  BY <1>18 DEF Unpark
<1>19. ASSUME NEW t \in Threads, ReturnFromSignal(t) PROVE BInv'
  BY <1>19 DEF ReturnFromSignal
<1>20. ASSUME NEW t \in Threads, GCTrap(t) PROVE BInv'
  BY <1>20 DEF GCTrap, Trap, EnterTrap
<1>21. ASSUME NEW t \in Threads, Exit(t) PROVE BInv'
  BY <1>21 DEF Exit
<1>22. ASSUME NEW t \in Threads, BindLevel(t) PROVE BInv'
  BY <1>22 DEF BindLevel
<1>23. ASSUME NEW t \in Threads, NEW u \in Threads, SuspendTcr(t, u) PROVE BInv'
  <2>1. ChildInv' /\ VisitInv'
    BY <1>23 DEF SuspendTcr
  <2>2. CountInv'
    BY <1>23 DEF SuspendTcr, Recorded
  <2>3. ParkInv'
    BY <1>23 DEF SuspendTcr, IsSignalled, Recorded
  <2>4. holds' \in [Threads -> Nat]
    BY <1>23 DEF SuspendTcr
  <2>7. ackPending' \subseteq alive
    BY <1>23 DEF SuspendTcr, IsSignalled, Recorded
  <2>5. \A v \in Threads : ~Known(v)' => count'[v] = 0 /\ holds'[v] = 0 /\ resume'[v] = 0
    BY <1>23 DEF SuspendTcr
  <2>6. LifeInv'
    BY <1>23, <2>4, <2>5, <2>7 DEF SuspendTcr
  <2> QED
    BY <2>1, <2>2, <2>3, <2>6
<1>24. ASSUME NEW t \in Threads, NEW u \in Threads, TcrSuspendAck(t, u) PROVE BInv'
  BY <1>24 DEF TcrSuspendAck
<1>25. ASSUME NEW t \in Threads, NEW u \in Threads, ResumeTcr(t, u) PROVE BInv'
  BY <1>25 DEF ResumeTcr, Decremented, Wakes, Recorded
<1>26. ASSUME NEW t \in Threads, NEW u \in Threads, ProcessSuspend(t, u) PROVE BInv'
  BY <1>26 DEF ProcessSuspend, Trap, EnterTrap
<1>27. ASSUME NEW t \in Threads, NEW u \in Threads, ProcessResume(t, u) PROVE BInv'
  BY <1>27 DEF ProcessResume, Trap, EnterTrap
<1>28. ASSUME NEW t \in Threads, NEW u \in Threads, NewThread(t, u) PROVE BInv'
  BY <1>28 DEF NewThread
<1>29. CASE UNCHANGED vars
  BY <1>29 DEF vars
<1> QED
  BY ZenonT(60), <1>1, <1>2, <1>3, <1>4, <1>5, <1>6, <1>7, <1>8, <1>9, <1>10, <1>11,
     <1>12, <1>13, <1>14, <1>15, <1>16, <1>17, <1>18, <1>19, <1>20, <1>21,
     <1>22, <1>23, <1>24, <1>25, <1>26, <1>27, <1>28, <1>29
  DEF Next, Kernel, Handler, Lisp

(* suspend_tcr, resume_tcr, suspend_resume_handler: in every state counts,  *)
(* requests and parked threads are as the invariant says.                  *)
THEOREM Balanced == Spec => [](IInv /\ BInv)
<1>1. Init => IInv /\ BInv
  BY InitIInv, InitBInv
<1>2. IInv /\ BInv /\ [Next]_vars => (IInv /\ BInv)'
  BY NextIInv, NextBInv
<1> QED
  BY <1>1, <1>2, PTL DEF Spec

(* suspend_other_threads: while a collector runs everybody else is parked,  *)
(* and published the context that the collector reads.                     *)
THEOREM WorldIsStopped == Spec => []WorldStopped
<1>1. ASSUME IInv, BInv PROVE WorldStopped
  <2> SUFFICES ASSUME NEW c \in Threads, pc[c] = "stopped"
               PROVE  /\ ring = alive
                      /\ \A u \in Threads \ {c} :
                            /\ u \in ring => handler[u] = "parked" /\ u \in context
                            /\ u \notin ring => pc[u] \in {"unborn", "newborn", "gone"}
    BY DEF WorldStopped
  <2>1. ring = alive /\ op[c] = "gc" /\ areaOwner = c
    BY <1>1 DEF IInv, BInv, PointInv, VisitInv
  <2>2. ackPending = {}
    BY <1>1, <2>1 DEF IInv, AckInv, Awaited
  <2>3. ASSUME NEW u \in alive, u # c PROVE handler[u] = "parked" /\ u \in context
    <3>1. count[u] = holds[u] + 1
      BY <1>1, <2>1, <2>3 DEF BInv, CountInv, Holds
    <3>2. u \in Threads /\ holds[u] \in Nat
      BY <1>1 DEF BInv, LifeInv, IInv, Shape
    <3> QED
      BY <1>1, <2>2, <3>1, <3>2 DEF BInv, ParkInv, LifeInv
  <2> QED
    BY <1>1, <2>1, <2>3 DEF BInv, LifeInv, Known
<1> QED
  BY <1>1, Balanced, PTL

(* The suspensions that a collector holds are one, or none.                 *)
LEMMA OneCollector ==
  ASSUME IInv, BInv, NEW u \in alive
  PROVE  Cardinality(CollectorHolds(u)) =
           IF areaOwner \in Threads /\ Holds(areaOwner, u) THEN 1 ELSE 0
<1>1. \A s \in Threads : Holds(s, u) => areaOwner = s
  BY DEF IInv, PointInv, Holds
<1>2. CollectorHolds(u) = {s \in Threads : Holds(s, u)}
  BY DEF CollectorHolds, Holds
<1>3. CASE areaOwner \in Threads /\ Holds(areaOwner, u)
  <2>1. CollectorHolds(u) = {areaOwner}
    BY <1>1, <1>2, <1>3
  <2> QED
    BY <1>3, <2>1, FS_Singleton
<1>4. CASE ~(areaOwner \in Threads /\ Holds(areaOwner, u))
  <2>1. CollectorHolds(u) = {}
    BY <1>1, <1>2, <1>4
  <2> QED
    BY <1>4, <2>1, FS_EmptySet
<1> QED
  BY <1>3, <1>4

(* suspend_count is the suspensions nobody undid; between two operations   *)
(* a live thread is parked, or told to go on, as its count says.           *)
THEOREM CountsAreRight == Spec => []CountsBalance
<1>1. ASSUME IInv, BInv PROVE CountsBalance
  <2>1. \A u \in alive : count[u] = holds[u] + Cardinality(CollectorHolds(u))
    BY <1>1, OneCollector DEF BInv, CountInv
  <2>2. ASSUME areaOwner = None
        PROVE  /\ ackPending = {}
               /\ \A u \in alive :
                     /\ signals[u] = 0 /\ suspend[u] = 0 /\ u \notin pending
                     /\ IF count[u] > 0 THEN handler[u] = "parked" /\ resume[u] = 0
                                        ELSE handler[u] = "parked" => resume[u] = 1
    <3>1. ackPending = {}
      BY <1>1, <2>2, SuspensionAssumption DEF IInv, AckInv
    <3> QED
      BY <1>1, <3>1 DEF IInv, BInv, Shape, SignalInv, ParkInv, Told
  <2> QED
    BY <2>1, <2>2 DEF CountsBalance
<1> QED
  BY <1>1, Balanced, PTL
=============================================================================
