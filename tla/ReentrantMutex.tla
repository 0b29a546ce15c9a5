--------------------------- MODULE ReentrantMutex ---------------------------
(***************************************************************************)
(* What a recursive lock promises: at most one thread holds it, the holder *)
(* may take it again, and it becomes free when the holder has released it  *)
(* as many times as it took it.  RecursiveLock implements this module.     *)
(***************************************************************************)
EXTENDS Naturals

CONSTANTS Thread,       \* the threads that use the lock
          NoThread      \* "nobody holds it", not a Thread

VARIABLES holder,       \* the thread that holds the lock, or NoThread
          depth         \* how often the holder took it and did not release it

vars == <<holder, depth>>

Init == holder = NoThread /\ depth = 0

Acquire(t) == holder = NoThread /\ holder' = t /\ depth' = 1

Reacquire(t) == holder = t /\ depth' = depth + 1 /\ UNCHANGED holder

Release(t) ==
    /\ holder = t
    /\ depth' = depth - 1
    /\ holder' = IF depth = 1 THEN NoThread ELSE t

Next == \E t \in Thread : Acquire(t) \/ Reacquire(t) \/ Release(t)

Spec == Init /\ [][Next]_vars
=============================================================================
