------------------------------ MODULE GCInhibit ------------------------------
(***************************************************************************)
(* Keeping the collector away, and paying the collections put off:         *)
(* %lock-gc-lock and %unlock-gc-lock (level-0/X86/x86-misc.lisp),          *)
(* handle_gc_trap, allocate_object and gc_like_from_xp                     *)
(* (lisp-kernel/x86-exceptions.c).                                         *)
(*                                                                         *)
(* GC_INHIBIT_COUNT counts, whatever its sign, the bodies that must not    *)
(* see an object move.  Who asks for a collection while it is not 0 makes  *)
(* it negative, lets the world go on and leaves: whoever brings it from -1 *)
(* to 0 traps to the kernel to collect in his place, unless somebody was   *)
(* faster.  The kernel remembers (full_gc_deferred) that what was put off  *)
(* is a full collection, which it must collect with the ephemeral          *)
(* generations switched off.                                               *)
(*                                                                         *)
(* One attempt to collect is one step: every other thread is stopped from  *)
(* the test of the count to its end (module ThreadSuspension).  A trap may *)
(* make several attempts, and the world goes on between them.              *)
(***************************************************************************)
EXTENDS Integers, Sequences, FiniteSets

CONSTANTS Threads,    \* the threads that run Lisp code
          None,       \* nobody owns the exception lock
          MaxDepth,   \* a thread's bodies nest no deeper
          MaxBodies,  \* bodies entered before the run ends
          MaxAsks     \* collections and allocations asked before the run ends

ASSUME InhibitAssumption == None \notin Threads /\ MaxDepth \in Nat

VARIABLES count,            \* GC_INHIBIT_COUNT
          gc_deferred,      \* attempts put off since the last collection
          full_gc_deferred, \* one of them was full
          older,            \* active_dynamic_area->older # NULL: the EGC is enabled
          ephemeral,        \* OLDEST_EPHEMERAL # 0: there are generations
          exception,        \* the owner of the exception lock
          at,               \* where a thread is: in Lisp, at a trap, in its handler
          trap,             \* what it trapped for
          todo,             \* the attempts the handler has still to make
          previous,         \* its gc_previously_deferred and egc_was_enabled
          held,             \* history: the bodies a thread is in, <<thread, depth>>
          owed,             \* history: a full collection was asked for and put off
          moved,            \* flips whenever objects may have moved
          bodies, asks      \* bounds: what was entered and asked so far

kernel == <<gc_deferred, full_gc_deferred, older, ephemeral, owed, moved>>
handler == <<exception, todo, previous>>
local == <<at, trap>>
bounds == <<bodies, asks>>
vars == <<count, kernel, handler, local, held, bounds>>

Immediate == "immediate"                          \* GC_TRAP_FUNCTION_IMMEDIATE_GC
Selectors == {Immediate, "gc", "purify", "flash", "egc", "alloc"}
Attempts == {"first", "gc", "full", "purify", "flash"}

Nothing == [deferred |-> 0, egc |-> FALSE]
Bodies == Threads \X (1..MaxDepth)

Init ==
    /\ count = 0 /\ gc_deferred = 0 /\ full_gc_deferred = 0
    /\ older \in BOOLEAN /\ ephemeral = older
    /\ exception = None
    /\ at = [t \in Threads |-> "lisp"] /\ trap = [t \in Threads |-> Immediate]
    /\ todo = <<>> /\ previous = Nothing
    /\ held = {} /\ owed = FALSE /\ moved = 0
    /\ bodies = 0 /\ asks = 0

-----------------------------------------------------------------------------
(* Lisp's side: the two compare-and-swap loops.                            *)

Locked(n) == IF n < 0 THEN n - 1 ELSE n + 1

Unlocked(n) == IF n <= -1 THEN n + 1 ELSE n - 1

Lock(t, d) ==                                               \* %lock-gc-lock
    /\ at[t] = "lisp" /\ bodies < MaxBodies
    /\ <<t, d>> \notin held /\ \A e \in 1..d - 1 : <<t, e>> \in held
    /\ count' = Locked(count) /\ held' = held \cup {<<t, d>>} /\ bodies' = bodies + 1
    /\ UNCHANGED <<kernel, handler, local, asks>>

(* Who brings the count from -1 to 0 traps; others may lock before it does. *)
TrapsAfter(t, old) ==
    IF old = -1
      THEN at' = [at EXCEPT ![t] = "trap"] /\ trap' = [trap EXCEPT ![t] = Immediate]
      ELSE UNCHANGED <<at, trap>>

UnlockGC(t) ==                                              \* %unlock-gc-lock
    count' = Unlocked(count) /\ TrapsAfter(t, count)

Unlock(t, d) ==
    /\ at[t] = "lisp" /\ <<t, d>> \in held /\ \A e \in d + 1..MaxDepth : <<t, e>> \notin held
    /\ UnlockGC(t) /\ held' = held \ {<<t, d>>}
    /\ UNCHANGED <<kernel, handler, bounds>>

(* An interrupt that throws out of without-gcing after unwind-protect was  *)
(* entered (.SPnmkunwind ends by enabling interrupts) and before           *)
(* %lock-gc-lock, the first form it protects: the cleanup unlocks what was *)
(* never locked.                                                           *)
ThrownBeforeLock(t) ==
    /\ at[t] = "lisp" /\ bodies < MaxBodies /\ bodies' = bodies + 1
    /\ UnlockGC(t)
    /\ UNCHANGED <<kernel, handler, held, asks>>

(* The traps Lisp code takes: uuo-gc-trap, or an allocation without room.  *)
Ask(t, s) ==
    /\ at[t] = "lisp" /\ asks < MaxAsks /\ s # Immediate
    /\ at' = [at EXCEPT ![t] = "trap"] /\ trap' = [trap EXCEPT ![t] = s] /\ asks' = asks + 1
    /\ UNCHANGED <<count, kernel, handler, held, bodies>>

-----------------------------------------------------------------------------
(* The kernel's side.                                                      *)

(* egc_control: disabling leaves one generation, enabling tenures all.     *)
EgcControl(on) == IF on = older THEN UNCHANGED <<older, ephemeral>>
                  ELSE older' = on /\ ephemeral' = on
Untenure == ephemeral' = FALSE /\ UNCHANGED older

MutantDeferring == count > 0
Deferring == count # 0

(* gc_like_from_xp with an ordinary collection: a full one when nothing is *)
(* ephemeral, and then, with the EGC enabled, everything is tenured if     *)
(* there is room for a new generation; with no room nothing stays          *)
(* ephemeral.                                                              *)
Collect(generations) ==
    /\ moved' = 1 - moved
    /\ owed' = (owed /\ generations)
    /\ ephemeral' \in IF older THEN BOOLEAN ELSE {generations}

Negated(n) == IF n > 0 THEN -n ELSE n

(* An attempt to collect: put off, or made.  g: whether there are          *)
(* generations when it starts.                                             *)
PutOff == Deferring /\ count' = Negated(count) /\ gc_deferred' = gc_deferred + 1

Attempt(g) ==
    \/ PutOff /\ ephemeral' = g /\ UNCHANGED <<owed, moved>>
    \/ ~Deferring /\ gc_deferred' = 0 /\ Collect(g) /\ UNCHANGED count

(* Whether the attempt just made was put off: an earlier one may still be. *)
MutantFullPutOff(before, after) == IF after > 0 /\ before = 0 THEN 1 ELSE 0
FullPutOff(before, after) == IF after > before THEN 1 ELSE 0

(* The attempts a trap makes.  Allocation may collect a generation, then,  *)
(* with still no room, everything, then grow the heap.                     *)
AttemptsFor(s) ==
    CASE s = "gc"       -> {<<"first">>}
      [] s = "purify"   -> {<<"first", "purify", "gc">>}
      [] s = "flash"    -> {<<"flash">>}
      [] s = "egc"      -> {<<>>}
      [] s = "alloc"    -> IF older /\ ephemeral
                           THEN {<<>>, <<"gc">>, <<"full">>, <<"gc", "full">>}
                           ELSE {<<>>, <<"full">>}
      [] s = Immediate  -> IF full_gc_deferred = 1 THEN {<<"first">>} ELSE {<<"gc">>}

(* The default branch of handle_gc_trap, that of a full collection.        *)
MutantIsFull(s) == s \in {"gc", "purify"}
IsFull(s) == s \in {"gc", "purify"} \/ (s = Immediate /\ full_gc_deferred = 1)

EnterHandler(t) ==
    /\ at[t] = "trap" /\ exception = None
    /\ exception' = t /\ at' = [at EXCEPT ![t] = "handler"]
    /\ previous' = [deferred |-> gc_deferred, egc |-> older]
    /\ todo' \in AttemptsFor(trap[t])
    /\ CASE trap[t] = "egc"   -> \E on \in BOOLEAN : EgcControl(on)
         [] trap[t] = "flash" -> Untenure
         [] IsFull(trap[t])   -> older' = FALSE /\ ephemeral' = (ephemeral /\ ~older)
         [] OTHER -> UNCHANGED <<older, ephemeral>>
    /\ UNCHANGED <<count, gc_deferred, full_gc_deferred, owed, moved, trap, held, bounds>>

(* The first attempt of the default branch says whether a full collection  *)
(* is owed; the trap that pays it comes from the last body.                *)
FirstAttempt ==
    /\ Head(todo) = "first"
    /\ gc_deferred' = IF Deferring THEN gc_deferred + 1 ELSE 0
    /\ full_gc_deferred' = FullPutOff(previous.deferred, gc_deferred')
    /\ \/ Deferring /\ count' = Negated(count) /\ owed' = TRUE /\ UNCHANGED <<ephemeral, moved>>
       \/ ~Deferring /\ Collect(ephemeral) /\ UNCHANGED count

(* purify and impurify ("purify"), which move objects, and flash_freeze,   *)
(* which does not, are put off like a collection, but nobody makes up for  *)
(* them.                                                                   *)
InPlaceOfCollection(m) ==
    /\ \/ PutOff /\ UNCHANGED moved
       \/ ~Deferring /\ gc_deferred' = 0 /\ moved' = m /\ UNCHANGED count
    /\ UNCHANGED <<owed, ephemeral>>

(* A whole handler's attempts but the first, each with the world stopped.  *)
LaterAttempt ==
    /\ Head(todo) # "first"
    /\ CASE Head(todo) = "gc"     -> Attempt(ephemeral)
         [] Head(todo) = "full"   -> Attempt(FALSE)     \* after untenure_from_area
         [] Head(todo) = "purify" -> InPlaceOfCollection(1 - moved)
         [] Head(todo) = "flash"  -> InPlaceOfCollection(moved)
    /\ UNCHANGED full_gc_deferred

MakeAttempt(t) ==
    /\ at[t] = "handler" /\ todo # <<>>
    /\ FirstAttempt \/ LaterAttempt
    /\ todo' = Tail(todo)
    /\ UNCHANGED <<older, exception, previous, local, held, bounds>>

LeaveHandler(t) ==
    /\ at[t] = "handler" /\ todo = <<>>
    /\ exception' = None /\ at' = [at EXCEPT ![t] = "lisp"]
    /\ trap' = [trap EXCEPT ![t] = Immediate] /\ previous' = Nothing
    /\ IF previous.egc /\ trap[t] # "egc"
         THEN IF trap[t] = "flash" THEN ephemeral' = TRUE /\ UNCHANGED older
                                   ELSE EgcControl(TRUE)
         ELSE UNCHANGED <<older, ephemeral>>
    /\ UNCHANGED <<count, gc_deferred, full_gc_deferred, owed, moved, todo, held, bounds>>

Next ==
    \/ \E t \in Threads, d \in 1..MaxDepth : Lock(t, d) \/ Unlock(t, d)
    \/ \E t \in Threads, s \in Selectors : Ask(t, s)
    \/ \E t \in Threads : EnterHandler(t) \/ MakeAttempt(t) \/ LeaveHandler(t)

Spec == Init /\ [][Next]_vars

(* A thread in the kernel gets the exception lock and goes on, and a body  *)
(* ends: nothing else is assumed, and bodies are finitely many.            *)
Fairness ==
    /\ \A t \in Threads : WF_vars(EnterHandler(t) \/ MakeAttempt(t) \/ LeaveHandler(t))
    /\ \A t \in Threads : WF_vars(\E d \in 1..MaxDepth : Unlock(t, d))
FairSpec == Spec /\ Fairness

(* The same, with interrupts that throw out of without-gcing.              *)
NextWithThrows == Next \/ \E t \in Threads : ThrownBeforeLock(t)
SpecWithThrows == Init /\ [][NextWithThrows]_vars
-----------------------------------------------------------------------------
(* The types of the variables.                                             *)
TypeOK ==
    /\ count \in Int /\ gc_deferred \in Nat /\ full_gc_deferred \in 0..1
    /\ older \in BOOLEAN /\ ephemeral \in BOOLEAN /\ owed \in BOOLEAN /\ moved \in 0..1
    /\ exception \in Threads \cup {None} /\ held \subseteq Bodies
    /\ at \in [Threads -> {"lisp", "trap", "handler"}] /\ trap \in [Threads -> Selectors]
    /\ todo \in Seq(Attempts)
    /\ previous \in [deferred : Nat, egc : BOOLEAN]
    /\ bodies \in Nat /\ asks \in Nat

(* The count never loses a body: whatever the sign and whoever flipped it  *)
(* between a body's entry and its end, its size is the number of bodies    *)
(* that are in progress, so it comes to 0 exactly when the last one ends   *)
(* (x86-misc.lisp:704-746, x86-exceptions.c:2810-2815).                    *)
CountIsBodies == count \in {Cardinality(held), -Cardinality(held)}

(* What was put off is never forgotten: the count is negative, so the last *)
(* body will trap, or a thread is on its way to collect                    *)
(* (x86-exceptions.c:2811-2817, x86-misc.lisp:735-741).                    *)
OnTheWay(t) == trap[t] = Immediate /\ (at[t] = "trap" \/ (at[t] = "handler" /\ todo # <<>>))
PaymentIsDue == gc_deferred > 0 \/ full_gc_deferred = 1 => count < 0 \/ \E t \in Threads : OnTheWay(t)

(* A full collection that was put off stays noted as a full one, across    *)
(* collections of a generation and other attempts that are put off, until  *)
(* a full one was made (x86-exceptions.c:308-312).                         *)
OwedIsNoted == owed => full_gc_deferred = 1

(* Nothing moves while a thread is in a body (macros.lisp:3335-3347).      *)
GCDisabledInBody == [][moved' # moved => held = {}]_vars

(* A full collection put off is made once the bodies end: the trap of the  *)
(* last one switches the generations off, or it would collect only the     *)
(* youngest (x86-exceptions.c:293-312).                                    *)
OwedIsPaid == owed ~> ~owed
=============================================================================
