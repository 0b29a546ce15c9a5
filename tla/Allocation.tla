----------------------------- MODULE Allocation -----------------------------
(***************************************************************************)
(* Threads that allocate, on each of the three ports: instruction by       *)
(* instruction in their own segments, through the alloc trap and the       *)
(* exception lock when a segment is used up, interrupted between any two   *)
(* instructions, in and out of foreign code, and stopped wherever they are *)
(* while one of them collects.                                             *)
(*                                                                         *)
(* The exception lock is held by a handler, which is one step unless it    *)
(* collects; what is reachable is the last object of each context, and a   *)
(* collection compacts it to the start of the heap.                        *)
(***************************************************************************)
EXTENDS Consing

CONSTANTS
    Threads,
    None,         \* not a thread
    Room,         \* dnodes of the heap at the start
    Programs      \* what the threads may do between them: the port, whether
                  \* lisp_global(GC_INHIBIT_COUNT) is not 0, the kinds of
                  \* objects they allocate, and how often they allocate, are
                  \* interrupted, call out and execute which gc traps

ASSUME PortsAreThree == \A p \in Programs : p.port \in {"x86", "arm", "ppc"}

VARIABLES
    th,         \* thread -> its record (Consing)
    heap,       \* the dynamic area (Consing)
    holder,     \* the thread with the exception lock inside a handler: None,
                \* or how far it is and what it needs
    enabled,    \* allocation_enabled (ARM)
    notified,   \* did_gc_notification_since_last_full_gc (x86)
    left        \* what is left of the program

vars == <<th, heap, holder, enabled, notified, left>>

port == left.port
inhibited == left.inhibited

X86 == INSTANCE X86Allocation
Arm == INSTANCE ArmAllocation
Ppc == INSTANCE PpcAllocation

Of(x86, arm, ppc) == CASE port = "x86" -> x86
                       [] port = "arm" -> arm
                       [] port = "ppc" -> ppc

Dnode == Of(X86!Dnode, Arm!Dnode, Ppc!Dnode)
Execute(x) == Of(X86!Execute(x), Arm!Execute(x), Ppc!Execute(x))
Traps(x) == Of(X86!Traps(x), Arm!Traps(x), Ppc!Traps(x))
AtTrap(x) == Of(X86!SignalHandler(x), Arm!SigillHandler(x), Ppc!SignalHandler(x))
InterruptHandler(x) ==
    Of(X86!InterruptHandler(x), Arm!InterruptHandler(x), Ppc!InterruptHandler(x))
CallbackToLisp(x) ==
    Of(X86!CallbackToLisp(x), Arm!CallbackToLisp(x), Ppc!CallbackToLisp(x))
CallbackDone(x) ==
    Of(X86!InterruptTaken(x), Arm!InterruptTaken(x), Ppc!InterruptTaken(x))
Handler(x) ==
    Of(X86!HandleException(x), Arm!HandleException(x), Ppc!PMCLExceptionHandler(x))
GcTrapFunctions == Of(X86!GcTrapFunctions, Arm!GcTrapFunctions, Ppc!GcTrapFunctions)
NeedOf(x) == IF x.why = "list"
             THEN Of(X86!NeedOfList(x), Arm!NeedOfList(x), Ppc!NeedOfList(x))
             ELSE Of(X86!NeedOf(x), Arm!NeedOf(x), Ppc!NeedOf(x))
AllocateObject(x, need, disp) ==
    Of(X86!AllocateObject(x, heap, need, disp, inhibited),
       Arm!AllocateObject(x, heap, need, disp, inhibited),
       Ppc!AllocateObject(x, heap, need, disp, inhibited))
TryAgain(x, need, disp) ==
    Of(X86!TryAgain(x, heap, need, disp, inhibited),
       Arm!TryAgain(x, heap, need, disp, inhibited),
       Ppc!TryAgain(x, heap, need, disp, inhibited))
Allocated(x) ==
    IF x.why = "list"
    THEN Of(X86!AllocateList(x), Arm!AllocateList(x), Ppc!AllocateList(x))
    ELSE Of(X86!HandleAllocTrap(x), Arm!HandleAllocTrap(x), Ppc!HandleAllocTrap(x))
AllocationFailure(x) ==
    Of(X86!LispAllocationFailure(x), Arm!LispAllocationFailure(x),
       Ppc!LispAllocationFailure(x))
Normalized(t) == Of(X86!GcLikeFromXp(th, t), Arm!GcLikeFromXp(th, t),
                    Ppc!GcLikeFromXp(th, t))
ToForeign(x) == Of(X86!ToForeign(x), Arm!ToForeign(x), Ppc!ToForeign(x))
FromForeign(x) == Of(X86!FromForeign(x), Arm!FromForeign(x), Ppc!FromForeign(x))
Segment(x) == Of(X86!Segment(x), Arm!Segment(x), Ppc!Segment(x))
InProgress(c) == Of(X86!InProgress(c), Arm!InProgress(c), Ppc!InProgress(c))
RegisterIsRoot == Of(X86!RegisterIsRoot, Arm!RegisterIsRoot, Ppc!RegisterIsRoot)
SizeOf(kind) == Dnode * Dnodes[kind]
Untag(a) == a - (a % Dnode)

Stopped == holder # None /\ holder.stage \in {"first", "full", "asked"}
LockFree == holder = None

(* The contexts of a thread, and the objects they refer to.                *)
Contexts(x) == <<Context(x)>> \o x.outer
Held(c) ==
    {[at |-> c.got.at, size |-> c.got.size] : k \in IF c.got.size > 0 THEN {1} ELSE {}}
        \cup {[at |-> Untag(c.reg), size |-> SizeOf(c.kind)] :
                k \in IF InProgress(c) THEN {1} ELSE {}}
Live == UNION {UNION {Held(Contexts(th[t])[i]) : i \in DOMAIN Contexts(th[t])} :
               t \in Threads}

-----------------------------------------------------------------------------
(* A thread begins an allocation, or asks the kernel for a list.           *)
Start(t, kind) ==
    LET x == th[t]
    IN  /\ ~Stopped /\ left.allocations > 0 /\ kind \in left.kinds
        /\ x.in = "lisp" /\ x.pc = "idle" /\ x.kind = "none"
        /\ th' = [th EXCEPT ![t] = IF kind = "list"
                                   THEN Pending([x EXCEPT !.kind = kind], "list")
                                   ELSE [x EXCEPT !.kind = kind, !.pc = "sub"]]
        /\ left' = [left EXCEPT !.allocations = @ - 1]
        /\ UNCHANGED <<heap, holder, enabled, notified>>

Instruction(t) ==
    LET x == th[t]
    IN  /\ ~Stopped
        /\ x.in = "lisp" /\ x.pc \notin {"idle", "bug"}
        /\ th' = [th EXCEPT ![t] = IF Traps(x) THEN AtTrap(x) ELSE Execute(x)]
        /\ UNCHANGED <<heap, holder, enabled, notified, left>>

Interrupt(t) ==
    LET x == th[t]
    IN  /\ ~Stopped /\ left.interrupts > 0
        /\ x.in = "lisp" /\ x.outer = <<>> /\ x.pc # "bug"
        /\ th' = [th EXCEPT ![t] = InterruptHandler(x)]
        /\ left' = [left EXCEPT !.interrupts = @ - 1]
        /\ UNCHANGED <<heap, holder, enabled, notified>>

(* A foreign call, for as long as it takes.                                *)
ForeignCall(t) ==
    LET x == th[t]
    IN  /\ ~Stopped /\ left.calls > 0
        /\ x.in = "lisp" /\ x.pc = "idle"
        /\ th' = [th EXCEPT ![t] = ToForeign(x)]
        /\ left' = [left EXCEPT !.calls = @ - 1]
        /\ UNCHANGED <<heap, holder, enabled, notified>>

ForeignReturn(t) ==
    /\ ~Stopped /\ th[t].in = "foreign"
    /\ th' = [th EXCEPT ![t] = FromForeign(@)]
    /\ UNCHANGED <<heap, holder, enabled, notified, left>>

(* A gc trap.                                                              *)
GcTrap(t, why) ==
    LET x == th[t]
    IN  /\ ~Stopped /\ left.controls > 0 /\ why \in left.traps
        /\ x.in = "lisp" /\ x.pc = "idle"
        /\ th' = [th EXCEPT ![t] = Pending(x, why)]
        /\ left' = [left EXCEPT !.controls = @ - 1]
        /\ UNCHANGED <<heap, holder, enabled, notified>>

-----------------------------------------------------------------------------
(* With the exception lock: the rest of an allocation, once there is a     *)
(* segment or no hope of one.  The x86 may tell the program that the heap  *)
(* is nearly full, if the first attempt took the segment.                  *)
Finish(t, r, notify) ==
    LET x == Allocated(r.x)
    IN  /\ heap' = r.heap
        /\ th' = [th EXCEPT ![t] =
                    CASE r.next = "refused" -> AllocationFailure(r.x)
                      [] r.next = "granted" /\ notify ->
                           X86!CallbackToLisp(X86!PcLuserXp(x, FALSE))
                      [] OTHER -> x]
        /\ holder' = None
        /\ UNCHANGED <<enabled, notified, left>>

(* The world is stopped, for an ephemeral collection or a full one.        *)
Collecting(t, stage, n) ==
    /\ th' = Normalized(t)
    /\ holder' = [t |-> t, stage |-> stage, need |-> n.need, disp |-> n.disp]
    /\ UNCHANGED <<heap, enabled, notified, left>>

FirstAttempt(t, n) ==
    \E r \in {AllocateObject(th[t], n.need, n.disp)} :
        IF r.next = "collect"
        THEN Collecting(t, "full", n)
        ELSE \E notify \in IF port = "x86" /\ ~notified /\ r.next = "granted"
                              /\ r.heap.high = heap.high
                           THEN BOOLEAN ELSE {FALSE} :
                Finish(t, r, notify)

HandleAlloc(t) ==
    LET x == th[t]
        n == NeedOf(x)
    IN  /\ LockFree /\ x.in = "waiting"
        /\ \/ Handler(x) = "alloc trap" /\ (port # "arm" \/ enabled)
           \/ Handler(x) = "uuo"
        /\ \/ /\ ~n.ok
              /\ th' = [th EXCEPT ![t].pc = "bug", ![t].in = "returning"]
              /\ UNCHANGED <<heap, holder, enabled, notified, left>>
           \/ /\ n.ok /\ FirstAttempt(t, n)
           \/ /\ n.ok /\ ~inhibited
              /\ Collecting(t, "first", n)

(* The collection: what is live goes to the start of the heap, in order,   *)
(* and a full collection fits the heap to it.                              *)
Collect ==
    LET Below(a) == {o \in Live : o.at < a}
        To(a) == Low + MapThenSumSet(LAMBDA o : o.size, Below(a))
        Moved(a) == LET at == {o \in Live : o.at <= a /\ a < o.at + o.size}
                    IN  IF at = {} THEN a
                        ELSE LET o == CHOOSE o \in at : TRUE
                             IN  a - o.at + To(o.at)
        Fixed(c) == [c EXCEPT !.got.at = IF c.got.size > 0 THEN Moved(@) ELSE @,
                              !.reg = IF RegisterIsRoot THEN Moved(@) ELSE @]
        compacted == [heap EXCEPT !.active = To(Top)]
        free == IF holder.stage = "first" THEN 0 ELSE Spare * Dnode
    IN  /\ Stopped
        /\ th' = [t \in Threads |->
                    [Fixed(th[t]) EXCEPT !.outer = [i \in DOMAIN @ |-> Fixed(@[i])]]]
        /\ heap' = ResizeDynamicHeap(compacted, free, Dnode).heap
        /\ holder' = [holder EXCEPT !.stage = CASE @ = "first" -> "second"
                                                 [] @ = "full" -> "last"
                                                 [] @ = "asked" -> "answered"]
        /\ notified' = (notified /\ holder.stage = "first")
        /\ UNCHANGED <<enabled, left>>

(* The thread that collected goes on with what it did it for.              *)
AfterCollection ==
    /\ holder # None /\ ~Stopped
    /\ LET t == holder.t
       IN  \/ holder.stage = "second" /\ FirstAttempt(t, holder)
           \/ /\ holder.stage = "last"
              /\ \E r \in {TryAgain(th[t], holder.need, holder.disp)} : Finish(t, r, FALSE)
           \/ /\ holder.stage = "answered"
              /\ th' = [th EXCEPT ![t].in = "returning"]
              /\ holder' = None
              /\ UNCHANGED <<heap, enabled, notified, left>>

(* handle_alloc_trap of a thread when allocation has been forbidden.       *)
HandleDisabled(t) ==
    /\ LockFree /\ port = "arm" /\ ~enabled
    /\ th[t].in = "waiting" /\ Handler(th[t]) = "alloc trap"
    /\ th' = [th EXCEPT ![t] = Arm!AllocationDisabled(@)]
    /\ enabled' = TRUE
    /\ UNCHANGED <<heap, holder, notified, left>>

(* The gc traps: a full collection, unless collections are inhibited; what *)
(* is free fitted to the threshold; and on the ARM, allocation forbidden   *)
(* and allowed again.                                                      *)
HandleGcTrap(t) ==
    LET Answered(x) == [x EXCEPT !.in = "returning"]
        why == th[t].why
    IN  /\ LockFree /\ th[t].in = "waiting" /\ Handler(th[t]) = "gc trap"
        /\ \/ /\ why = "gc" /\ ~inhibited
              /\ Collecting(t, "asked", [need |-> 0, disp |-> 0])
           \/ /\ why # "gc" \/ inhibited
              /\ th' = [(IF why = "disable" /\ enabled THEN Arm!AllocationControl(th, t) ELSE th)
                          EXCEPT ![t] = Answered(@)]
              /\ enabled' = (IF why \in {"disable", "enable"} THEN why = "enable" ELSE enabled)
              /\ heap' = (IF why = "use threshold"
                          THEN ResizeDynamicHeap(heap, Spare * Dnode, Dnode).heap ELSE heap)
              /\ UNCHANGED <<holder, notified, left>>

(* handle_exception calls the interrupt's function, and releases the lock  *)
(* for as long as it runs.                                                 *)
HandleInterrupt(t) ==
    /\ LockFree /\ th[t].in = "waiting" /\ Handler(th[t]) = "interrupt"
    /\ th' = [th EXCEPT ![t] = CallbackToLisp(@)]
    /\ UNCHANGED <<heap, holder, enabled, notified, left>>

EndCallback(t) ==
    LET x == th[t]
    IN  /\ LockFree /\ x.outer # <<>>
        /\ x.in = "lisp" /\ x.pc = "idle" /\ x.kind = "none"
        /\ th' = [th EXCEPT ![t] = CallbackDone(x)]
        /\ notified' = (notified \/ Head(x.outer).why # "interrupt")
        /\ UNCHANGED <<heap, holder, enabled, left>>

Return(t) ==
    /\ ~Stopped /\ th[t].in = "returning"
    /\ th' = [th EXCEPT ![t].in = "lisp", ![t].why = "none"]
    /\ UNCHANGED <<heap, holder, enabled, notified, left>>

-----------------------------------------------------------------------------
(* A thread that has no segment yet; the heap may be full of garbage.      *)
Fresh(p) == [pc |-> "idle", kind |-> "none", reg |-> IF p = "x86" THEN 0 ELSE Arm!Void,
             base |-> IF p = "ppc" THEN Ppc!Void ELSE 0, above |-> FALSE,
             hdr |-> FALSE, got |-> NoObject, disp |-> 0, in |-> "lisp",
             why |-> "none", outer |-> <<>>,
             saved |-> IF p = "x86" THEN X86!Void ELSE Arm!Void,
             limit |-> IF p = "x86" THEN X86!Void ELSE Arm!Void]

Init ==
    /\ left \in Programs
    /\ th = [t \in Threads |-> Fresh(port)]
    /\ \E free \in {0, Room} :
         heap = AllocateDynamicArea(Room * Dnode, free * Dnode, Dnode)
    /\ holder = None
    /\ enabled = TRUE /\ notified = FALSE

(* What a thread goes on to do by itself, and what it may choose to do.    *)
GoesOn(t) ==
    \/ Instruction(t)
    \/ HandleAlloc(t)
    \/ HandleDisabled(t)
    \/ HandleGcTrap(t)
    \/ HandleInterrupt(t)
    \/ EndCallback(t)
    \/ Return(t)

Chooses(t) ==
    \/ \E kind \in Kinds : Start(t, kind)
    \/ Interrupt(t)
    \/ ForeignCall(t)
    \/ ForeignReturn(t)
    \/ \E why \in GcTrapFunctions : GcTrap(t, why)

Next ==
    \/ Collect
    \/ AfterCollection
    \/ \E t \in Threads : GoesOn(t) \/ Chooses(t)

Spec == Init /\ [][Next]_vars

(* A thread that can run does; the exception lock is given to every thread *)
(* that waits for it, since what the others do with it comes to an end;    *)
(* and the function an interrupt calls returns, with its foreign calls.    *)
FairSpec ==
    /\ Spec
    /\ WF_vars(Collect)
    /\ WF_vars(AfterCollection)
    /\ \A t \in Threads : /\ WF_vars(GoesOn(t))
                        /\ WF_vars(th[t].outer # <<>> /\ ForeignReturn(t))

-----------------------------------------------------------------------------
(* What belongs to whom: the objects of each context of each thread, and   *)
(* what is left of each segment.                                           *)
Claims ==
    UNION {
        UNION {{[of |-> <<t, i>>, low |-> o.at, high |-> o.at + o.size] :
                  o \in Held(Contexts(th[t])[i])} : i \in DOMAIN Contexts(th[t])}
        \cup {[of |-> <<t, 0>>, low |-> s.low, high |-> s.high] :
                s \in {y \in {Segment(th[t])} : y.low < y.high}}
        : t \in Threads}

(* No memory is given out twice: the objects that are referred to and the  *)
(* free parts of the segments lie in the heap, and no two of them overlap, *)
(* whatever instruction of an allocation a thread was interrupted at,      *)
(* stopped at for a collection, or thrown out of.  The heap itself ends    *)
(* where what is reserved for it begins, however it has grown and shrunk.  *)
NothingOverlaps ==
    /\ heap.active <= heap.high /\ heap.high = heap.reserved /\ heap.high <= Limit
    /\ \A c \in Claims : Low <= c.low /\ c.high <= heap.active
    /\ \A c, d \in Claims : c # d => c.high <= d.low \/ d.high <= c.low

(* What the collector finds when every thread is stopped: no thread's      *)
(* state was beyond pc_luser_xp, none has memory left to allocate from     *)
(* (the collector gives that memory out again), and every object that is   *)
(* referred to is a whole one, with its header; and its tables reach to    *)
(* the end of the heap.                                                    *)
RootsWhole ==
    /\ heap.high <= heap.tables
    /\ \A t \in Threads : th[t].pc # "bug"
    /\ Stopped =>
         \A t \in Threads :
            /\ Segment(th[t]).low >= Segment(th[t]).high
            /\ \A i \in DOMAIN Contexts(th[t]) :
                 LET c == Contexts(th[t])[i]
                 IN  c.got.whole /\ (InProgress(c) => c.hdr \/ c.kind = "cons")

(* An allocation that has begun comes to an end, with an object or with an *)
(* error, whatever interrupts it.                                          *)
AllocationReturns ==
    \A t \in Threads :
        th[t].kind # "none" ~> (th[t].kind = "none" /\ th[t].outer = <<>>)
=============================================================================
