--------------------------- MODULE ArmAllocation ----------------------------
(***************************************************************************)
(* Allocation on the ARM: the sequence of the consing vinsns (arm-macros.s *)
(* Cons and Misc_Alloc), recognized by the macros of arm-exceptions.h, and *)
(* arm-exceptions.c.  The allocation pointer is in a register that is no   *)
(* root, the limit in the TCR, and a displacement is negative.             *)
(***************************************************************************)
EXTENDS Consing

Dnode == 8
ConsTag == 5
MiscTag == 6
Void == Top - Dnode

FullTag(a) == a % Dnode
Untag(a) == a - FullTag(a)
Size(kind) == Dnode * Dnodes[kind]
IsVector(kind) == kind # "cons"
TagOf(kind) == IF IsVector(kind) THEN MiscTag ELSE ConsTag
Amount(kind) == Size(kind) - TagOf(kind)

NewObject(x) == [at |-> Untag(x.reg), size |-> Size(x.kind),
                 whole |-> x.hdr \/ ~IsVector(x.kind)]

(* A subtraction takes a byte of its operand at a time.                    *)
LowByte(n) == n % 256
HighByte(n) == n - LowByte(n)

Execute(x) ==
    CASE x.pc = "sub" ->
           [x EXCEPT !.reg = (@ - LowByte(Amount(x.kind))) % Top,
                     !.pc = IF HighByte(Amount(x.kind)) > 0 THEN "hi" ELSE "load"]
      [] x.pc = "hi" ->
           [x EXCEPT !.reg = (@ - HighByte(Amount(x.kind))) % Top, !.pc = "load"]
      [] x.pc = "load" -> [x EXCEPT !.base = x.limit, !.pc = "cmp"]
      [] x.pc = "cmp" -> [x EXCEPT !.above = x.reg > x.base, !.pc = "branch"]
      [] x.pc = "branch" -> [x EXCEPT !.pc = IF x.above THEN "init" ELSE "trap"]
      [] x.pc = "init" -> [x EXCEPT !.hdr = TRUE, !.pc = "result"]
      [] x.pc = "result" -> [x EXCEPT !.got = NewObject(x), !.pc = "clear"]
      [] x.pc = "clear" ->
           [x EXCEPT !.reg = Untag(@), !.hdr = FALSE, !.above = FALSE,
                     !.base = 0, !.kind = "none", !.pc = "idle"]
      [] x.pc = "go" -> [x EXCEPT !.in = "foreign", !.reg = 0]
      [] x.pc = "back" -> [x EXCEPT !.reg = x.saved, !.pc = "idle"]

Traps(x) == x.pc = "trap"

(* The thread looks stopped while it waits for the exception lock.         *)
SignalHandler(x) == Pending(x, "trap")

(* Where handle_exception goes: by the signal, then by the uuo at the pc.  *)
HandleException(x) ==
    CASE x.why = "interrupt" -> "interrupt"
      [] x.why # "interrupt" /\ Traps(x) -> "alloc trap"
      [] x.why = "list" -> "uuo"
      [] OTHER -> "gc trap"

(* What handle_gc_trap may be asked for.                                   *)
GcTrapFunctions == {"gc", "use threshold", "disable", "enable"}

(* The uuo of the sequence is unconditional: it is never stepped over.     *)
SigillHandler(x) == SignalHandler(x)

(* What the subtraction before the trap added to the pointer.              *)
AllocptrDisplacement(x) == IF x.pc = "trap" THEN -Amount(x.kind) ELSE 0

(* The rest of the sequence, carried out on the context.                   *)
FinishAllocating(x) ==
    LET y == [x EXCEPT !.hdr = TRUE]
    IN  [x EXCEPT !.got = IF x.pc = "clear" THEN @ ELSE NewObject(y),
                  !.reg = Untag(@), !.hdr = FALSE, !.above = FALSE, !.base = 0,
                  !.kind = "none", !.pc = "idle"]

FinishAllocatingCons(x) == FinishAllocating(x)
FinishAllocatingUvector(x) == FinishAllocating(x)

(* At the trap, with an allocation not made yet.                           *)
AtTrap(x, interrupt) ==
    LET disp == AllocptrDisplacement(x)
    IN  IF interrupt
        THEN [x EXCEPT !.disp = disp, !.reg = (@ - disp) % Top]
        ELSE [x EXCEPT !.reg = Void + disp, !.base = Void, !.above = FALSE]

(* Back to the subtraction, with a pointer that makes it trap.             *)
BeforeTrap(x) == [x EXCEPT !.pc = "sub", !.reg = Void, !.above = FALSE, !.base = 0]

PcLuserXp(x, interrupt) ==
    CASE FullTag(x.reg) = 0 -> x
      [] FullTag(x.reg) # 0 /\ AllocptrDisplacement(x) # 0 -> AtTrap(x, interrupt)
      [] FullTag(x.reg) # 0 /\ x.pc \in {"branch", "cmp", "load", "hi"} -> BeforeTrap(x)
      [] FullTag(x.reg) = ConsTag /\ x.pc \in {"init", "result", "clear"} ->
           [FinishAllocatingCons(x) EXCEPT !.reg = Void]
      [] FullTag(x.reg) = MiscTag /\ x.pc \in {"init", "result", "clear"} ->
           [FinishAllocatingUvector(x) EXCEPT !.reg = Void]
      [] OTHER -> [x EXCEPT !.pc = "bug"]

NormalizeTcr(x, other) ==
    LET y == IF other /\ HasContext(x) THEN PcLuserXp(x, FALSE) ELSE x
        free == other /\ HasContext(x) /\ FullTag(y.reg) = 0 /\ y.reg # 0
    IN  [y EXCEPT !.saved = Void, !.limit = Void,
                  !.reg = IF free THEN Void ELSE @]

GcLikeFromXp(th, t) ==
    [u \in DOMAIN th |->
        IF u = t THEN NormalizeTcr([th[t] EXCEPT !.reg = Void], FALSE)
                 ELSE NormalizeTcr(th[u], TRUE)]

(* The gc trap that forbids allocation takes every segment away.           *)
AllocationControl(th, t) ==
    [u \in DOMAIN th |-> NormalizeTcr(th[u], u # t)]

PlatformNewHeapSegment(x, s) == [x EXCEPT !.reg = s.high, !.limit = s.low]

Granted(x, s, disp) ==
    [x |-> [PlatformNewHeapSegment(x, s) EXCEPT !.reg = @ + disp],
     heap |-> s.heap, next |-> "granted"]

TryAgain(x, heap, need, disp, inhibited) ==
    LET s == NewHeapSegment(heap, need, TRUE, inhibited, Dnode)
    IN  IF s.ok THEN Granted(x, s, disp)
                ELSE [x |-> x, heap |-> heap, next |-> "refused"]

AllocateObject(x, heap, need, disp, inhibited) ==
    LET s == NewHeapSegment(heap, need, FALSE, inhibited, Dnode)
    IN  CASE s.ok -> Granted(x, s, disp)
          [] ~s.ok /\ heap.high - Low > need /\ ~inhibited ->
               [x |-> x, heap |-> heap, next |-> "collect"]
          [] OTHER -> TryAgain(x, heap, need, disp, inhibited)

(* A pointer with another tag is nothing handle_alloc_trap can handle.     *)
NeedOf(x) ==
    LET disp == IF FullTag(x.reg) = ConsTag THEN -Dnode + ConsTag
                                            ELSE AllocptrDisplacement(x)
    IN  [need |-> -disp + FullTag(x.reg), disp |-> disp,
         ok |-> FullTag(x.reg) \in {ConsTag, MiscTag}]

NeedOfList(x) == [need |-> Size(x.kind), disp |-> -Size(x.kind) + ConsTag, ok |-> TRUE]

HandleAllocTrap(x) == [x EXCEPT !.pc = "init", !.in = "returning"]

AllocateList(x) ==
    [x EXCEPT !.got = [at |-> Untag(x.reg), size |-> Size(x.kind), whole |-> TRUE],
              !.reg = @ - ConsTag, !.kind = "none", !.in = "returning"]

(* The callback's code goes on with the segment of the context.            *)
CallbackToLisp(x) == Called([x EXCEPT !.saved = x.reg], x.reg, 0)

CallbackReturned(x) == [Resumed([x EXCEPT !.saved = x.reg]) EXCEPT !.reg = x.reg]

InterruptTaken(x) == LET y == CallbackReturned(x)
                     IN  [y EXCEPT !.reg = (@ - y.disp) % Top, !.disp = 0,
                                   !.in = "returning"]

InterruptHandler(x) == Pending(PcLuserXp(x, TRUE), "interrupt")

(* Out of a handler by a throw of the callback's, into code of the thread. *)
Thrown(x) == [x EXCEPT !.saved = x.reg, !.pc = "idle", !.kind = "none",
                       !.base = 0, !.above = FALSE, !.in = "lisp", !.why = "none"]

LispAllocationFailure(x) == Thrown([x EXCEPT !.reg = Void, !.base = Void])

(* handle_alloc_trap of a thread that may not allocate: it is backed up to *)
(* the subtraction, and gets an error.                                     *)
AllocationDisabled(x) ==
    Thrown([PcLuserXp([x EXCEPT !.pc = "branch"], FALSE) EXCEPT !.limit = Void])

ToForeign(x) == [x EXCEPT !.saved = x.reg, !.pc = "go"]
FromForeign(x) == [x EXCEPT !.in = "lisp", !.pc = "back", !.reg = Void]

(* What the thread takes its next objects from.                            *)
Segment(x) == [low |-> x.limit,
               high |-> Untag(IF x.in = "foreign" \/ x.pc = "back"
                              THEN x.saved ELSE x.reg)]

InProgress(c) == c.pc \in {"init", "result", "clear"} \/ (c.pc = "branch" /\ c.above)

RegisterIsRoot == FALSE
=============================================================================
