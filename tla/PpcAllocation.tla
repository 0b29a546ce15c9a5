--------------------------- MODULE PpcAllocation ----------------------------
(***************************************************************************)
(* Allocation on the 32-bit PPC (ppc-macros.s Cons and Misc_Alloc,         *)
(* ppc-exceptions.c): both the allocation pointer and its limit are in     *)
(* registers, and the trap compares them itself.                           *)
(***************************************************************************)
EXTENDS Consing

Dnode == 8
ConsTag == 1
MiscTag == 6
Void == Top - Dnode

FullTag(a) == a % Dnode
Untag(a) == a - FullTag(a)
Size(kind) == Dnode * Dnodes[kind]
IsVector(kind) == kind # "cons"
Amount(kind) == Size(kind) - (IF IsVector(kind) THEN MiscTag ELSE ConsTag)

NewObject(x) == [at |-> Untag(x.reg), size |-> Size(x.kind),
                 whole |-> x.hdr \/ ~IsVector(x.kind)]

(* The trap is an instruction like the others unless it is taken.          *)
Execute(x) ==
    CASE x.pc = "sub" ->
           [x EXCEPT !.reg = (@ - Amount(x.kind)) % Top, !.pc = "trap"]
      [] x.pc = "trap" -> [x EXCEPT !.pc = "init"]
      [] x.pc = "init" -> [x EXCEPT !.hdr = TRUE, !.pc = "result"]
      [] x.pc = "result" -> [x EXCEPT !.got = NewObject(x), !.pc = "clear"]
      [] x.pc = "clear" ->
           [x EXCEPT !.reg = Untag(@), !.hdr = FALSE, !.kind = "none", !.pc = "idle"]
      [] x.pc = "go" -> [x EXCEPT !.in = "foreign", !.reg = 0, !.base = 0]
      [] x.pc = "back" -> [x EXCEPT !.reg = x.saved, !.base = x.limit, !.pc = "idle"]

Traps(x) == x.pc = "trap" /\ x.reg < x.base

(* The thread looks stopped while it waits for the exception lock.         *)
SignalHandler(x) == Pending(x, "trap")

(* By the signal, then by the instruction at the pc.                       *)
PMCLExceptionHandler(x) ==
    CASE x.why = "interrupt" -> "interrupt"
      [] x.why # "interrupt" /\ Traps(x) -> "alloc trap"
      [] x.why = "list" -> "uuo"
      [] OTHER -> "gc trap"

(* What handle_gc_trap may be asked for.                                   *)
GcTrapFunctions == {"gc", "use threshold"}

AllocptrDisplacement(x) == IF x.pc = "trap" THEN Amount(x.kind) ELSE 0

FinishAllocating(x) ==
    LET y == [x EXCEPT !.hdr = TRUE]
    IN  [x EXCEPT !.got = IF x.pc = "clear" THEN @ ELSE NewObject(y),
                  !.reg = Untag(@), !.hdr = FALSE, !.kind = "none", !.pc = "idle"]

FinishAllocatingCons(x) == FinishAllocating(x)
FinishAllocatingUvector(x) == FinishAllocating(x)

AtTrap(x, interrupt) ==
    LET disp == AllocptrDisplacement(x)
    IN  IF interrupt
        THEN [x EXCEPT !.disp = disp, !.reg = (@ + disp) % Top]
        ELSE [x EXCEPT !.base = Void, !.reg = Void - disp]

PcLuserXp(x, interrupt) ==
    CASE FullTag(x.reg) = 0 -> x
      [] FullTag(x.reg) # 0 /\ AllocptrDisplacement(x) # 0 -> AtTrap(x, interrupt)
      [] FullTag(x.reg) = ConsTag /\ x.pc \in {"init", "result", "clear"} ->
           [FinishAllocatingCons(x) EXCEPT !.reg = Void, !.base = Void]
      [] FullTag(x.reg) = MiscTag /\ x.pc \in {"init", "result", "clear"} ->
           [FinishAllocatingUvector(x) EXCEPT !.reg = Void, !.base = Void]
      [] OTHER -> [x EXCEPT !.pc = "bug"]

NormalizeTcr(x, other) ==
    LET y == IF other /\ HasContext(x) THEN PcLuserXp(x, FALSE) ELSE x
        free == other /\ HasContext(x) /\ FullTag(y.reg) = 0 /\ y.reg # 0
    IN  [y EXCEPT !.saved = Void, !.limit = Void,
                  !.reg = IF free THEN Void ELSE @,
                  !.base = IF free THEN Void ELSE @]

GcLikeFromXp(th, t) ==
    [u \in DOMAIN th |->
        IF u = t
        THEN NormalizeTcr([th[t] EXCEPT !.reg = Void, !.base = Void], FALSE)
        ELSE NormalizeTcr(th[u], TRUE)]

PlatformNewHeapSegment(x, s) == [x EXCEPT !.reg = s.high, !.base = s.low]

Granted(x, s, disp) ==
    [x |-> [PlatformNewHeapSegment(x, s) EXCEPT !.reg = @ + disp],
     heap |-> s.heap, next |-> "granted"]

TryAgain(x, heap, need, disp, inhibited) ==
    LET s == NewHeapSegment(heap, need, TRUE, inhibited, Dnode)
    IN  IF s.ok THEN Granted(x, s, disp)
                ELSE [x |-> x, heap |-> heap, next |-> "refused"]

AllocateObject(x, heap, need, disp, inhibited) ==
    LET s == NewHeapSegment(heap, need, FALSE, inhibited, Dnode)
    IN  CASE s.ok -> Granted(x, s, disp)
          [] ~s.ok /\ heap.high - Low > need /\ ~inhibited ->
               [x |-> x, heap |-> heap, next |-> "collect"]
          [] OTHER -> TryAgain(x, heap, need, disp, inhibited)

(* A fixnum in the pointer, or another tag, is no allocation.              *)
NeedOf(x) ==
    LET disp == IF FullTag(x.reg) = ConsTag THEN -Dnode + ConsTag ELSE -Amount(x.kind)
    IN  [need |-> -disp + FullTag(x.reg), disp |-> disp,
         ok |-> FullTag(x.reg) \in {ConsTag, MiscTag}]

NeedOfList(x) == [need |-> Size(x.kind), disp |-> -Size(x.kind) + ConsTag, ok |-> TRUE]

HandleAllocTrap(x) == [x EXCEPT !.pc = "init", !.in = "returning"]

AllocateList(x) ==
    [x EXCEPT !.got = [at |-> Untag(x.reg), size |-> Size(x.kind), whole |-> TRUE],
              !.reg = @ - ConsTag, !.kind = "none", !.in = "returning"]

CallbackToLisp(x) ==
    Called([x EXCEPT !.saved = x.reg, !.limit = x.base], x.reg, x.base)

CallbackReturned(x) ==
    [Resumed([x EXCEPT !.saved = x.reg, !.limit = x.base])
        EXCEPT !.reg = x.reg, !.base = x.base]

InterruptTaken(x) == LET y == CallbackReturned(x)
                     IN  [y EXCEPT !.reg = (@ - y.disp) % Top, !.disp = 0,
                                   !.in = "returning"]

InterruptHandler(x) == Pending(PcLuserXp(x, TRUE), "interrupt")

LispAllocationFailure(x) ==
    [x EXCEPT !.reg = Void, !.base = Void, !.saved = Void, !.limit = Void,
              !.pc = "idle", !.kind = "none", !.in = "lisp", !.why = "none"]

ToForeign(x) == [x EXCEPT !.saved = x.reg, !.limit = x.base, !.pc = "go"]
FromForeign(x) == [x EXCEPT !.in = "lisp", !.pc = "back", !.reg = Void, !.base = Void]

Segment(x) ==
    IF x.in = "foreign" \/ x.pc = "back"
    THEN [low |-> x.limit, high |-> Untag(x.saved)]
    ELSE [low |-> x.base, high |-> Untag(x.reg)]

InProgress(c) == c.pc \in {"init", "result", "clear"}

RegisterIsRoot == FALSE
=============================================================================
