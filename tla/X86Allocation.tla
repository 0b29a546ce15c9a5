--------------------------- MODULE X86Allocation ----------------------------
(***************************************************************************)
(* Allocation on the x86-64: the instructions that take an object off the  *)
(* end of the thread's segment (x86-macros.s Cons and Misc_Alloc), and in  *)
(* x86-exceptions.c the trap they take when the segment is used up, the    *)
(* interrupt that comes between two of them, and pc_luser_xp, which brings *)
(* a thread stopped between two of them to a place the collector can       *)
(* understand.  The allocation pointer is in the thread's TCR, and the     *)
(* register is a node register.                                            *)
(***************************************************************************)
EXTENDS Consing

Dnode == 16
ConsTag == 3
MiscTag == 13
Void == Top - Dnode

FullTag(a) == a % Dnode
Untag(a) == a - FullTag(a)
Size(kind) == Dnode * Dnodes[kind]
IsVector(kind) == kind # "cons"

(* How far an allocation moves the pointer, tag included.                  *)
Amount(kind) == Size(kind) - (IF IsVector(kind) THEN MiscTag ELSE ConsTag)

NewObject(x) == [at |-> Untag(x.reg), size |-> Size(x.kind),
                 whole |-> x.hdr \/ ~IsVector(x.kind)]

AfterTrap(kind) == IF IsVector(kind) THEN "header" ELSE "clear"

(* One instruction of the sequence, the trap excepted.                     *)
Execute(x) ==
    CASE x.pc = "sub" -> [x EXCEPT !.saved = (@ - Amount(x.kind)) % Top, !.pc = "load"]
      [] x.pc = "load" -> [x EXCEPT !.reg = x.saved, !.pc = "cmp"]
      [] x.pc = "cmp" -> [x EXCEPT !.above = x.reg > x.limit, !.pc = "branch"]
      [] x.pc = "branch" ->
           [x EXCEPT !.pc = IF x.above THEN AfterTrap(x.kind) ELSE "trap"]
      [] x.pc = "header" -> [x EXCEPT !.hdr = TRUE, !.pc = "clear"]
      [] x.pc = "clear" -> [x EXCEPT !.saved = Untag(@), !.pc = "init"]
      [] x.pc = "init" ->
           [x EXCEPT !.got = NewObject(x), !.hdr = FALSE, !.above = FALSE,
                     !.kind = "none", !.pc = "idle"]

Traps(x) == x.pc = "trap"

(* The thread looks stopped while it waits for the exception lock.         *)
SignalHandler(x) == Pending(x, "trap")

(* Where handle_exception goes: by the signal, then by the uuo at the pc.  *)
HandleException(x) ==
    CASE x.why = "interrupt" -> "interrupt"
      [] x.why # "interrupt" /\ Traps(x) -> "alloc trap"
      [] x.why = "list" -> "uuo"
      [] OTHER -> "gc trap"

(* What handle_gc_trap may be asked for.                                   *)
GcTrapFunctions == {"gc", "use threshold"}

(* The instructions pc_luser_xp knows in a thread whose pointer is tagged. *)
RecognizeAllocInstruction(pc) ==
    pc \in {"trap", "branch", "header", "clear", "cmp", "load"}

(* The header stored if there is one, the tag taken off.                   *)
MutantFinished(x) == [x EXCEPT !.saved = Untag(@), !.pc = "init"]
Finished(x) ==
    [x EXCEPT !.hdr = IsVector(x.kind), !.saved = Untag(@), !.pc = "init"]

(* Back to the load: an interrupt is told what to take off again, and any  *)
(* other thread will find its segment used up.                             *)
MutantBackedUp(x, interrupt) ==
    [x EXCEPT !.saved = (@ + Amount(x.kind)) % Top, !.pc = "load",
              !.disp = IF interrupt THEN Amount(x.kind) ELSE @]
BackedUp(x, interrupt) ==
    LET disp == Amount(x.kind)
    IN  IF interrupt
        THEN [x EXCEPT !.saved = (@ + disp) % Top, !.disp = disp, !.pc = "load"]
        ELSE [x EXCEPT !.saved = Void - disp, !.pc = "load"]

PcLuserXp(x, interrupt) ==
    CASE FullTag(x.saved) = 0 -> x
      [] FullTag(x.saved) # 0 /\ ~RecognizeAllocInstruction(x.pc) ->
           [x EXCEPT !.pc = "bug"]
      [] FullTag(x.saved) # 0 /\ x.pc \in {"header", "clear"} -> Finished(x)
      [] FullTag(x.saved) # 0 /\ x.pc = "trap" ->
           IF interrupt
           THEN BackedUp([x EXCEPT !.reg = Void], TRUE)
           ELSE [x EXCEPT !.reg = Void - Amount(x.kind),
                          !.saved = Void - Amount(x.kind)]
      [] FullTag(x.saved) # 0 /\ x.pc = "branch" ->
           IF x.above THEN Finished(x) ELSE BackedUp([x EXCEPT !.reg = Void], interrupt)
      [] FullTag(x.saved) # 0 /\ x.pc = "cmp" ->
           BackedUp([x EXCEPT !.reg = Void], interrupt)
      [] FullTag(x.saved) # 0 /\ x.pc = "load" -> BackedUp(x, interrupt)

NormalizeTcr(x, other) ==
    LET y == IF other /\ HasContext(x) THEN PcLuserXp(x, FALSE) ELSE x
    IN  [y EXCEPT !.limit = Void,
                  !.saved = IF FullTag(@) = 0 THEN Void ELSE @]

(* Every thread, while t is about to collect.                              *)
GcLikeFromXp(th, t) ==
    [u \in DOMAIN th |->
        IF u = t THEN NormalizeTcr([th[t] EXCEPT !.reg = Void], FALSE)
                 ELSE NormalizeTcr(th[u], TRUE)]

PlatformNewHeapSegment(x, s) ==
    [x EXCEPT !.reg = s.high, !.saved = s.high, !.limit = s.low]

(* The object at the end of a new segment.                                 *)
Granted(x, s, disp) ==
    LET y == PlatformNewHeapSegment(x, s)
    IN  [x |-> [y EXCEPT !.reg = @ - disp, !.saved = @ - disp],
         heap |-> s.heap, next |-> "granted"]

(* The second attempt, after the full collection or in place of it.        *)
TryAgain(x, heap, need, disp, inhibited) ==
    LET s == NewHeapSegment(heap, need, TRUE, inhibited, Dnode)
    IN  IF s.ok THEN Granted(x, s, disp)
                ELSE [x |-> x, heap |-> heap, next |-> "refused"]

AllocateObject(x, heap, need, disp, inhibited) ==
    LET s == NewHeapSegment(heap, need, FALSE, inhibited, Dnode)
    IN  CASE s.ok -> Granted(x, s, disp)
          [] ~s.ok /\ heap.high - Low > need /\ ~inhibited ->
               [x |-> x, heap |-> heap, next |-> "collect"]
          [] OTHER -> TryAgain(x, heap, need, disp, inhibited)

(* What handle_alloc_trap asks for: the tag says what the object is.       *)
NeedOf(x) == LET disp == IF FullTag(x.reg) = MiscTag THEN Amount(x.kind)
                                                     ELSE Dnode - ConsTag
             IN  [need |-> disp + FullTag(x.reg), disp |-> disp, ok |-> TRUE]

(* What allocate_list asks for.                                            *)
NeedOfList(x) == [need |-> Size(x.kind), disp |-> Size(x.kind) - ConsTag, ok |-> TRUE]

MutantHandleAllocTrap(x) == [x EXCEPT !.in = "returning"]
HandleAllocTrap(x) == [x EXCEPT !.pc = AfterTrap(x.kind), !.in = "returning"]

AllocateList(x) ==
    [x EXCEPT !.got = [at |-> Untag(x.reg), size |-> Size(x.kind), whole |-> TRUE],
              !.saved = @ - ConsTag, !.kind = "none", !.in = "returning"]

CallbackToLisp(x) == Called(x, 0, 0)

(* handle_exception is back from the callback of an interrupt.             *)
InterruptTaken(x) == LET y == Resumed(x)
                     IN  [y EXCEPT !.saved = (@ - y.disp) % Top, !.disp = 0,
                                   !.in = "returning"]

InterruptHandler(x) == Pending(PcLuserXp(x, TRUE), "interrupt")

(* The error handler leaves by a throw, into code of the thread.           *)
LispAllocationFailure(x) ==
    [x EXCEPT !.saved = Void, !.limit = Void, !.reg = 0, !.pc = "idle",
              !.kind = "none", !.in = "lisp", !.why = "none"]

ToForeign(x) == [x EXCEPT !.in = "foreign", !.reg = 0]
FromForeign(x) == [x EXCEPT !.in = "lisp"]

(* What the thread takes its next objects from.                            *)
Segment(x) == [low |-> x.limit, high |-> Untag(x.saved)]

(* Past the trap, with an object no pointer of the thread's refers to.     *)
InProgress(c) == c.pc \in {"header", "clear", "init"} \/ (c.pc = "branch" /\ c.above)

(* The register is a root of the collector's.                              *)
RegisterIsRoot == TRUE
=============================================================================
