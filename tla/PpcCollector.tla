---------------------------- MODULE PpcCollector ----------------------------
(***************************************************************************)
(* The collector and the gc traps of the 32-bit PPC: lisp-kernel/ppc-gc.c  *)
(* and ppc-exceptions.c.  They are those of the ARM (ArmCollector), but    *)
(* for the addresses in code vectors: a function has only a reference to   *)
(* its code, and an address in the code, of which there are many in the    *)
(* registers, keeps the code vector alive by itself.  The header of the    *)
(* code vector is found by going back from the address.                    *)
(***************************************************************************)
EXTENDS Integers, Sequences, FiniteSets, FiniteSetsExt, SequencesExt

CONSTANTS WordBits, Programs, ReadonlyRoom, Biases

VARIABLES heap, roots, refbits, frozen, marks, pc, stack, prev, this, next, limit,
          todo, reloc, src, dest, was, calls, selector, bias, before

Arm == INSTANCE ArmCollector
X86 == INSTANCE SaveApplication

Init == \E p \in Programs : p.port = "ppc" /\ X86!InitProgram(p)

----------------------------------------------------------------------------
(* The marker.                                                             *)

(* Saved return addresses, and of the registers the pc, lr, ctr and loc_pc.*)
IsPcRoot == Arm!IsPcRoot
MarkRoot == Arm!MarkRoot

(* Where the code vector begins that the word w is in; the header at w     *)
(* itself is one.                                                          *)
CodeVectorAt(m, w) ==
    Max({v \in DOMAIN m : v <= w /\ v % 2 = 0 /\ m[v].tag = "code header"})

(* The dnodes of the code vector are marked at once.                       *)
MarkPcRoot ==
    /\ pc = "roots" /\ stack = <<>> /\ IsPcRoot
    /\ LET locative == roots[todo].at
           code == Arm!Word("misc", CodeVectorAt(heap, locative - (locative % 2)))
       IN  marks' = IF locative \in X86!Words /\ locative \div 2 \notin marks
                      THEN marks \cup X86!DnodesOf(heap, code) ELSE marks
    /\ todo' = todo + 1
    /\ UNCHANGED <<heap, roots, refbits, pc, stack, prev, this, next, limit, reloc, src,
                   dest, was>>

SkipElement == X86!SkipElement
Recur == X86!Recur
ReturnFromCall == X86!ReturnFromCall
Invert == X86!Invert
MarkCons == X86!MarkCons
MarkCdr == X86!MarkCdr
MarkVector == Arm!MarkVector
MarkVectorLoop == Arm!MarkVectorLoop
Climb == X86!Climb
ClimbRoot == X86!ClimbRoot

----------------------------------------------------------------------------
(* Relocation and compaction.                                              *)

CalculateRelocation == X86!CalculateRelocation
ForwardRange == Arm!ForwardRange
ForwardRoots == Arm!ForwardRoots
SkipUnmarked == X86!SkipUnmarked
MoveObject == Arm!MoveObject
Finish == X86!Finish

Collect ==
    /\ \/ MarkRoot \/ MarkPcRoot \/ SkipElement \/ Recur \/ ReturnFromCall
       \/ Invert \/ MarkCons \/ MarkCdr \/ MarkVector \/ MarkVectorLoop \/ Climb
       \/ ClimbRoot
       \/ CalculateRelocation \/ ForwardRange \/ ForwardRoots
       \/ SkipUnmarked \/ MoveObject \/ Finish
    /\ UNCHANGED <<frozen, calls, selector, bias, before>>

----------------------------------------------------------------------------
(* Purify and impurify.                                                    *)

CopyIvectorReference(m, w) == Arm!CopyIvectorReference(m, w)

(* purify_locref goes back from the dnode before the address, so that it   *)
(* would not find the header in the dnode of the address itself.           *)
PurifyLocref(m, w) ==
    LET locative == m[w]
        dnode == locative.at - (locative.at % 2)
        old == CodeVectorAt(m, dnode - 2)
        new == X86!Active(m, X86!PureLow) + locative.at - old
    IN  CASE locative.at >= X86!PureLow -> m
          [] m[dnode] = X86!ForwardMarker ->
               [m EXCEPT ![w].at = m[dnode + 1].at + (locative.at % 2)]
          [] OTHER -> [X86!CopyObject(m, old, X86!PureLow) EXCEPT ![w].at = new]

(* purify_range, for the object at w.                                      *)
PurifyObject(m, w) ==
    IF m[w] = X86!ForwardMarker \/ m[w].tag \in X86!RawHeaders THEN m
      ELSE FoldLeft(CopyIvectorReference, m,
                    [i \in 1..X86!ObjectSize(m, w) |-> w + i - 1])

PurifyRange(m) == FoldLeft(PurifyObject, m, X86!ObjectsIn(m, 0))

(* The stacks and the registers.                                           *)
PurifyRoots(m) ==
    LET purify(n, i) == LET w == X86!RootsLow + i
                        IN  IF n[w].tag = "pc" THEN PurifyLocref(n, w)
                                               ELSE CopyIvectorReference(n, w)
    IN  FoldLeft(purify, m, [i \in DOMAIN roots |-> i])

PurifyAreas(m) == PurifyRoots(PurifyRange(m))

HasReadonlyRoom == Arm!HasReadonlyRoom

Purify ==
    /\ pc = "collected" /\ "impurify" \notin selector /\ "purify" \in selector
    /\ Arm!Again(IF HasReadonlyRoom THEN PurifyAreas(X86!Memory) ELSE X86!Memory, "purify")

Impurify == Arm!Impurify

----------------------------------------------------------------------------
(* handle_gc_trap.                                                         *)

GcTrap == X86!GcTrap
FlashFreeze == X86!FlashFreeze
FreezeCollected == X86!FreezeCollected
Save == X86!Save
Return == X86!Return

(* The program rehashes, and the kernel loads images, as on any port.      *)
Next ==
    \/ GcTrap \/ Collect \/ Impurify \/ Purify \/ FlashFreeze \/ FreezeCollected
    \/ Save \/ X86!Load \/ Return \/ X86!Rehash
=============================================================================
