--------------------------- MODULE GCInhibitProofs ---------------------------
(***************************************************************************)
(* The count of bodies is exact, nothing moves while there is one, and     *)
(* what was put off stays noted and due: for every set of threads, however *)
(* deep their bodies nest and however often they ask.                      *)
(*                                                                         *)
(* The handler is one thread's at a time, and what it still has to do is   *)
(* one of a few lists; a payment's handler, until its attempt, knows       *)
(* whether it pays for a full collection.                                  *)
(***************************************************************************)
EXTENDS GCInhibit, FiniteSetTheorems, TLAPS

Lists == {<<>>, <<"first">>, <<"first", "purify", "gc">>, <<"purify", "gc">>, <<"gc">>,
          <<"full">>, <<"gc", "full">>, <<"flash">>}

StartsFull(l) == l \in {<<"first">>, <<"first", "purify", "gc">>}

Shape ==
    /\ count \in Int /\ gc_deferred \in Nat /\ full_gc_deferred \in 0..1
    /\ older \in BOOLEAN /\ ephemeral \in BOOLEAN /\ owed \in BOOLEAN /\ moved \in 0..1
    /\ exception \in Threads \cup {None} /\ held \subseteq Bodies /\ IsFiniteSet(held)
    /\ at \in [Threads -> {"lisp", "trap", "handler"}] /\ trap \in [Threads -> Selectors]
    /\ todo \in Lists
    /\ previous \in [deferred : Nat, egc : BOOLEAN]

(* The exception lock is its owner's while it is in the handler, which     *)
(* switches the generations off before a full collection.                  *)
HandlerInv ==
    /\ \A t \in Threads : at[t] = "handler" <=> exception = t
    /\ exception = None => todo = <<>>
    /\ StartsFull(todo) => previous.deferred = gc_deferred /\ ~ephemeral
    /\ \A t \in Threads : exception = t /\ trap[t] = Immediate =>
           todo \in {<<>>, <<"first">>} \/ (todo = <<"gc">> /\ full_gc_deferred # 1)
    /\ ephemeral => older
    /\ \A t \in Threads : exception = t /\ trap[t] = "flash" => (previous.egc <=> older)

IInv == Shape /\ HandlerInv /\ CountIsBodies /\ PaymentIsDue /\ OwedIsNoted

(* At the start nobody is in a body, and nothing was put off.              *)
LEMMA InitIInv == Init => IInv
<1> SUFFICES ASSUME Init PROVE IInv
  OBVIOUS
<1>1. IsFiniteSet({}) /\ Cardinality({}) = 0
  BY FS_EmptySet
<1>2. Shape
  <2>1. held \subseteq Bodies /\ IsFiniteSet(held)
    BY <1>1 DEF Init
  <2>2. at \in [Threads -> {"lisp", "trap", "handler"}] /\ trap \in [Threads -> Selectors]
    BY DEF Init, Selectors, Immediate
  <2>3. todo \in Lists /\ previous \in [deferred : Nat, egc : BOOLEAN]
    BY DEF Init, Lists, Nothing
  <2>4. /\ older \in BOOLEAN /\ ephemeral \in BOOLEAN /\ owed \in BOOLEAN
        /\ exception \in Threads \cup {None}
    BY Zenon DEF Init
  <2>5. full_gc_deferred \in 0..1 /\ count \in Int /\ gc_deferred \in Nat /\ moved \in 0..1
    BY DEF Init
  <2> QED
    BY <2>1, <2>2, <2>3, <2>4, <2>5 DEF Shape
<1>3. HandlerInv
  BY InhibitAssumption DEF Init, HandlerInv, StartsFull, Immediate
<1> QED
  BY <1>1, <1>2, <1>3 DEF Init, IInv, CountIsBodies, PaymentIsDue, OwedIsNoted

(* What a list of attempts starts with, and what is left of it.            *)
LEMMA ListParts ==
  ASSUME NEW l \in Lists, l # <<>>
  PROVE  /\ Head(l) \in Attempts /\ Tail(l) \in Lists
         /\ Head(l) = "first" <=> StartsFull(l)
         /\ ~StartsFull(Tail(l))
         /\ l \in {<<"first">>, <<"gc">>} => Tail(l) = <<>>
<1>1. CASE l = <<"first">>
  BY <1>1 DEF Lists, Attempts, StartsFull
<1>2. CASE l = <<"first", "purify", "gc">>
  BY <1>2 DEF Lists, Attempts, StartsFull
<1>3. CASE l = <<"purify", "gc">>
  BY <1>3 DEF Lists, Attempts, StartsFull
<1>4. CASE l = <<"gc", "full">>
  BY <1>4 DEF Lists, Attempts, StartsFull
<1>5. CASE l = <<"gc">>
  BY <1>5 DEF Lists, Attempts, StartsFull
<1>6. CASE l = <<"full">>
  BY <1>6 DEF Lists, Attempts, StartsFull
<1>7. CASE l = <<"flash">>
  BY <1>7 DEF Lists, Attempts, StartsFull
<1> QED
  BY <1>1, <1>2, <1>3, <1>4, <1>5, <1>6, <1>7 DEF Lists

(* A body more or less is one more or less to count.                       *)
LEMMA EnterBody ==
  ASSUME IInv, NEW t \in Threads, NEW d \in 1..MaxDepth, Lock(t, d)
  PROVE  IInv'
<1> DEFINE b == <<t, d>>
<1>1. b \in Bodies /\ b \notin held /\ held' = held \cup {b}
  BY DEF Lock, Bodies
<1>2. IsFiniteSet(held') /\ Cardinality(held') = Cardinality(held) + 1
  BY <1>1, FS_AddElement DEF IInv, Shape
<1>3. Cardinality(held) \in Nat
  BY FS_CardinalityType DEF IInv, Shape
<1>4. Shape'
  BY <1>1, <1>2 DEF IInv, Shape, Lock, Locked, kernel, handler, local
<1>5. CountIsBodies'
  BY <1>2, <1>3 DEF IInv, Shape, CountIsBodies, Lock, Locked
<1>6. HandlerInv' /\ PaymentIsDue' /\ OwedIsNoted'
  BY DEF IInv, Shape, HandlerInv, PaymentIsDue, OwedIsNoted, OnTheWay, Lock, Locked, kernel,
     handler, local
<1> QED
  BY <1>4, <1>5, <1>6 DEF IInv

(* Who ends the last body of a count that was made negative traps.         *)
LEMMA LeaveBody ==
  ASSUME IInv, NEW t \in Threads, NEW d \in 1..MaxDepth, Unlock(t, d)
  PROVE  IInv'
<1> DEFINE b == <<t, d>>
<1>1. b \in held /\ held' = held \ {b}
  BY DEF Unlock
<1>2. IsFiniteSet(held') /\ Cardinality(held') = Cardinality(held) - 1
  BY <1>1, FS_RemoveElement DEF IInv, Shape
<1>3. Cardinality(held) \in Nat /\ Cardinality(held') \in Nat
  BY <1>2, FS_CardinalityType DEF IInv, Shape
<1>4. Shape'
  BY <1>1, <1>2 DEF IInv, Shape, Unlock, UnlockGC, Unlocked, TrapsAfter, kernel, handler,
     Selectors, Immediate
<1>5. CountIsBodies'
  BY <1>2, <1>3 DEF IInv, Shape, CountIsBodies, Unlock, UnlockGC, Unlocked
<1>6. HandlerInv' /\ PaymentIsDue' /\ OwedIsNoted'
  BY DEF IInv, Shape, HandlerInv, PaymentIsDue, OwedIsNoted, OnTheWay, Unlock, UnlockGC,
     Unlocked, TrapsAfter, kernel, handler
<1> QED
  BY <1>4, <1>5, <1>6 DEF IInv

(* An attempt is put off for the bodies, or made when there are none.      *)
LEMMA AttemptIInv ==
  ASSUME IInv, NEW t \in Threads, MakeAttempt(t)
  PROVE  IInv'
<1>1. /\ todo \in Lists /\ todo # <<>> /\ exception = t /\ todo' = Tail(todo) /\ held' = held
      /\ UNCHANGED <<older, exception, previous, at, trap>>
  BY DEF MakeAttempt, IInv, Shape, HandlerInv, local
<1>2. /\ Head(todo) \in Attempts /\ todo' \in Lists /\ ~StartsFull(todo')
      /\ Head(todo) = "first" <=> StartsFull(todo)
      /\ todo \in {<<"first">>, <<"gc">>} => todo' = <<>>
  BY <1>1, ListParts
<1>3. \/ StartsFull(todo) /\ FirstAttempt
      \/ /\ ~StartsFull(todo) /\ full_gc_deferred' = full_gc_deferred
         /\ \/ Attempt(ephemeral)
            \/ Attempt(FALSE)
            \/ InPlaceOfCollection(1 - moved)
            \/ InPlaceOfCollection(moved)
  <2>1. CASE FirstAttempt
    BY <1>2, <2>1 DEF FirstAttempt
  <2>2. CASE LaterAttempt
    BY <1>2, <2>2 DEF LaterAttempt, Attempts
  <2> QED
    BY <2>1, <2>2 DEF MakeAttempt
<1> DEFINE G(g) == /\ ~StartsFull(todo) /\ full_gc_deferred' = full_gc_deferred /\ Attempt(g)
           Result == /\ count' = Negated(count) /\ gc_deferred' \in Nat
                     /\ full_gc_deferred' \in 0..1 /\ owed' \in BOOLEAN
                     /\ moved' \in 0..1 /\ ephemeral' \in BOOLEAN
                     /\ count = 0 => /\ gc_deferred' = 0
                                     /\ StartsFull(todo) => full_gc_deferred' # 1 /\ ~owed'
                     /\ count # 0 /\ StartsFull(todo) => full_gc_deferred' = 1
                     /\ ~StartsFull(todo) => full_gc_deferred' = full_gc_deferred /\ (owed' => owed)
                     /\ ephemeral' => older
<1>4. Result
  <2> USE DEF Negated
  <2>1. CASE StartsFull(todo) /\ FirstAttempt
    <3>1. previous.deferred = gc_deferred /\ ephemeral = FALSE
      BY <2>1 DEF IInv, Shape, HandlerInv
    <3>2. CASE Deferring
      <4>1. /\ count # 0 /\ count' = Negated(count) /\ gc_deferred' = gc_deferred + 1
            /\ full_gc_deferred' = FullPutOff(gc_deferred, gc_deferred')
            /\ owed' = TRUE /\ ephemeral' = FALSE /\ moved' = moved
        BY <2>1, <3>1, <3>2 DEF FirstAttempt, Deferring
      <4>2. gc_deferred' > gc_deferred
        BY <4>1 DEF IInv, Shape
      <4>3. owed' \in BOOLEAN /\ ephemeral' \in BOOLEAN
        BY <4>1
      <4>4. gc_deferred' \in Nat /\ moved' \in 0..1 /\ full_gc_deferred' = 1
        BY <4>1, <4>2 DEF IInv, Shape, FullPutOff
      <4> QED
        BY <2>1, <4>1, <4>3, <4>4
    <3>3. CASE ~Deferring
      BY <2>1, <3>1, <3>3 DEF FirstAttempt, Deferring, FullPutOff, Collect, IInv, Shape
    <3> QED
      BY <3>2, <3>3
  <2>2. ASSUME NEW g \in BOOLEAN, g => ephemeral, G(g) PROVE Result
    <3>1. g => older
      BY <2>2 DEF IInv, Shape, HandlerInv
    <3>2. CASE Deferring
      BY <2>2, <3>1, <3>2 DEF Attempt, PutOff, Deferring, IInv, Shape
    <3>3. CASE ~Deferring
      BY <2>2, <3>1, <3>3 DEF Attempt, PutOff, Deferring, Collect, IInv, Shape
    <3> QED
      BY <3>2, <3>3
  <2>3. ASSUME NEW m \in {moved, 1 - moved}, ~StartsFull(todo), full_gc_deferred' = full_gc_deferred,
               InPlaceOfCollection(m)
        PROVE  Result
    BY <2>3 DEF InPlaceOfCollection, PutOff, Deferring, IInv, Shape, HandlerInv
  <2>4. ephemeral \in BOOLEAN
    BY DEF IInv, Shape
  <2> QED
    BY <1>3, <2>1, <2>2, <2>3, <2>4
<1> HIDE DEF G
<1>5. count' \in Int
  BY <1>4 DEF Negated, IInv, Shape
<1>8. Shape'
  BY <1>1, <1>2, <1>4, <1>5 DEF IInv, Shape
<1>9. HandlerInv'
  BY <1>1, <1>2, <1>4, InhibitAssumption DEF IInv, HandlerInv, StartsFull
<1>10. CountIsBodies'
  <2>1. Cardinality(held) \in Nat
    BY FS_CardinalityType DEF IInv, Shape
  <2> QED
    BY <1>1, <1>4, <2>1 DEF IInv, Shape, CountIsBodies, Negated
<1>11. PaymentIsDue'
  <2>1. CASE count # 0
    BY <1>4, <2>1 DEF IInv, Shape, PaymentIsDue, Negated
  <2>2. CASE count = 0
    <3>1. SUFFICES ASSUME full_gc_deferred' = 1 PROVE \E u \in Threads : OnTheWay(u)'
      BY <1>4, <2>2 DEF PaymentIsDue
    <3>2. ~StartsFull(todo) /\ full_gc_deferred = 1
      BY <1>4, <2>2, <3>1
    <3>3. PICK u \in Threads : OnTheWay(u)
      BY <2>2, <3>2 DEF IInv, PaymentIsDue
    <3>4. u # t
      BY <1>1, <3>2, <3>3 DEF IInv, HandlerInv, OnTheWay, StartsFull
    <3> QED
      BY <1>1, <3>3, <3>4 DEF IInv, HandlerInv, OnTheWay
  <2> QED
    BY <2>1, <2>2
<1>12. OwedIsNoted'
  BY <1>4 DEF IInv, OwedIsNoted
<1> QED
  BY <1>8, <1>9, <1>10, <1>11, <1>12 DEF IInv

(* Asking, entering the handler and leaving it.                            *)
LEMMA AskIInv ==
  ASSUME IInv, NEW t \in Threads, NEW s \in Selectors, Ask(t, s)
  PROVE  IInv'
<1>1. /\ at[t] = "lisp" /\ at' = [at EXCEPT ![t] = "trap"] /\ trap' = [trap EXCEPT ![t] = s]
      /\ s # Immediate /\ UNCHANGED <<count, kernel, handler, held>>
  BY DEF Ask
<1>2. Shape'
  BY <1>1 DEF IInv, Shape, kernel, handler
<1>3. HandlerInv'
  BY <1>1 DEF IInv, Shape, HandlerInv, StartsFull, kernel, handler
<1>4. CountIsBodies' /\ OwedIsNoted'
  BY <1>1 DEF IInv, CountIsBodies, OwedIsNoted, kernel
<1>5. PaymentIsDue'
  BY <1>1 DEF IInv, Shape, PaymentIsDue, OnTheWay, kernel, handler
<1> QED
  BY <1>2, <1>3, <1>4, <1>5 DEF IInv

LEMMA EnterIInv ==
  ASSUME IInv, NEW t \in Threads, EnterHandler(t)
  PROVE  IInv'
<1>1. /\ at[t] = "trap" /\ exception = None /\ exception' = t
      /\ at' = [at EXCEPT ![t] = "handler"]
      /\ previous' = [deferred |-> gc_deferred, egc |-> older]
      /\ todo' \in AttemptsFor(trap[t])
      /\ UNCHANGED <<count, gc_deferred, full_gc_deferred, owed, moved, trap, held>>
  BY DEF EnterHandler
<1>2. trap[t] \in Selectors
  BY DEF IInv, Shape
<1>3. /\ older' \in BOOLEAN /\ ephemeral' \in BOOLEAN /\ (ephemeral' => older')
      /\ IsFull(trap[t]) => ~ephemeral'
      /\ trap[t] = "flash" => older' = older
  BY <1>2 DEF EnterHandler, EgcControl, Untenure, IsFull, IInv, Shape, HandlerInv, Selectors, Immediate
<1>4. /\ todo' \in Lists /\ (StartsFull(todo') => IsFull(trap[t]))
      /\ trap[t] = Immediate =>
             todo' = <<"first">> \/ (todo' = <<"gc">> /\ full_gc_deferred # 1)
  <2>1. CASE trap[t] = Immediate
    <3>1. todo' = IF full_gc_deferred = 1 THEN <<"first">> ELSE <<"gc">>
      BY <1>1, <2>1 DEF AttemptsFor, Immediate
    <3>2. ~StartsFull(<<"gc">>)
      BY DEF StartsFull
    <3>3. <<"first">> \in Lists /\ <<"gc">> \in Lists
      BY DEF Lists
    <3>4. CASE full_gc_deferred = 1
      <4>1. todo' = <<"first">>
        BY <3>1, <3>4
      <4>2. IsFull(trap[t])
        BY <2>1, <3>4 DEF IsFull
      <4> QED
        BY Zenon, <3>3, <4>1, <4>2
    <3>5. CASE full_gc_deferred # 1
      <4>1. todo' = <<"gc">>
        BY <3>1, <3>5
      <4> QED
        BY Zenon, <3>2, <3>3, <3>5, <4>1
    <3> QED
      BY <3>4, <3>5
  <2>2. CASE trap[t] = "alloc"
    <3>1. todo' \in {<<>>, <<"gc">>, <<"full">>, <<"gc", "full">>}
      BY <1>1, <2>2 DEF AttemptsFor, Immediate
    <3> QED
      BY <2>2, <3>1 DEF Lists, StartsFull, Immediate
  <2>3. CASE trap[t] \in {"gc", "purify"}
    <3>1. todo' \in {<<"first">>, <<"first", "purify", "gc">>}
      BY <1>1, <2>3 DEF AttemptsFor, Immediate
    <3> QED
      BY <2>3, <3>1 DEF Lists, IsFull, Immediate
  <2>4. CASE trap[t] \in {"flash", "egc"}
    <3>1. todo' \in {<<"flash">>, <<>>}
      BY <1>1, <2>4 DEF AttemptsFor, Immediate
    <3> QED
      BY <2>4, <3>1 DEF Lists, StartsFull, Immediate
  <2> QED
    BY <1>2, <2>1, <2>2, <2>3, <2>4 DEF Selectors
<1>5. Shape'
  <2>1. previous' \in [deferred : Nat, egc : BOOLEAN]
    BY <1>1 DEF IInv, Shape
  <2>2. at' \in [Threads -> {"lisp", "trap", "handler"}] /\ exception' \in Threads \cup {None}
    BY <1>1 DEF IInv, Shape
  <2>3. /\ count' \in Int /\ gc_deferred' \in Nat /\ full_gc_deferred' \in 0..1 /\ moved' \in 0..1
        /\ held' \subseteq Bodies /\ IsFiniteSet(held') /\ trap' \in [Threads -> Selectors]
    BY <1>1 DEF IInv, Shape
  <2>4. owed' \in BOOLEAN
    BY Zenon, <1>1 DEF IInv, Shape
  <2> QED
    BY <1>3, <1>4, <2>1, <2>2, <2>3, <2>4 DEF Shape
<1>6. HandlerInv'
  <2>1. previous'.deferred = gc_deferred' /\ previous'.egc = older
    BY <1>1
  <2>2. \A u \in Threads : at'[u] = "handler" <=> exception' = u
    BY <1>1, InhibitAssumption DEF IInv, Shape, HandlerInv
  <2>3. exception' # None
    BY <1>1, InhibitAssumption
  <2>4. ASSUME NEW u \in Threads, exception' = u, trap'[u] = Immediate
        PROVE  todo' \in {<<>>, <<"first">>} \/ (todo' = <<"gc">> /\ full_gc_deferred' # 1)
    BY <1>1, <1>4, <2>4
  <2>5. ASSUME NEW u \in Threads, exception' = u, trap'[u] = "flash"
        PROVE  previous'.egc <=> older'
    BY <1>1, <1>3, <2>1, <2>5
  <2> QED
    BY <1>3, <1>4, <2>1, <2>2, <2>3, <2>4, <2>5 DEF HandlerInv
<1>7. CountIsBodies' /\ OwedIsNoted'
  BY <1>1 DEF IInv, CountIsBodies, OwedIsNoted
<1>8. PaymentIsDue'
  <2>1. ASSUME NEW u \in Threads, OnTheWay(u) PROVE OnTheWay(u)'
    <3>1. u # t => at'[u] = "trap" /\ trap'[u] = Immediate
      BY <1>1, <2>1 DEF IInv, Shape, HandlerInv, OnTheWay
    <3>2. trap[t] = Immediate => todo' # <<>>
      BY <1>4
    <3>3. u = t => at'[u] = "handler" /\ trap'[u] = Immediate /\ todo' # <<>>
      BY <1>1, <3>2, <2>1 DEF IInv, Shape, OnTheWay
    <3> QED
      BY <3>1, <3>3 DEF OnTheWay
  <2> QED
    BY <1>1, <2>1 DEF IInv, PaymentIsDue
<1> QED
  BY <1>5, <1>6, <1>7, <1>8 DEF IInv

LEMMA LeaveIInv ==
  ASSUME IInv, NEW t \in Threads, LeaveHandler(t)
  PROVE  IInv'
<1>1. /\ at[t] = "handler" /\ exception = t /\ todo = <<>> /\ todo' = <<>>
      /\ exception' = None /\ at' = [at EXCEPT ![t] = "lisp"]
      /\ trap' = [trap EXCEPT ![t] = Immediate] /\ previous' = Nothing
      /\ UNCHANGED <<count, gc_deferred, full_gc_deferred, owed, moved, held>>
  BY DEF LeaveHandler, IInv, HandlerInv
<1>2. older' \in BOOLEAN /\ ephemeral' \in BOOLEAN /\ (ephemeral' => older')
  BY <1>1 DEF LeaveHandler, EgcControl, IInv, Shape, HandlerInv
<1>3. Shape'
  <2>1. previous' \in [deferred : Nat, egc : BOOLEAN]
    BY <1>1 DEF Nothing
  <2>2. trap' \in [Threads -> Selectors]
    BY <1>1 DEF IInv, Shape, Selectors, Immediate
  <2>3. todo' \in Lists
    BY <1>1 DEF Lists
  <2>4. at' \in [Threads -> {"lisp", "trap", "handler"}]
    BY <1>1 DEF IInv, Shape
  <2>5. /\ count' \in Int /\ gc_deferred' \in Nat /\ full_gc_deferred' \in 0..1 /\ moved' \in 0..1
        /\ held' \subseteq Bodies /\ IsFiniteSet(held')
    BY <1>1 DEF IInv, Shape
  <2>6. owed' \in BOOLEAN
    BY Zenon, <1>1 DEF IInv, Shape
  <2> QED
    BY <1>1, <1>2, <2>1, <2>2, <2>3, <2>4, <2>5, <2>6 DEF Shape
<1>4. HandlerInv'
  <2>1. \A u \in Threads : at'[u] # "handler"
    BY <1>1 DEF IInv, Shape, HandlerInv
  <2>2. ~StartsFull(todo')
    BY <1>1 DEF StartsFull
  <2> QED
    BY <1>1, <1>2, <2>1, <2>2, InhibitAssumption DEF HandlerInv, StartsFull
<1>5. CountIsBodies' /\ OwedIsNoted'
  BY <1>1 DEF IInv, CountIsBodies, OwedIsNoted
<1>6. PaymentIsDue'
  BY <1>1 DEF IInv, Shape, PaymentIsDue, OnTheWay
<1> QED
  BY <1>3, <1>4, <1>5, <1>6 DEF IInv

(* Every step keeps the invariant.                                         *)
LEMMA NextIInv == IInv /\ [Next]_vars => IInv'
<1> SUFFICES ASSUME IInv, [Next]_vars PROVE IInv'
  OBVIOUS
<1>1. CASE Next
  BY <1>1, EnterBody, LeaveBody, AskIInv, EnterIInv, AttemptIInv, LeaveIInv DEF Next
<1>2. CASE UNCHANGED vars
  <2>1. Shape' /\ HandlerInv'
    BY <1>2 DEF vars, kernel, handler, local, IInv, Shape, HandlerInv
  <2>2. CountIsBodies' /\ PaymentIsDue' /\ OwedIsNoted'
    BY <1>2 DEF vars, kernel, handler, local, IInv, CountIsBodies, PaymentIsDue, OnTheWay, OwedIsNoted
  <2> QED
    BY <2>1, <2>2 DEF IInv
<1> QED
  BY <1>1, <1>2

THEOREM Invariance == Spec => []IInv
  BY InitIInv, NextIInv, PTL DEF Spec

(* The inhibition count is the number of bodies, whatever its sign.        *)
THEOREM CountCorrect == Spec => []CountIsBodies
<1>1. IInv => CountIsBodies
  BY DEF IInv
<1> QED
  BY <1>1, Invariance, PTL

(* What was put off will be paid by the last body, or somebody is about to. *)
THEOREM PaymentCorrect == Spec => []PaymentIsDue
<1>1. IInv => PaymentIsDue
  BY DEF IInv
<1> QED
  BY <1>1, Invariance, PTL

(* A full collection that is owed is never taken for a partial one.        *)
THEOREM OwedCorrect == Spec => []OwedIsNoted
<1>1. IInv => OwedIsNoted
  BY DEF IInv
<1> QED
  BY <1>1, Invariance, PTL

(* No object moves while a thread is in a body.                            *)
THEOREM BodiesUndisturbed == Spec => GCDisabledInBody
<1>1. IInv /\ [Next]_vars => [moved' # moved => held = {}]_vars
  <2> SUFFICES ASSUME IInv, Next, moved' # moved PROVE held = {}
    OBVIOUS
  <2>1. PICK t \in Threads : MakeAttempt(t)
    BY DEF Next, Lock, Unlock, Ask, EnterHandler, LeaveHandler, kernel
  <2>2. count = 0
    <3>1. Head(todo) \in Attempts
      BY <2>1, ListParts DEF MakeAttempt, IInv, Shape
    <3>2. CASE FirstAttempt
      BY <3>2 DEF FirstAttempt, Deferring
    <3>3. CASE LaterAttempt
      BY <3>1, <3>3 DEF LaterAttempt, Attempt, PutOff, InPlaceOfCollection, Deferring, Attempts
    <3> QED
      BY <2>1, <3>2, <3>3 DEF MakeAttempt
  <2>3. Cardinality(held) = 0
    BY <2>2, FS_CardinalityType DEF IInv, Shape, CountIsBodies
  <2> QED
    BY <2>3, FS_EmptySet DEF IInv, Shape
<1> QED
  BY <1>1, Invariance, PTL DEF Spec, GCDisabledInBody
=============================================================================
