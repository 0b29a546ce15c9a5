----------------------- MODULE ProcessLifecycleProofs -----------------------
(***************************************************************************)
(* What a lisp-thread says of its native thread is true, and each time the *)
(* native thread waits there is one right to activate it: for every set of *)
(* clients, of which one enables the process, and every bound.             *)
(*                                                                         *)
(* The two need each other.  A second right would start a thread before    *)
(* its state says that it is reset; and a right to activate belongs to the *)
(* thread that the client met only because the state tells the truth about *)
(* which thread that is.                                                   *)
(***************************************************************************)
EXTENDS ProcessLifecycle, FiniteSetTheorems, TLAPS

(* Two clients that both find a process without a TCR would both make one. *)
OneEnabler == \A a, b \in Enablers : a = b

Points == {"unborn", "loop", "waiting", "starting", "begun", "opening"} \cup InForm
            \cup {"ended", "resetting", "cleanup", "dead"}
InEnable == {"creating", "created", "enabling", "activating"}
ClientPoints == {"idle", "telling"} \cup InEnable

Shape ==
    /\ state \in {"reset", "run", "exit"}
    /\ made \in Tcrs /\ tcr \in 0..made
    /\ native \in [Tcrs -> Points]
    /\ ending \in [Tcrs -> {"none", "exited", "kill", "reset"}]
    /\ awaiting \subseteq Tcrs
    /\ resetCompletion \in [Tcrs -> Nat] /\ activate \in [Tcrs -> Nat]
    /\ stranded \in [Tcrs -> Nat]
    /\ client \in [Clients -> ClientPoints]
    /\ clientTcr \in [Clients -> 0..MaxTcrs]

(* The state tells the truth at the points between two changes, too: on    *)
(* its way out a thread that will exit is not in the reset state.          *)
LifeInv ==
    /\ StateTellsTruth
    /\ \A g \in Tcrs : native[g] = "unborn" <=> g > made
    /\ tcr # 0 /\ native[tcr] = "resetting" => state = "reset"
    /\ tcr # 0 /\ native[tcr] = "cleanup" /\ state = "reset" => tcr \in awaiting

(* A thread just made is not activated before its state is changed.        *)
EnablerInv ==
    /\ \A c \in Clients :
          /\ client[c] \in InEnable => c \in Enablers
          /\ client[c] = "creating" => tcr = 0
          /\ client[c] = "created" =>
                 tcr = clientTcr[c] /\ tcr # 0 /\ state = "exit" /\ activate[tcr] = 0
          /\ client[c] \in {"enabling", "activating"} => clientTcr[c] # 0
    /\ state = "exit" /\ tcr # 0 => \E c \in Clients : client[c] = "created"

(* OneRightToActivate without its sum: who has the right.                  *)
Activated(g) == \E c \in Clients : client[c] = "activating" /\ clientTcr[c] = g

Rights(g, ready, met, active, lost) ==
    /\ resetCompletion[g] = ready /\ (Activated(g) <=> met)
    /\ activate[g] = active /\ stranded[g] = lost

RightInv ==
    \A g \in Tcrs :
        IF native[g] = "waiting"
          THEN \/ Rights(g, 1, FALSE, 0, 0) \/ Rights(g, 0, TRUE, 0, 0)
               \/ Rights(g, 0, FALSE, 1, 0) \/ Rights(g, 0, FALSE, 0, 1)
          ELSE Rights(g, 0, FALSE, 0, 0)

IInv == Shape /\ LifeInv /\ EnablerInv /\ RightInv

(* make-process: the process has its first thread and is preset.           *)
LEMMA InitIInv == Init => IInv
  BY MaxTcrsAssumption
     DEF Init, IInv, Shape, LifeInv, EnablerInv, RightInv, StateTellsTruth, Activated, Rights,
         Points, InForm, InEnable, ClientPoints, Tcrs

(* A thread that is neither unborn nor dead is the one the process has.    *)
LEMMA OneThread ==
  ASSUME IInv, NEW g \in Tcrs, native[g] \notin {"unborn", "dead"}
  PROVE  g = tcr /\ tcr # 0 /\ tcr \in Tcrs
  BY DEF IInv, LifeInv, StateTellsTruth, Tcrs

(* A step after which the same threads wait, and the same clients are      *)
(* about to activate the same threads, leaves the rights where they are.   *)
LEMMA SameRights ==
  ASSUME RightInv, UNCHANGED <<resetCompletion, activate, stranded>>,
         \A g \in Tcrs : native'[g] = "waiting" <=> native[g] = "waiting",
         \A g \in Tcrs : Activated(g)' <=> Activated(g)
  PROVE  RightInv'
  BY DEF RightInv, Rights

(* A step of the thread within a run, from the startup function to the end *)
(* of the initial form, of which the clients are told nothing.             *)
LEMMA RunStep ==
  ASSUME IInv, NEW g \in Tcrs, NEW p \in InForm \cup {"opening", "ended"},
         native[g] \in InForm \cup {"begun", "opening"},
         native' = [native EXCEPT ![g] = p],
         awaiting' \subseteq Tcrs, ending' \in [Tcrs -> {"none", "exited", "kill", "reset"}],
         UNCHANGED <<state, tcr, made, resetCompletion, activate, stranded, client, clientTcr>>
  PROVE  IInv'
<1> USE DEF Points, InForm
<1>1. g = tcr /\ tcr \in Tcrs
  BY OneThread
<1>2. Shape'
  BY DEF IInv, Shape
<1>3. LifeInv'
  BY <1>1 DEF IInv, Shape, LifeInv, StateTellsTruth
<1>4. EnablerInv'
  BY DEF IInv, EnablerInv
<1>5. RightInv'
  <2>1. \A h \in Tcrs : native'[h] = "waiting" <=> native[h] = "waiting"
    BY DEF IInv, Shape
  <2> QED
    BY <2>1, SameRights DEF IInv, Activated
<1> QED
  BY <1>2, <1>3, <1>4, <1>5 DEF IInv

(* Every step of a client, and of the native thread, keeps the invariant.  *)
LEMMA NextIInv ==
  ASSUME OneEnabler, IInv, [Next]_vars
  PROVE  IInv'
<1> USE MaxTcrsAssumption
     DEF Tcrs, Goto, ChangeState, ClearPending, threadVars, delivery, nativeVars, semaphores,
         clientVars, history
<1>s. Shape /\ LifeInv /\ EnablerInv /\ RightInv
  BY DEF IInv
<1>1. ASSUME NEW g \in Tcrs,
             \/ RunInitialForm(g) \/ EnterForm(g) \/ Shut(g) \/ Reopen(g)
             \/ ReturnFromException(g) \/ FormEnds(g) \/ CallbackForInterrupt(g)
             \/ PopInterrupt(g) \/ InterruptsDone(g)
      PROVE  IInv'
  <2>1. /\ native[g] \in InForm \cup {"begun", "opening"}
        /\ \E p \in InForm \cup {"opening", "ended"} : native' = [native EXCEPT ![g] = p]
        /\ awaiting' \subseteq Tcrs
        /\ ending' \in [Tcrs -> {"none", "exited", "kill", "reset"}]
        /\ UNCHANGED <<state, tcr, made, resetCompletion, activate, stranded, client, clientTcr>>
    <3> USE <1>s DEF Shape, InForm
    <3>1. CASE RunInitialForm(g)
      BY <3>1 DEF RunInitialForm, ClearPresetState
    <3>2. CASE EnterForm(g)
      BY <3>2 DEF EnterForm, Outcome
    <3>3. CASE Shut(g)
      BY <3>3 DEF Shut
    <3>4. CASE Reopen(g)
      <4>1. CASE g \in pending
        BY <3>4, <4>1 DEF Reopen
      <4>2. CASE g \notin pending
        BY <3>4, <4>2 DEF Reopen
      <4> QED
        BY <4>1, <4>2
    <3>5. CASE ReturnFromException(g)
      BY <3>5 DEF ReturnFromException
    <3>6. CASE FormEnds(g)
      BY <3>6 DEF FormEnds
    <3>7. CASE CallbackForInterrupt(g)
      BY <3>7 DEF CallbackForInterrupt
    <3>8. CASE PopInterrupt(g)
      <4>1. CASE Head(queue) = "call"
        <5>1. native[g] = "handling" /\ native' = [native EXCEPT ![g] = "handling"]
          BY <3>8, <4>1 DEF PopInterrupt
        <5> QED
          BY <3>8, <4>1, <5>1 DEF PopInterrupt
      <4>2. CASE Head(queue) # "call"
        BY <3>8, <4>2 DEF PopInterrupt, Outcome
      <4> QED
        BY <4>1, <4>2
    <3>9. CASE InterruptsDone(g)
      BY <3>9 DEF InterruptsDone
    <3> QED
      BY <1>1, <3>1, <3>2, <3>3, <3>4, <3>5, <3>6, <3>7, <3>8, <3>9
  <2> QED
    BY <2>1, RunStep
<1>2. ASSUME NEW g \in Tcrs, InterruptHandler(g)
      PROVE  IInv'
  <2>1. UNCHANGED <<state, tcr, made, awaiting, ending, resetCompletion, activate, stranded,
                    client, clientTcr>>
    BY <1>2 DEF InterruptHandler
  <2>2. CASE native[g] = "running"
    <3>1. native' = [native EXCEPT ![g] = "taking"]
      BY <1>2, <2>2 DEF InterruptHandler
    <3> QED
      BY <1>s, <2>1, <2>2, <3>1, RunStep DEF Shape, InForm
  <2>3. CASE native[g] # "running"
    <3>1. native' = native
      BY <1>2, <2>3 DEF InterruptHandler
    <3> QED
      <4>1. Shape' /\ LifeInv' /\ EnablerInv'
        BY <1>s, <2>1, <3>1 DEF Shape, LifeInv, StateTellsTruth, EnablerInv
      <4>2. RightInv'
        BY <1>s, <2>1, <3>1, SameRights DEF Activated
      <4> QED
        BY <4>1, <4>2 DEF IInv
  <2> QED
    BY <2>2, <2>3
<1>3. ASSUME NEW g \in Tcrs, RaiseResetCompletion(g)
      PROVE  IInv'
  <2>1. /\ native[g] = "loop" /\ native' = [native EXCEPT ![g] = "waiting"]
        /\ resetCompletion' = [resetCompletion EXCEPT ![g] = @ + 1]
        /\ UNCHANGED <<state, tcr, made, awaiting, ending, activate, stranded, client, clientTcr>>
    BY <1>3 DEF RaiseResetCompletion
  <2>2. g = tcr /\ tcr \in Tcrs
    BY <2>1, OneThread
  <2>3. Shape'
    <3>1. resetCompletion' \in [Tcrs -> Nat]
      BY <1>s, <2>1 DEF Shape
    <3> QED
      BY <1>s, <2>1, <3>1 DEF Shape, Points
  <2>4. LifeInv' /\ EnablerInv'
    BY <1>s, <2>1, <2>2 DEF Shape, InForm, LifeInv, StateTellsTruth, EnablerInv
  <2>5. RightInv'
    BY SMTT(60), <1>s, <2>1 DEF Shape, RightInv, Rights, Activated
  <2> QED
    BY <2>3, <2>4, <2>5 DEF IInv
<1>4. ASSUME NEW g \in Tcrs, StartLisp(g)
      PROVE  IInv'
  <2> DEFINE next == IF g \in toplevel THEN "starting" ELSE "loop"
  <2>1. /\ native[g] = "waiting" /\ activate[g] > 0 /\ native' = [native EXCEPT ![g] = next]
        /\ activate' = [activate EXCEPT ![g] = @ - 1]
        /\ UNCHANGED <<state, tcr, made, awaiting, ending, resetCompletion, stranded,
                       client, clientTcr>>
    BY <1>4 DEF StartLisp
  <2>2. g = tcr /\ tcr \in Tcrs
    BY <2>1, OneThread
  <2>3. next \in {"starting", "loop"}
    OBVIOUS
  <2> HIDE DEF next
  <2>4. state = "reset"
    BY <1>s, <2>1, <2>2 DEF LifeInv, StateTellsTruth, EnablerInv, InForm, Shape
  <2>5. LifeInv' /\ EnablerInv'
    BY <1>s, <2>1, <2>2, <2>3, <2>4 DEF Shape, LifeInv, StateTellsTruth, EnablerInv, InForm
  <2>6. Shape'
    <3>1. activate' \in [Tcrs -> Nat]
      BY SMTT(60), <1>s, <2>1 DEF Shape
    <3> QED
      BY <1>s, <2>1, <2>3, <3>1 DEF Shape, Points
  <2>7. RightInv'
    BY SMTT(60), <1>s, <2>1, <2>3 DEF Shape, RightInv, Rights, Activated
  <2> QED
    BY <2>5, <2>6, <2>7 DEF IInv
<1>5. ASSUME NEW g \in Tcrs,
             StartupState(g) \/ Exited(g) \/ Resets(g) \/ SetPresetState(g) \/ LateInterrupt(g)
      PROVE  IInv'
  <2>1. /\ native[g] \in {"starting", "opening", "ended", "resetting"}
        /\ \E p \in {"begun", "opening", "ended", "resetting", "cleanup"} :
              native' = [native EXCEPT ![g] = p]
        /\ UNCHANGED <<tcr, made, ending, resetCompletion, activate, stranded, client, clientTcr>>
    BY <1>5, <1>s
       DEF StartupState, Exited, Resets, SetPresetState, LateInterrupt, Shape
  <2>2. g = tcr /\ tcr \in Tcrs
    BY <2>1, OneThread
  <2>3. Shape'
    BY <1>5, <1>s, <2>1, <2>2
       DEF StartupState, Exited, Resets, SetPresetState, LateInterrupt, AwaitingAgain,
           Shape, Points, InForm
  <2>4. LifeInv' /\ EnablerInv'
    BY SMTT(60), <1>5, <1>s, <2>1, <2>2
       DEF StartupState, Exited, Resets, SetPresetState, LateInterrupt, AwaitingAgain,
           Shape, LifeInv, StateTellsTruth, EnablerInv, InForm
  <2>5. RightInv'
    <3>1. \A h \in Tcrs : native'[h] = "waiting" <=> native[h] = "waiting"
      BY <1>s, <2>1 DEF Shape
    <3> QED
      BY <1>s, <2>1, <3>1, SameRights DEF Activated
  <2> QED
    BY <2>3, <2>4, <2>5 DEF IInv
<1>6. ASSUME NEW g \in Tcrs, CleanupThreadTcr(g)
      PROVE  IInv'
  <2> DEFINE next == IF g \in awaiting THEN "loop" ELSE "dead"
  <2>1. /\ native[g] = "cleanup" /\ native' = [native EXCEPT ![g] = next]
        /\ ending' = [ending EXCEPT ![g] = "none"]
        /\ IF g \in awaiting
             THEN tcr' = tcr /\ state' = IF state = "run" THEN "reset" ELSE state
             ELSE tcr' = 0 /\ state' = IF state = "run" THEN "exit" ELSE state
        /\ UNCHANGED <<made, awaiting, resetCompletion, activate, stranded, client, clientTcr>>
    BY <1>6 DEF CleanupThreadTcr, TcrAfterExit
  <2>2. g = tcr /\ tcr \in Tcrs
    BY <2>1, OneThread
  <2>3. next = (IF g \in awaiting THEN "loop" ELSE "dead")
    OBVIOUS
  <2> HIDE DEF next
  <2>4. state \in {"run", "reset"}
    BY <1>s, <2>1, <2>2 DEF LifeInv, StateTellsTruth, Shape
  <2>5. Shape'
    <3>1. next \in Points /\ tcr' \in 0..made /\ state' \in {"reset", "run", "exit"}
      BY SMTT(60), <1>s, <2>1, <2>3, <2>4 DEF Shape, Points
    <3> QED
      BY <1>s, <2>1, <3>1 DEF Shape
  <2>6. LifeInv'
    BY <1>s, <2>1, <2>2, <2>3, <2>4 DEF Shape, LifeInv, StateTellsTruth, InForm
  <2>7. EnablerInv'
    BY <1>s, <2>1, <2>2, <2>4 DEF Shape, EnablerInv
  <2>8. RightInv'
    <3>1. \A h \in Tcrs : native'[h] = "waiting" <=> native[h] = "waiting"
      BY <1>s, <2>1, <2>3 DEF Shape
    <3> QED
      BY <1>s, <2>1, <3>1, SameRights DEF Activated
  <2> QED
    BY <2>5, <2>6, <2>7, <2>8 DEF IInv
<1>7. ASSUME NEW c \in Clients, Preset(c) \/ Join(c) \/ TcrInterrupt(c)
      PROVE  IInv'
  <2>1. /\ UNCHANGED <<state, tcr, made, native, ending, awaiting, resetCompletion, activate,
                       stranded, clientTcr>>
        /\ client[c] \in {"idle", "telling"} /\ client' \in {client, [client EXCEPT ![c] = "idle"]}
    BY <1>7 DEF Preset, Join, TcrInterrupt
  <2>2. Shape'
    <3>1. client \in [Clients -> ClientPoints] /\ "idle" \in ClientPoints
      BY <1>s DEF Shape, ClientPoints
    <3>2. client' \in [Clients -> ClientPoints]
      BY <2>1, <3>1
    <3> QED
      BY <1>s, <2>1, <3>2 DEF Shape
  <2>3. LifeInv'
    BY <1>s, <2>1 DEF LifeInv, StateTellsTruth
  <2>4. EnablerInv'
    BY SMTT(60), <1>s, <2>1 DEF Shape, EnablerInv, InEnable
  <2>5. \A g \in Tcrs : Activated(g)' <=> Activated(g)
    BY <1>s, <2>1 DEF Shape, Activated
  <2> QED
    BY <1>s, <2>1, <2>2, <2>3, <2>4, <2>5, SameRights DEF IInv
<1>8. ASSUME NEW c \in Clients, Enable(c)
      PROVE  IInv'
  <2> DEFINE next == IF tcr = 0 THEN "creating" ELSE "enabling"
  <2>1. /\ client[c] = "idle" /\ c \in Enablers /\ client' = [client EXCEPT ![c] = next]
        /\ clientTcr' = [clientTcr EXCEPT ![c] = tcr]
        /\ UNCHANGED <<state, tcr, made, native, ending, awaiting, resetCompletion, activate,
                       stranded>>
    BY <1>8 DEF Enable
  <2>2. next = (IF tcr = 0 THEN "creating" ELSE "enabling")
    OBVIOUS
  <2> HIDE DEF next
  <2>3. Shape'
    BY SMTT(60), <1>s, <2>1, <2>2 DEF Shape, ClientPoints, InEnable
  <2>4. LifeInv' /\ EnablerInv'
    BY <1>s, <2>1, <2>2 DEF Shape, LifeInv, StateTellsTruth, EnablerInv, InEnable
  <2>5. \A g \in Tcrs : Activated(g)' <=> Activated(g)
    BY <1>s, <2>1, <2>2 DEF Shape, Activated
  <2> QED
    BY <1>s, <2>1, <2>3, <2>4, <2>5, SameRights DEF IInv
<1>9. ASSUME NEW c \in Clients, NewTcrForThread(c)
      PROVE  IInv'
  <2>1. /\ client[c] = "creating" /\ made < MaxTcrs /\ made' = made + 1 /\ tcr' = made + 1
        /\ native' = [native EXCEPT ![made + 1] = "loop"]
        /\ awaiting' = awaiting \cup {made + 1}
        /\ clientTcr' = [clientTcr EXCEPT ![c] = made + 1]
        /\ client' = [client EXCEPT ![c] = "created"]
        /\ UNCHANGED <<state, ending, resetCompletion, activate, stranded>>
    BY <1>9 DEF NewTcrForThread
  <2>2. made + 1 \in Tcrs /\ native[made + 1] = "unborn" /\ tcr = 0 /\ state = "exit"
    BY <1>s, <2>1 DEF Shape, LifeInv, StateTellsTruth, EnablerInv
  <2>3. Shape'
    BY SMTT(60), <1>s, <2>1, <2>2 DEF Shape, Points, ClientPoints, InEnable
  <2>4. LifeInv'
    BY <1>s, <2>1, <2>2 DEF Shape, LifeInv, StateTellsTruth
  <2>5. activate[made + 1] = 0
    BY <1>s, <2>2 DEF RightInv, Rights
  <2>6. EnablerInv'
    BY <1>s, <2>1, <2>2, <2>5 DEF Shape, EnablerInv, InEnable, OneEnabler
  <2>7. \A g \in Tcrs : Activated(g)' <=> Activated(g)
    BY <1>s, <2>1 DEF Shape, Activated
  <2>8. \A g \in Tcrs : native'[g] = "waiting" <=> native[g] = "waiting"
    BY <1>s, <2>1, <2>2 DEF Shape
  <2> QED
    BY <1>s, <2>1, <2>3, <2>4, <2>6, <2>7, <2>8, SameRights DEF IInv
<1>10. ASSUME NEW c \in Clients, NewThreadReset(c)
       PROVE  IInv'
  <2>1. /\ client[c] = "created" /\ client' = [client EXCEPT ![c] = "enabling"]
        /\ state' = IF state = "exit" THEN "reset" ELSE state
        /\ UNCHANGED <<tcr, made, native, ending, awaiting, resetCompletion, activate,
                       stranded, clientTcr>>
    BY <1>10 DEF NewThreadReset
  <2>2. tcr = clientTcr[c] /\ tcr # 0 /\ state = "exit" /\ state' = "reset"
    BY <1>s, <2>1 DEF EnablerInv
  <2>3. native[tcr] \in {"loop", "waiting"}
    BY <1>s, <2>2 DEF LifeInv, StateTellsTruth
  <2>4. Shape'
    BY <1>s, <2>1, <2>2 DEF Shape, ClientPoints, InEnable
  <2>5. LifeInv'
    BY <1>s, <2>1, <2>2, <2>3 DEF Shape, LifeInv, StateTellsTruth
  <2>6. EnablerInv'
    BY <1>s, <2>1, <2>2 DEF Shape, EnablerInv, InEnable, OneEnabler
  <2>7. \A g \in Tcrs : Activated(g)' <=> Activated(g)
    BY <1>s, <2>1 DEF Shape, Activated
  <2> QED
    BY <1>s, <2>1, <2>4, <2>5, <2>6, <2>7, SameRights DEF IInv
<1>11. ASSUME NEW c \in Clients, ThreadEnabled(c)
       PROVE  IInv'
  <2> DEFINE g == clientTcr[c]
  <2>1. /\ client[c] = "enabling" /\ client' = [client EXCEPT ![c] = "activating"]
        /\ resetCompletion[g] > 0 /\ resetCompletion' = [resetCompletion EXCEPT ![g] = @ - 1]
        /\ UNCHANGED <<state, tcr, made, native, ending, awaiting, activate, stranded, clientTcr>>
    BY <1>11 DEF ThreadEnabled
  <2>2. g \in Tcrs
    BY <1>s, <2>1 DEF Shape, EnablerInv
  <2>3. Shape'
    <3>1. resetCompletion' \in [Tcrs -> Nat]
      BY <1>s, <2>1, <2>2 DEF Shape
    <3> QED
      BY <1>s, <2>1, <3>1 DEF Shape, ClientPoints, InEnable
  <2>4. LifeInv'
    BY <1>s, <2>1 DEF LifeInv, StateTellsTruth
  <2>5. EnablerInv'
    BY <1>s, <2>1 DEF Shape, EnablerInv, InEnable
  <2>6. /\ Activated(g)'
        /\ \A h \in Tcrs \ {g} : Activated(h)' <=> Activated(h)
    BY <1>s, <2>1 DEF Shape, Activated
  <2>7. RightInv'
    BY SMTT(60), <1>s, <2>1, <2>2, <2>6 DEF Shape, RightInv, Rights
  <2> QED
    BY <2>3, <2>4, <2>5, <2>7 DEF IInv
<1>12. ASSUME NEW c \in Clients, GiveUp(c)
       PROVE  IInv'
  <2>1. /\ client[c] = "enabling" /\ client' = [client EXCEPT ![c] = "idle"]
        /\ clientTcr' = [clientTcr EXCEPT ![c] = 0]
        /\ UNCHANGED <<state, tcr, made, native, ending, awaiting, resetCompletion, activate,
                       stranded>>
    BY <1>12 DEF GiveUp
  <2>2. Shape'
    BY SMTT(60), <1>s, <2>1 DEF Shape, ClientPoints
  <2>3. LifeInv' /\ EnablerInv'
    BY <1>s, <2>1 DEF Shape, LifeInv, StateTellsTruth, EnablerInv, InEnable
  <2>4. \A g \in Tcrs : Activated(g)' <=> Activated(g)
    BY <1>s, <2>1 DEF Shape, Activated
  <2> QED
    BY <1>s, <2>1, <2>2, <2>3, <2>4, SameRights DEF IInv
<1>13. ASSUME NEW c \in Clients, ProcessTcrEnable(c)
       PROVE  IInv'
  <2>1. /\ client[c] = "activating" /\ client' = [client EXCEPT ![c] = "idle"]
        /\ clientTcr' = [clientTcr EXCEPT ![c] = 0]
        /\ activate' = IF tcr = 0 THEN activate ELSE [activate EXCEPT ![tcr] = @ + 1]
        /\ UNCHANGED <<state, tcr, made, native, ending, awaiting, resetCompletion, stranded>>
    BY <1>13 DEF ProcessTcrEnable
  <2>2. clientTcr[c] \in Tcrs /\ Activated(clientTcr[c])
    BY <1>s, <2>1 DEF Shape, EnablerInv, Activated
  <2>3. native[clientTcr[c]] = "waiting"
    BY <1>s, <2>2 DEF RightInv, Rights
  <2>4. clientTcr[c] = tcr /\ tcr # 0 /\ tcr \in Tcrs
    BY <2>2, <2>3, OneThread
  <2>5. activate' = [activate EXCEPT ![tcr] = @ + 1]
    BY <2>1, <2>4
  <2>6. Shape'
    BY SMTT(60), <1>s, <2>1, <2>4, <2>5 DEF Shape, ClientPoints
  <2>7. LifeInv'
    BY <1>s, <2>1 DEF LifeInv, StateTellsTruth
  <2>8. EnablerInv'
    <3>1. \A d \in Clients : client[d] # "created"
      BY <1>s, <2>1 DEF EnablerInv, InEnable, OneEnabler
    <3> QED
      BY <1>s, <2>1, <2>4, <3>1 DEF Shape, EnablerInv, InEnable
  <2>9. \A d \in Clients : client[d] = "activating" => d = c
    BY <1>s, <2>1 DEF EnablerInv, InEnable, OneEnabler
  <2>10. \A g \in Tcrs : ~Activated(g)' /\ (Activated(g) <=> g = tcr)
    BY <1>s, <2>1, <2>4, <2>9 DEF Shape, Activated
  <2>11. RightInv'
    BY SMTT(60), <1>s, <2>1, <2>4, <2>5, <2>10 DEF Shape, RightInv, Rights
  <2> QED
    BY <2>6, <2>7, <2>8, <2>11 DEF IInv
<1>14. ASSUME NEW c \in Clients, NEW f \in Requests, ProcessInterrupt(c, f)
       PROVE  IInv'
  <2>1. /\ client[c] = "idle" /\ client' \in {client, [client EXCEPT ![c] = "telling"]}
        /\ UNCHANGED <<state, tcr, made, native, ending, awaiting, activate, clientTcr>>
    BY <1>14 DEF ProcessInterrupt, InterruptRunning, InterruptReset, ActivatedByInterrupt
  <2>2. LifeInv' /\ EnablerInv'
    BY SMTT(60), <1>s, <2>1 DEF Shape, LifeInv, StateTellsTruth, EnablerInv, InEnable
  <2>3. client' \in [Clients -> ClientPoints]
    BY <1>s, <2>1 DEF Shape, ClientPoints
  <2>4. \A g \in Tcrs : Activated(g)' <=> Activated(g)
    BY <1>s, <2>1 DEF Shape, Activated
  <2>5. CASE UNCHANGED <<resetCompletion, stranded>>
    <3>1. Shape'
      BY <1>s, <2>1, <2>3, <2>5 DEF Shape
    <3> QED
      BY <1>s, <2>1, <2>2, <2>4, <2>5, <3>1, SameRights DEF IInv
  <2>6. CASE ~UNCHANGED <<resetCompletion, stranded>>
    <3>1. /\ tcr # 0 /\ resetCompletion[tcr] > 0
          /\ resetCompletion' = [resetCompletion EXCEPT ![tcr] = resetCompletion[tcr] - 1]
          /\ stranded' = [stranded EXCEPT ![tcr] = stranded[tcr] + 1]
      BY <1>14, <2>6 DEF ProcessInterrupt, InterruptRunning, InterruptReset
    <3>2. tcr \in Tcrs
      BY <1>s, <3>1 DEF Shape
    <3>3. Shape'
      <4>1. resetCompletion' \in [Tcrs -> Nat]
        <5>1. resetCompletion[tcr] - 1 \in Nat
          BY <1>s, <3>1, <3>2 DEF Shape
        <5> QED
          BY <1>s, <3>1, <5>1 DEF Shape
      <4>2. stranded' \in [Tcrs -> Nat]
        BY SMTT(60), <1>s, <3>1, <3>2 DEF Shape
      <4> QED
        BY <1>s, <2>1, <2>3, <4>1, <4>2 DEF Shape
    <3>4. RightInv'
      BY SMTT(60), <1>s, <2>1, <2>4, <3>1, <3>2 DEF Shape, RightInv, Rights
    <3> QED
      BY <2>2, <3>3, <3>4 DEF IInv
  <2> QED
    BY <2>5, <2>6
<1>15. CASE UNCHANGED vars
  <2>1. Shape'
    BY <1>s, <1>15 DEF vars, Shape
  <2>2. LifeInv' /\ EnablerInv'
    BY <1>s, <1>15 DEF vars, LifeInv, StateTellsTruth, EnablerInv
  <2>3. RightInv'
    BY <1>s, <1>15 DEF vars, RightInv, Rights, Activated
  <2> QED
    BY <2>1, <2>2, <2>3 DEF IInv
<1> QED
  BY <1>1, <1>2, <1>3, <1>4, <1>5, <1>6, <1>7, <1>8, <1>9, <1>10, <1>11, <1>12, <1>13,
     <1>14, <1>15
  DEF Next, Native, Form, Enabling, Client

(* Every record of the process, and every semaphore, is as the invariant   *)
(* says in every state.                                                    *)
THEOREM Inductive == ASSUME OneEnabler PROVE Spec => []IInv
<1>1. IInv /\ [Next]_vars => IInv'
  BY NextIInv
<1> QED
  BY InitIInv, <1>1, PTL DEF Spec

(* thread-change-state, cleanup-thread-tcr: a thread in the run state runs *)
(* the initial form, or is on its way in or out; a process without a TCR   *)
(* has no native thread; and it never has two.                             *)
THEOREM StateIsTrue == ASSUME OneEnabler PROVE Spec => []StateTellsTruth
<1>1. IInv => StateTellsTruth
  BY DEF IInv, LifeInv
<1> QED
  BY <1>1, Inductive, PTL

(* lisp_thread_entry, thread-enable, process-tcr-enable: no run starts     *)
(* that nobody enabled, and no enabling is lost but to an interrupt.       *)
THEOREM OneRight == ASSUME OneEnabler PROVE Spec => []OneRightToActivate
<1>1. ASSUME OneEnabler, IInv PROVE OneRightToActivate
  <2> SUFFICES ASSUME NEW g \in Tcrs
               PROVE  resetCompletion[g] + Cardinality(Activating(g)) + activate[g] + stranded[g]
                        = IF native[g] = "waiting" THEN 1 ELSE 0
    BY DEF OneRightToActivate
  <2>1. Cardinality(Activating(g)) = IF Activated(g) THEN 1 ELSE 0
    <3>1. CASE Activated(g)
      <4>1. PICK c \in Clients : client[c] = "activating" /\ clientTcr[c] = g
        BY <3>1 DEF Activated
      <4>2. Activating(g) = {c}
        BY <1>1, <4>1 DEF Activating, IInv, EnablerInv, InEnable, OneEnabler
      <4> QED
        BY <3>1, <4>2, FS_Singleton
    <3>2. CASE ~Activated(g)
      <4>1. Activating(g) = {}
        BY <3>2 DEF Activating, Activated
      <4> QED
        BY <3>2, <4>1, FS_EmptySet
    <3> QED
      BY <3>1, <3>2
  <2> QED
    BY <1>1, <2>1 DEF IInv, RightInv, Rights
<1> QED
  BY <1>1, Inductive, PTL
=============================================================================
