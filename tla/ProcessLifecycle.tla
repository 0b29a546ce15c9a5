-------------------------- MODULE ProcessLifecycle --------------------------
(***************************************************************************)
(* The life of one Lisp process: level-1/l1-processes.lisp, level-1/       *)
(* l1-lisp-threads.lisp and the loop of lisp_thread_entry in               *)
(* lisp-kernel/thread_manager.c.                                           *)
(*                                                                         *)
(* Other threads, the clients, preset the process, enable it, and          *)
(* interrupt it to call a function, to reset it or to kill it.  Its native *)
(* thread alternates between waiting to be activated and one run of the    *)
(* initial form.  Clients and native thread meet in two semaphores of the  *)
(* TCR, reset_completion and activate, in the state of the lisp-thread     *)
(* under its state-change lock, and in the list of interrupt functions.    *)
(* A process whose thread has exited gets a new TCR when it is enabled     *)
(* again, so native threads are numbered.                                  *)
(*                                                                         *)
(* An interrupt is pushed on the list under the interrupt lock and the     *)
(* thread is sent a signal, unless its interrupt_pending flag is set.  The *)
(* signal's handler runs the list at once if the thread is in Lisp at      *)
(* interrupt level 0, and sets the flag otherwise; the flag is looked at   *)
(* when the level becomes 0 again and when foreign code returns.           *)
(***************************************************************************)
EXTENDS Integers, Sequences, FiniteSets

CONSTANTS
    Clients,      \* threads that manage the process
    Enablers,     \* those of them that enable it
    MaxRequests,  \* bound: presets, enables and interrupts
    MaxTcrs       \* bound: native threads the process gets in its life

ASSUME MaxTcrsAssumption == MaxTcrs \in Nat \ {0}

VARIABLES
    state,        \* lisp-thread.state
    tcr,          \* lisp-thread.tcr, the number of a native thread; 0 is nil
    made,         \* native threads made so far
    form,         \* the initial form: interrupts wrapped around it, outermost first
    queue,        \* lisp-thread.interrupt-functions
    native,       \* where each native thread is
    ending,       \* why its current run ends, once that is decided
    awaiting,     \* TCRs with the flag AWAITING_PRESET
    toplevel,     \* TCRs whose top-level function is the startup function
    signalled,    \* TCRs with an interrupt signal on its way
    pending,      \* TCRs whose interrupt_pending is set
    resetCompletion,  \* semaphore of each TCR: it is ready to be enabled
    activate,     \* semaphore of each TCR: it may run Lisp
    posts,        \* the termination semaphore of the process
    client,       \* where each client is
    clientTcr,    \* the TCR a client is enabling
    requests,     \* requests made so far
    stranded,     \* history: readiness of a TCR consumed by an interrupt
    leftover      \* history: queued interrupts that an earlier run left behind

threadVars == <<state, tcr, made, form, queue>>
delivery == <<signalled, pending>>
nativeVars == <<native, ending, awaiting, toplevel, delivery>>
semaphores == <<resetCompletion, activate, posts>>
clientVars == <<client, clientTcr, requests>>
history == <<stranded, leftover>>
vars == <<threadVars, nativeVars, semaphores, clientVars, history>>

Tcrs == 1..MaxTcrs
Requests == {"call", "reset", "kill"}

(* Where the initial form is, with process-reset's handler around it: in   *)
(* Lisp with interrupts enabled, in without-interrupts, in foreign code,   *)
(* in a kernel exception; on the way into the list of functions, after a   *)
(* signal or a trap; and running the functions.                            *)
InForm == {"running", "masked", "foreign", "trapped", "taking", "trapping", "handling"}

(* make-process has returned: the thread exists and the process is preset. *)
Init ==
    /\ state = "reset" /\ tcr = 1 /\ made = 1 /\ form = <<>> /\ queue = <<>>
    /\ native = [g \in Tcrs |-> IF g = 1 THEN "loop" ELSE "unborn"]
    /\ ending = [g \in Tcrs |-> "none"]
    /\ awaiting = {1} /\ toplevel = {}
    /\ signalled = {} /\ pending = {}
    /\ resetCompletion = [g \in Tcrs |-> 0] /\ activate = [g \in Tcrs |-> 0]
    /\ posts = 0
    /\ client = [c \in Clients |-> "idle"] /\ clientTcr = [c \in Clients |-> 0]
    /\ requests = 0
    /\ stranded = [g \in Tcrs |-> 0] /\ leftover = 0

Goto(g, point) == native' = [native EXCEPT ![g] = point]

(* A client in thread-interrupt has the state-change lock and, between its *)
(* push and its signal, the interrupt lock.                                *)
Unlocked == \A c \in Clients : client[c] # "telling"

(* thread-change-state, under the state-change lock.                       *)
ChangeState(old, new) == Unlocked /\ state' = IF state = old THEN new ELSE state

IsRequest == requests < MaxRequests /\ requests' = requests + 1

Smaller(m, n) == IF m < n THEN m ELSE n

-----------------------------------------------------------------------------
(* process-preset forgets whatever was wrapped around the initial form.    *)
Preset(c) ==
    /\ client[c] = "idle" /\ IsRequest
    /\ form' = <<>>
    /\ UNCHANGED <<state, tcr, made, queue, nativeVars, semaphores, client, clientTcr, history>>

(* process-enable: thread-enable takes the thread's TCR, or makes one.     *)
Enable(c) ==
    /\ client[c] = "idle" /\ c \in Enablers /\ IsRequest
    /\ clientTcr' = [clientTcr EXCEPT ![c] = tcr]
    /\ client' = [client EXCEPT ![c] = IF tcr = 0 THEN "creating" ELSE "enabling"]
    /\ UNCHANGED <<threadVars, nativeVars, semaphores, history>>

NewTcrForThread(c) ==
    /\ client[c] = "creating" /\ made < MaxTcrs
    /\ made' = made + 1 /\ tcr' = made + 1
    /\ Goto(made + 1, "loop")
    /\ awaiting' = awaiting \cup {made + 1}
    /\ clientTcr' = [clientTcr EXCEPT ![c] = made + 1]
    /\ client' = [client EXCEPT ![c] = "created"]
    /\ UNCHANGED <<state, form, queue, ending, toplevel, delivery, semaphores, requests, history>>

(* The new thread may already wait when the state is changed.              *)
NewThreadReset(c) ==
    /\ client[c] = "created"
    /\ ChangeState("exit", "reset")
    /\ client' = [client EXCEPT ![c] = "enabling"]
    /\ UNCHANGED <<tcr, made, form, queue, nativeVars, semaphores, clientTcr, requests, history>>

(* The enabler meets the thread in its reset state.                        *)
ThreadEnabled(c) ==
    LET g == clientTcr[c] IN
    /\ client[c] = "enabling" /\ resetCompletion[g] > 0
    /\ resetCompletion' = [resetCompletion EXCEPT ![g] = @ - 1]
    /\ toplevel' = toplevel \cup {g}
    /\ client' = [client EXCEPT ![c] = "activating"]
    /\ UNCHANGED <<threadVars, native, ending, awaiting, delivery, activate, posts,
                   clientTcr, requests, history>>

(* The enabler's wait times out and the user does not want to keep trying. *)
GiveUp(c) ==
    /\ client[c] = "enabling"
    /\ client' = [client EXCEPT ![c] = "idle"]
    /\ clientTcr' = [clientTcr EXCEPT ![c] = 0]
    /\ UNCHANGED <<threadVars, nativeVars, semaphores, requests, history>>

(* process-tcr-enable reads the TCR of the thread again.                   *)
ProcessTcrEnable(c) ==
    /\ client[c] = "activating"
    /\ activate' = IF tcr = 0 THEN activate ELSE [activate EXCEPT ![tcr] = @ + 1]
    /\ client' = [client EXCEPT ![c] = "idle"]
    /\ clientTcr' = [clientTcr EXCEPT ![c] = 0]
    /\ UNCHANGED <<threadVars, nativeVars, resetCompletion, posts, requests, history>>

-----------------------------------------------------------------------------
(* thread-interrupt of a running thread pushes the call ...                *)
InterruptRunning(c, f) ==
    /\ state = "run" /\ tcr # 0
    /\ queue' = <<f>> \o queue
    /\ client' = [client EXCEPT ![c] = "telling"]
    /\ UNCHANGED <<form, toplevel, resetCompletion, activate, stranded>>

MutantSignalsFirstOnly == IF Len(queue) > 1 THEN signalled ELSE signalled \cup {tcr}
TcrInterrupted == IF tcr \in pending THEN signalled ELSE signalled \cup {tcr}

(* ... and then looks at the flag, which the thread may just have cleared: *)
(* it cannot have taken the call yet.                                      *)
TcrInterrupt(c) ==
    /\ client[c] = "telling"
    /\ signalled' = TcrInterrupted
    /\ client' = [client EXCEPT ![c] = "idle"]
    /\ UNCHANGED <<threadVars, native, ending, awaiting, toplevel, pending, semaphores,
                   clientTcr, requests, history>>

MutantActivates == [activate EXCEPT ![tcr] = @ + 1]
ActivatedByInterrupt == activate

(* A reset thread is preset with a form that makes the call and resets     *)
(* again, and is enabled without waiting; the activation is not posted.    *)
(* A reset thread always has a TCR (StateTellsTruth), so none is made here.*)
InterruptReset(f) ==
    /\ state = "reset" /\ tcr # 0
    /\ form' = <<f>> \o form
    /\ IF resetCompletion[tcr] > 0
         THEN /\ resetCompletion' = [resetCompletion EXCEPT ![tcr] = @ - 1]
              /\ toplevel' = toplevel \cup {tcr}
              /\ stranded' = [stranded EXCEPT ![tcr] = @ + 1]
         ELSE UNCHANGED <<resetCompletion, toplevel, stranded>>
    /\ activate' = ActivatedByInterrupt
    /\ UNCHANGED <<queue, client>>

(* process-interrupt, process-reset and process-kill from another thread.  *)
(* An exhausted process is not in a state that takes an interrupt.         *)
ProcessInterrupt(c, f) ==
    /\ client[c] = "idle" /\ Unlocked /\ IsRequest
    /\ InterruptRunning(c, f) \/ InterruptReset(f)
    /\ UNCHANGED <<state, tcr, made, native, ending, awaiting, delivery, posts,
                   clientTcr, leftover>>

(* join-process takes one post of the termination semaphore.               *)
Join(c) ==
    /\ client[c] = "idle" /\ posts > 0
    /\ posts' = posts - 1
    /\ UNCHANGED <<threadVars, nativeVars, resetCompletion, activate, clientVars, history>>

-----------------------------------------------------------------------------
(* lisp_thread_entry: the thread says that it is reset, and waits.         *)
RaiseResetCompletion(g) ==
    /\ native[g] = "loop"
    /\ resetCompletion' = [resetCompletion EXCEPT ![g] = @ + 1]
    /\ Goto(g, "waiting")
    /\ UNCHANGED <<threadVars, ending, awaiting, toplevel, delivery, activate, posts,
                   clientVars, history>>

(* It is activated.  Without a top-level function Lisp returns at once.    *)
StartLisp(g) ==
    /\ native[g] = "waiting" /\ activate[g] > 0
    /\ activate' = [activate EXCEPT ![g] = @ - 1]
    /\ Goto(g, IF g \in toplevel THEN "starting" ELSE "loop")
    /\ UNCHANGED <<threadVars, ending, awaiting, toplevel, delivery, resetCompletion,
                   posts, clientVars, history>>

(* The startup function: first the state, then the flag and the form.      *)
StartupState(g) ==
    /\ native[g] = "starting"
    /\ ChangeState("reset", "run")
    /\ Goto(g, "begun")
    /\ UNCHANGED <<tcr, made, form, queue, ending, awaiting, toplevel, delivery,
                   semaphores, clientVars, history>>

Outcome(f) == IF f = "kill" THEN "kill" ELSE "reset"

ClearPresetState(g) == awaiting \ {g}

(* The rest of the startup function, up to with-interrupts-enabled.        *)
RunInitialForm(g) ==
    /\ native[g] = "begun"
    /\ awaiting' = ClearPresetState(g) /\ toplevel' = toplevel \ {g}
    /\ Goto(g, "opening")
    /\ UNCHANGED <<threadVars, ending, delivery, semaphores, clientVars, history>>

(* That comes before process-reset's handler: what is pending is called    *)
(* first, see LateInterrupt.  Then the form is applied; a wrapped          *)
(* interrupt restores the form it was wrapped around.                      *)
EnterForm(g) ==
    /\ native[g] = "opening" /\ g \notin pending
    /\ ending' = [ending EXCEPT ![g] = IF form = <<>> THEN "none" ELSE Outcome(Head(form))]
    /\ form' = IF form = <<>> THEN form ELSE Tail(form)
    /\ Goto(g, "running")
    /\ UNCHANGED <<state, tcr, made, queue, awaiting, toplevel, delivery, semaphores,
                   clientVars, history>>

(* What the form does that keeps interrupts away: without-interrupts, a    *)
(* foreign call, an exception that the kernel handles.                     *)
Shut(g) ==
    /\ native[g] = "running"
    /\ \E point \in {"masked", "foreign", "trapped"} : Goto(g, point)
    /\ UNCHANGED <<threadVars, ending, awaiting, toplevel, delivery, semaphores,
                   clientVars, history>>

ClearPending(g) == pending \ {g}

(* The level is restored, or foreign code returns: a pending interrupt     *)
(* traps into the kernel, the flag already cleared.                        *)
Reopen(g) ==
    /\ native[g] \in {"masked", "foreign"}
    /\ pending' = ClearPending(g)
    /\ Goto(g, IF g \in pending THEN "trapping" ELSE "running")
    /\ UNCHANGED <<threadVars, ending, awaiting, toplevel, signalled, semaphores,
                   clientVars, history>>

(* A kernel exception returns to Lisp without looking at the flag.         *)
ReturnFromException(g) ==
    /\ native[g] = "trapped"
    /\ Goto(g, "running")
    /\ UNCHANGED <<threadVars, ending, awaiting, toplevel, delivery, semaphores,
                   clientVars, history>>

(* interrupt_handler: only a thread in Lisp at level 0 takes an interrupt  *)
(* now.  One that is running its list of functions is in Lisp, and the     *)
(* second handler works on the same list.                                  *)
InterruptHandler(g) ==
    /\ g \in signalled
    /\ native[g] \notin {"opening", "ended", "resetting"}
    /\ signalled' = signalled \ {g}
    /\ CASE native[g] = "running"  -> Goto(g, "taking") /\ UNCHANGED pending
         [] native[g] = "handling" -> pending' = ClearPending(g) /\ UNCHANGED native
         [] OTHER -> pending' = pending \cup {g} /\ UNCHANGED native
    /\ UNCHANGED <<threadVars, ending, awaiting, toplevel, semaphores, clientVars, history>>

(* The form returns, or is aborted out of, to be killed or to be reset; a  *)
(* wrapped interrupt ends the way it decided to.                           *)
FormEnds(g) ==
    /\ native[g] = "running"
    /\ \E end \in {"exited", "reset"} :
          ending' = [ending EXCEPT ![g] = IF @ = "none" THEN end ELSE @]
    /\ Goto(g, "ended")
    /\ UNCHANGED <<threadVars, awaiting, toplevel, delivery, semaphores, clientVars, history>>

(* The signal's handler clears the flag once it has the exception lock,    *)
(* the trap does not; both call back to thread-handle-interrupts.          *)
CallbackForInterrupt(g) ==
    /\ native[g] \in {"taking", "trapping"}
    /\ pending' = IF native[g] = "taking" THEN ClearPending(g) ELSE pending
    /\ Goto(g, "handling")
    /\ UNCHANGED <<threadVars, ending, awaiting, toplevel, signalled, semaphores,
                   clientVars, history>>

(* thread-handle-interrupts pops until the list is empty; a reset or a     *)
(* kill throws out of it.                                                  *)
PopInterrupt(g) ==
    /\ native[g] = "handling" /\ queue # <<>> /\ Unlocked
    /\ queue' = Tail(queue)
    /\ IF Head(queue) = "call"
         THEN /\ leftover' = Smaller(leftover, Len(queue) - 1)
              /\ UNCHANGED <<native, ending>>
         ELSE /\ leftover' = Len(queue) - 1
              /\ ending' = [ending EXCEPT ![g] = Outcome(Head(queue))]
              /\ Goto(g, "ended")
    /\ UNCHANGED <<state, tcr, made, form, awaiting, toplevel, delivery, semaphores,
                   clientVars, stranded>>

InterruptsDone(g) ==
    /\ native[g] = "handling" /\ queue = <<>>
    /\ Goto(g, "trapped")
    /\ UNCHANGED <<threadVars, ending, awaiting, toplevel, delivery, semaphores,
                   clientVars, history>>

(* Interrupts are enabled before process-reset's handler is there and      *)
(* after it is gone: what they call happens, but a reset or kill has       *)
(* nothing to unwind to.                                                   *)
LateInterrupt(g) ==
    /\ native[g] \in {"opening", "ended", "resetting"} /\ Unlocked
    /\ \/ g \in signalled /\ signalled' = signalled \ {g} /\ pending' = ClearPending(g)
       \/ g \in pending /\ pending' = ClearPending(g) /\ UNCHANGED signalled
    /\ queue' = <<>> /\ leftover' = 0
    /\ UNCHANGED <<state, tcr, made, form, native, ending, awaiting, toplevel,
                   semaphores, clientVars, stranded>>

(* The run ends for good: process-initial-form-exited.                     *)
Exited(g) ==
    /\ native[g] = "ended" /\ ending[g] \in {"exited", "kill"}
    /\ posts' = posts + 1
    /\ Goto(g, "cleanup")
    /\ UNCHANGED <<threadVars, ending, awaiting, toplevel, delivery, resetCompletion,
                   activate, clientVars, history>>

(* Or the process goes back to where it may be enabled.                    *)
Resets(g) ==
    /\ native[g] = "ended" /\ ending[g] = "reset"
    /\ ChangeState("run", "reset")
    /\ Goto(g, "resetting")
    /\ UNCHANGED <<tcr, made, form, queue, ending, awaiting, toplevel, delivery,
                   semaphores, clientVars, history>>

MutantSkipsPreset == awaiting
AwaitingAgain == awaiting \cup {tcr}

SetPresetState(g) ==
    /\ native[g] = "resetting"
    /\ awaiting' = AwaitingAgain
    /\ Goto(g, "cleanup")
    /\ UNCHANGED <<threadVars, ending, toplevel, delivery, semaphores, clientVars, history>>

MutantForgetsTcr == tcr
TcrAfterExit == 0

(* cleanup-thread-tcr, then the C loop: again, or the native thread ends.  *)
CleanupThreadTcr(g) ==
    /\ native[g] = "cleanup"
    /\ ending' = [ending EXCEPT ![g] = "none"]
    /\ IF g \in awaiting
         THEN /\ ChangeState("run", "reset")
              /\ Goto(g, "loop")
              /\ UNCHANGED <<tcr, delivery, leftover>>
         ELSE /\ ChangeState("run", "exit")
              /\ tcr' = TcrAfterExit
              /\ signalled' = signalled \ {g} /\ pending' = ClearPending(g)
              /\ leftover' = Len(queue)
              /\ Goto(g, "dead")
    /\ UNCHANGED <<made, form, queue, awaiting, toplevel, semaphores, clientVars, stranded>>

-----------------------------------------------------------------------------
Native(g) ==
    \/ RaiseResetCompletion(g) \/ StartLisp(g) \/ StartupState(g) \/ RunInitialForm(g)
    \/ EnterForm(g) \/ ReturnFromException(g) \/ InterruptHandler(g)
    \/ CallbackForInterrupt(g) \/ PopInterrupt(g) \/ InterruptsDone(g) \/ LateInterrupt(g)
    \/ Exited(g) \/ Resets(g) \/ SetPresetState(g) \/ CleanupThreadTcr(g)

Form(g) == Shut(g) \/ Reopen(g) \/ FormEnds(g)

Enabling(c) ==
    \/ NewTcrForThread(c) \/ NewThreadReset(c) \/ ThreadEnabled(c) \/ ProcessTcrEnable(c)
    \/ TcrInterrupt(c)

Client(c) ==
    \/ Preset(c) \/ Enable(c) \/ GiveUp(c) \/ Join(c)
    \/ \E f \in Requests : ProcessInterrupt(c, f)

Next ==
    \/ \E g \in Tcrs : Native(g) \/ Form(g)
    \/ \E c \in Clients : Enabling(c) \/ Client(c)

Spec == Init /\ [][Next]_vars

(* The system runs every native thread and every client, and delivers      *)
(* signals; a form need not return, nor restore the level.                 *)
FairSpec ==
    /\ Spec
    /\ \A g \in Tcrs : WF_vars(Native(g)) /\ WF_vars(InterruptHandler(g))
    /\ \A c \in Clients : WF_vars(Enabling(c))

-----------------------------------------------------------------------------
(* thread-change-state and cleanup-thread-tcr: what other threads read in  *)
(* the lisp-thread tells where the native thread is.                       *)
StateTellsTruth ==
    /\ tcr = 0 => state = "exit"
    /\ state = "exit" /\ tcr # 0 => native[tcr] \in {"loop", "waiting"}
    /\ state = "run" => native[tcr] \in InForm \cup {"begun", "opening", "ended", "cleanup"}
    /\ state = "reset" => native[tcr] \in {"loop", "waiting", "starting", "resetting", "cleanup"}
    /\ \A g \in Tcrs \ {tcr} : native[g] \in {"unborn", "dead"}

(* lisp_thread_entry: each time a thread waits to be activated there is    *)
(* one right to activate it.  The thread, an enabler or the activation     *)
(* has it, or an interrupt has used it up; it is never doubled, so no run  *)
(* starts that nobody enabled.                                             *)
Activating(g) == {c \in Clients : client[c] = "activating" /\ clientTcr[c] = g}

OneRightToActivate ==
    \A g \in Tcrs :
        resetCompletion[g] + Cardinality(Activating(g)) + activate[g] + stranded[g]
            = IF native[g] = "waiting" THEN 1 ELSE 0

(* process-interrupt, "at some point in the near future": the accepted     *)
(* call is made, or thrown away with the run.  A form that stays in Lisp   *)
(* with interrupts enabled may never look (PendingSeen), so the form is    *)
(* one that restores the interrupt level, or calls foreign code, for ever. *)
Waiting(g) == tcr = g /\ state = "run" /\ Len(queue) > leftover

AcceptedTaken ==
    \A g \in Tcrs : []<><<Reopen(g)>>_vars => (Waiting(g) ~> ~Waiting(g))

(* thread-enable against lisp_thread_entry: an enabler that waits for a    *)
(* thread on its way to the reset state gets on, unless an earlier enable  *)
(* starts the thread first or an interrupt used up its readiness.          *)
EnablerMeetsReset ==
    \A c \in Clients :
        client[c] = "enabling" /\ native[clientTcr[c]] \in {"resetting", "loop", "waiting"}
            ~> \/ client[c] # "enabling"
               \/ native[clientTcr[c]] = "starting" \/ stranded[clientTcr[c]] > 0

(* process-enable "can reliably determine when a process has entered the   *)
(* limbo of the reset state" (threads.xml): a thread that waits there, not *)
(* yet activated and with nobody enabling it, is there to be met.          *)
ResetCanBeEnabled ==
    \A g \in Tcrs :
        native[g] = "waiting" /\ activate[g] = 0 /\ Activating(g) = {}
            => resetCompletion[g] = 1

(* "If an interrupt is pending on exception exit, try to ensure that the   *)
(* thread sees it as soon as it's able to run" (x86-exceptions.c:1371): a  *)
(* thread is not in Lisp with interrupts enabled and one pending.          *)
PendingSeen == \A g \in Tcrs : native[g] = "running" => g \notin pending

(* process-reset "causes process to cleanly exit from any ongoing          *)
(* computation" (threads.xml:1571): a reset that a run has accepted is not *)
(* called where there is nothing to exit from, with the form still to run. *)
ResetHeeded ==
    \A g \in Tcrs :
        native[g] = "opening" /\ g \in pending => \A i \in DOMAIN queue : queue[i] # "reset"
=============================================================================
