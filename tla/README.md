# TLA+ models of the Clozure CL kernel and runtime

Clozure CL is a Lisp implementation: a C kernel (`src/lisp-kernel/`) that owns native
threads, signals, memory and the collector, and a Lisp runtime (`src/level-0/`,
`src/level-1/`, `src/lib/`) that builds processes, locks, hash tables and termination on
top of it. This directory holds models of the parts whose correctness depends on
interleavings, and of the algorithms of the collector that everything else relies on. Each
module is translated from the C and Lisp source; `PROJECT.json` gives, for every definition,
the lines it stands for.

The models follow the Linux x86-64 port; `thread_manager.c` is shared by all ports. The collectors
and the allocators of the ARM and of the 32-bit PPC, which are code of their own, are modelled
beside the x86-64's.

## Inventory

### Components that are modelled

**Recursive locks** (`thread_manager.c`, `l0-misc.lisp`).
State: a spinlock, `owner`, `count`, `avail`, `waiting` and a semaphore. Operations: lock,
try-lock, unlock, each once in C and once in Lisp. The same lock word is worked on by both,
because `*kernel-tcr-area-lock*` and `*kernel-exception-lock*` are Lisp objects over the
kernel's own locks. Hard: the two implementations pass the lock on differently (the C unlock
posts once and keeps a number of waiters for later, the Lisp unlock posts once per arrival),
a Lisp wait can be thrown out of, new arrivals barge in. Correct when: no two threads hold
it, no arrival is forgotten, a free lock does not leave a sleeper behind, and it is a
reentrant mutex.

**Read-write locks** (`l0-misc.lisp`).
State: a spinlock, `state`, `writer`, two counts of blocked threads, two semaphores.
Operations: read, write, unlock, promote. Hard: a waiter thrown out of its wait leaves its
count behind; promotion may have to unlock. Correct when: a writer excludes everybody, the
state field is what the threads hold, sleepers are woken.

**Thread suspension** (`thread_manager.c`, `x86-exceptions.c`, `x86-spentry64.s`).
State: the ring of thread context records (TCRs), the exception lock and the area lock, and
for each TCR `suspend_count`, two semaphores, flags, a published context. Operations:
process-suspend, process-resume, stop and restart of the world for a collection, creation
and exit of threads, the suspend signal's handler, and code at interrupt level -2 which
defers the request. Hard: signals arrive anywhere; suspensions nest with collections and are
undone in any order; the suspender keeps both locks while it waits. Correct when: the
collector runs alone, counts balance, no owner of a kernel lock is parked, every stop ends
and every parked thread goes on.

**Processes** (`l1-processes.lisp`, `l1-lisp-threads.lisp`, `lisp_thread_entry`).
State: the state of the lisp-thread, its TCR, the initial form, the list of interrupt
functions, and for each native thread two semaphores (`reset_completion`, `activate`),
flags, the interrupt signal, `interrupt_pending` and whether it takes interrupts (its level, a
foreign call, a kernel exception). Operations: preset, enable, interrupt, reset, kill, join, the
native thread's loop, the interrupt signal's handler, what runs what was put off, exit and
re-creation. Hard: clients read the state and act on it later; a reset races with an enable; the
client pushes its function and only then signals, while the thread goes through levels, foreign
calls and the exit of the run that the interrupt is for. Correct when: the state tells where
the thread is, nothing runs that nobody enabled, and an accepted interrupt is run in the end,
unless a kernel exception swallowed its signal.

**Lock-free hash tables** (`l0-hash.lisp`; the collector's part in `x86-gc.c`).
State: the vector of key and value slots with its count and its key-moved flag, the grow
threshold, the exclusion lock. Operations: gethash, puthash, remhash, the rehash into a new
vector; the collector moves keys that hash by address. Hard: conditional stores on two slots
of an entry, a rehash that swaps values away under the others, keys whose hash changes
between two instructions. Correct when: it is a map, each operation at one instant of its
call; no key has two entries; the count is right; every call returns.

**Locked hash tables** (`l0-hash.lisp`, the promotion in `l0-misc.lisp`).
State: the vector with its counts, key-moved flag and cached entry, the grow threshold, the
read-write lock, the collector's inhibit count. Operations: gethash, puthash, remhash, clrhash,
the rehash in place, growth. Hard: a reader finds that it must rehash and has to become the
writer while others read; keys move whenever nobody inhibits the collector; the rehash drives
entries out of their slots in chains. Correct when: it is the same map as above, an entry is
always where a walk finds it, the inhibit count is given back, every call returns.

**Inhibition of the collector** (`x86-misc.lisp`, `x86-exceptions.c`, `memory.c`).
State: `GC_INHIBIT_COUNT`, `gc_deferred`, `full_gc_deferred`, whether the ephemeral generations
are enabled and in use. Operations: %lock-gc-lock, %unlock-gc-lock, the trap for every kind of
collection, allocation. Hard: the sign of the count is changed by those who find it positive
and read by those who leave; what was put off is made up for by whoever leaves last, while
others inhibit, ask and collect. Correct when: nothing moves in a body, and a full collection
that was put off is made as one.

**Ephemeral generations, write barrier, allocation** (`memory.c`, `gc-common.c`,
`x86-exceptions.c`, `x86-spentry64.s`, `x86-macros.s`, `pmcl-kernel.c`).
State: the areas and their boundaries, one bitmap that is mark bits above and memoization bits
below the oldest boundary, an index of it, the same for managed static memory. Operations: cons,
store through the barrier, allocation traps, collections of each generation, tenuring and
untenuring, switching the EGC. Hard: the barrier is a sequence of instructions that a
collection may interrupt at each (`pc_luser_xp` finishes it or starts it over); boundaries move
both ways over the bitmap. Correct when: every reference from an older to a younger area is
memoized, or in a barrier's hands, and a collection keeps the program's graph.

**Mark, forward and compact** (`x86-gc.c`). State: the heap, the mark bits, the relocation
table, the marker's registers. Operations: the recursive marker, the link-inverting one that
takes over when the control stack is used up, relocation, forwarding, compaction. Hard: links
inverted in the objects that are being marked, tags and all; forwarding addresses computed
from a table of pagelets and counts of bits. Correct when: marking restores what it inverts and
marks what is reachable and nothing else, the survivors are the same graph, tables whose keys
moved are told, the collection ends.

**Purify, impurify, saved images** (`x86-exceptions.c`, `x86-gc.c`, `image.c`). State: the
dynamic, readonly, managed static and watched areas, the memoized dnodes of the managed static
area, how much of the dynamic area is frozen, the image. Operations: the gc traps that purify,
impurify, freeze and save, each between two collections; the watch traps, which move an object to
an area of its own and back; the load of an image at the same or another address. Hard: purify moves objects between areas in
passes, over a heap that it turns into forwarding markers as it goes; afterwards the collector
does not look at the readonly area and only in part at the managed static one; an image is
purified over and over. Correct when: the graph of the program is the same throughout, nothing
that the collector does not look at refers to what it moves or frees, moved keys are flagged, no
foreign pointer is taken over into another process.

**Collectors of the ARM and the 32-bit PPC** (`arm-gc.c`, `ppc-gc.c`, `arm-exceptions.c`,
`ppc-exceptions.c`). The same state and operations. Hard: code is an object apart from its function,
and stacks, registers and (on the ARM) functions hold addresses within it, from which a collection and
purify find the code vector, by a scan forward or backward. Correct when: as above, and such an address
leads to the same instruction of the same code.

**Consing on the three ports** (`x86-exceptions.c`, `arm-exceptions.c`, `ppc-exceptions.c`, the
consing macros of each port, `gc-common.c`, `memory.c`, `pmcl-kernel.c`).
State: each thread's allocation segment, in registers that only a few instructions make sense of or
in its TCR; the exception lock; the heap, how far it is handed out, mapped, reserved and covered by
the collector's tables. Operations: the consing sequences, the alloc trap, allocate_list, interrupts
and the functions they call, foreign calls, gc traps, and under the lock `pc_luser_xp`, collections,
growing and shrinking. Hard: a thread is interrupted or stopped between any two instructions of a
sequence, and a handler finishes the sequence, backs it up, or takes the displacement off the pointer
and puts it back, each port in its own way; a callback goes on with the segment of the context that
it interrupted. Correct when: no memory is given out twice, the collector finds whole objects and no
segments, its tables reach to the end of the heap, an allocation comes to an end.

**Weak references and termination** (`gc-common.c`, `l1-lisp-threads.lisp`). State: the weak
vectors on their chains, populations with termination lists, gcable pointers on theirs, what is
memoized. Operations: marking through weak vectors until a pass finds nothing, reaping,
termination lists, foreign pointers, full and ephemeral collections; on the program's side
termination and storing. Hard: whether an element lives may depend on entries of other weak
vectors; ephemeral collections look at old weak vectors only if they have young entries. Correct
when: what is alive is marked, entries of the dead and no others go, the dead of a terminatable
population wait on its list, nothing refers to what is gone, pointers are freed once unused.

### How they interact

`ThreadSuspension` uses the exception lock and the area lock, instances of the recursive
lock, as plain mutual exclusion: that is what `ReentrantMutex`, which `RecursiveLock` is
proved to implement, promises. `ProcessLifecycle` begins where `ThreadSuspension` ends a
thread's creation, and never suspends. All the models that have a collector (`GCInhibit`,
`LockFreeHash`, `LockedHash`, `Generations`) take an attempt to collect, or a collection, as one
step: the world is stopped meanwhile (`WorldStopped`). `LockedHash` keeps the collector away by
the count whose meaning `GCInhibit` proves (`GCDisabledInBody`), and takes the read-write lock
as what `ReadWriteLock` shows it to be. Both kinds of table rely on the flag that `Collector`
sets when a key moves (`MovedKeysFlagged`), and both implement `SharedMap`. `WeakReferences`
takes marking as the closure that `Collector` shows it to be (`MarksTheReachable`), and the
memoized words from the barrier of `Generations`. `SaveApplication` extends `Collector`: a gc
trap is one to three collections with impurify and purify between them. `Allocation` looks at one
step of `Generations`, taking a segment and an object from it, instruction by instruction; its
collection keeps what is live in order, which is what `Collector` shows. What its gc traps
and refusals do with the inhibit count is the subject of `GCInhibit`.

### Components that are not modelled

The reasons are with each in `PROJECT.json`. In short: the futex variants of the locks and
the kernel's rwlock functions (no caller under src/); the event loop; the other ports' threads
and the rest of their exceptions; the debugger, compiler, CLOS, reader, printer, streams, sockets,
foreign interface, build, IDE (sequential code, I/O, or applications).

## Modules

| Module | Models | Definitions and code |
|---|---|---|
| `RecursiveLock` | one lock word under both implementations | an action per spinlock section: `LockBody`, `TryBody`, `CTryBody`, `CUnlockBody`, `LispUnlockBody`; `Raise` is one post; `Wake`, `Retry`, `AbortWait` the wait |
| `ReentrantMutex` | what a recursive lock promises | holder and depth |
| `RecursiveLockProofs` | proofs | |
| `ReadWriteLock` | one read-write lock | `ReadBody`, `WriteBody`, `NameWriter`, `UnlockBody`, `PromoteBody`, the wait as above |
| `ReadWriteLockProofs` | proofs | |
| `ThreadSuspension` | the ring, the traps, the handler | `SuspendTcr`, `TcrSuspendAck`, `ResumeTcr` visit one target each; `DeliverSignal`, `Park`, `Unpark`, `ReturnFromSignal` are the handler; `UnbindTest` and `UnbindStore` split `_SPunbind_interrupt_level` where the signal can fall |
| `ThreadSuspensionProofs` | proofs | |
| `ProcessLifecycle` | one process, its clients and native threads | client actions (`Preset`, `Enable`, `ProcessInterrupt`, `Join`, ...) and native ones (`RaiseResetCompletion`, `StartLisp`, `RunInitialForm`, `Exited`, `Resets`, `CleanupThreadTcr`, ...); delivery is `InterruptRunning` and `TcrInterrupt` in the client, `InterruptHandler` for the signal, `Shut`, `Reopen`, `ReturnFromException` for levels, foreign calls and exceptions |
| `ProcessLifecycleProofs` | proofs | |
| `SharedMap` | what a table that threads share promises | a call, at most one change, a return |
| `LockFreeHash` | one table, several threads, the collector | one action per read that is acted on later and per conditional store; `Lock` to `Install` are the rehash, `Collect` the collector |
| `LockFreeHashProofs` | proofs: structure, room, count, order of the slots, and that the table is the shared map | |
| `Probing` | the walk through a vector's slots | used by both kinds of table |
| `LockedHash` | one table under its read-write lock, several threads, the collector | `ReadLock`, `Find`, `PromoteAlone`, `ReleaseToPromote`, `Promoted` are gethash; `StartRehash`, `RehashSlot`, `Displace`, `EndRehash` the rehash in place, a chain's link a step; `Grow`, `CopySlot`, `PlaceEntry`, `Install` the growth |
| `LockedHashProofs` | proofs: structure, lock, inhibit count, order of the slots, counts, and that the table is the shared map | |
| `GCInhibit` | the count, the traps, what is put off | `Lock` and `Unlock` are the two compare-and-swaps; `EnterHandler`, `MakeAttempt`, `LeaveHandler` are `handle_gc_trap` and `allocate_object` with the world going on between attempts |
| `GCInhibitProofs` | proofs | |
| `Generations` | areas, barrier, allocation, collections | an action per instruction of the barrier that others can see the effect of; a collection is one action that first runs `pc_luser_xp` for the interrupted threads; `Unlocked` are the threads whose barrier ends with the btsq that has no lock prefix |
| `GenerationsProofs` | proofs | |
| `Collector` | one full collection | an action per turn of the marker's loops and per object compacted |
| `SaveApplication` | the gc traps that collect, purify, impurify and save, and the load of an image | `GcTrap`, the actions of `Collector`, `Impurify`, `Purify`, `Save`, `Load`, `Return`, `FreezeCollected`, `FlashFreeze`, `Watch`, `Unwatch`, `Rehash`; purify's passes are `PurifyAreas`, `PurifyConstants`, `PurifyAreas` again and `ManagedRefs` |
| `ArmCollector` | the same on the ARM | as above; new are `MarkPcRoot`, `CodeVectorFromPc`, `DnodeForwardingAddress`, `PurifyLocref`, `PurifyEntry`; what is the same code is defined as the x86-64's |
| `PpcCollector` | the same on the 32-bit PPC | as on the ARM; new are `CodeVectorAt`, `MarkPcRoot`, `PurifyLocref` |
| `GcTraps` | a kernel built for one of the three | `PortInit`, `PortNext` |
| `Consing` | what the allocators share | a thread's record; `NewHeapSegment`, and the heap's extent: `AllocateDynamicArea`, `GrowDynamicArea`, `ShrinkDynamicArea`, `ResizeDynamicHeap` |
| `X86Allocation`, `ArmAllocation`, `PpcAllocation` | one port each: its sequences and its handlers | `Execute` is one instruction; `PcLuserXp`, `NormalizeTcr`, `HandleAllocTrap`, `AllocateList`, `InterruptHandler`, `CallbackToLisp`, `ToForeign` are the C and assembler functions of these names, as functions of a thread's record |
| `Allocation` | threads that allocate on one of the three ports | `Start`, `Instruction`, `Interrupt`, `ForeignCall`, `GcTrap` are the program's; `HandleAlloc`, `HandleDisabled`, `HandleGcTrap`, `HandleInterrupt`, `Collect`, `AfterCollection` the kernel's under the exception lock |
| `WeakReferences` | weak vectors and pointers in collections | an action per function of the kernel, and one per weak vector in the passes of `traditional_markhtabvs` |
| `MC...` | the finite instances | |

In all models one action is what the code does without another thread seeing the middle of
it: a section under a spinlock or lock, one semaphore operation, one conditional store, or
one read whose result is used after other threads may have run. Operators named `Mutant...`
are plausible mistakes in the definition after them; no specification uses them. Each
property has one, and fails when it is put in place of the real definition.

### Choices of abstraction

* Semaphores are numbers; posting and waiting are atomic (sem_post, sem_wait).
* In `ThreadSuspension` a collection is one state: all that matters is who runs meanwhile.
  A freed TCR is left alone by a late suspender; what a write to freed memory does is not
  defined by the code. Exit of a thread is one step under the area lock.
* In `ProcessLifecycle` an initial form is a stack of the interrupts wrapped around it, and a
  run ends by return, reset or kill. Values returned by a process are left out. A shut thread is
  masked by its level, in a foreign call or in an exception; handlers nested in handlers are one.
* In `LockFreeHash` a key hashes to its address and the probe goes on to the next slot.
  The walk of a probe is one step: it equals a look at all slots when it ends, because a
  slot it passed never becomes free or the key. Vectors that nobody can reach are emptied and
  their numbers used again, which keeps the state finite. Hashing and storing the address in
  `nhash.find-new` and the reading of `address` before it are one read: a collection between
  them makes puthash back out once more. The rehash in place of a vector nobody else has is
  one step. Operations are not interrupted half-way.
* In `LockedHash` the same holds of keys and probes. A zeroed vector that a reader still has
  keeps its number; when nobody has it the number is used again. A put into a deleted or free
  slot, its counts and its cache are one step, since the writer is alone and the collector out.
* In `Generations` an object is a cons, words are a dnode apart, the bitmap's words have two bits
  and its index a bit for two words (64 and 256 in the code); the bits of one word are set by a
  locked instruction, except where the code's is not.
* In `Collector` a heap is a row of dnodes of two words, with every kind of header that the
  collector tells apart; a function's self-reference and its code are data to skip. Return
  addresses are found in the roots, as `mark_xp` finds them.
* In `SaveApplication` addresses are relative to the base of the image, so that what a load does
  not relocate is off by the bias. One static cell stands for the list of packages and for the
  undefined-function object, which purify copies first; the program does nothing between two
  traps, and is in no body that inhibits the collector. A hash vector is referred to by its hash
  table or from the stack: purify stops the kernel (`Bug`) when it has to copy one. The file is
  the words of its areas. Freezing rounds up to a word of mark bits instead of a page; save-application
  unwatches everything first, so that purify and impurify meet no watched area.
* In `ArmCollector` and `PpcCollector` a code vector is a header, one word of instructions and, on the
  ARM, the zero that ends them; an address in it is the one of that word. On the ARM a frame's
  address has its function before it (`Framed`), as `mark_cstack_area` finds it, so the code is marked
  when the address is. Flushing the instruction cache is left out.
* In `Allocation` a handler is one step under the exception lock, unless it collects: the lock keeps
  the others' handlers out, and what they do meanwhile touches their own registers only. What is
  reachable from a thread is the last object of each of its contexts. A collection, ephemeral or full,
  moves all that is live to the start of the heap. That the first attempt is preceded by an ephemeral
  collection is a choice, as is the notification that the heap is nearly full. The heap grows in
  segments of `HeapSegment` dnodes; the accounting of bytes allocated is left out. The barrier's half
  of `pc_luser_xp` is in `Generations`.
* In `WeakReferences` addresses are object numbers and nothing moves: `Collector` shows that
  compaction keeps the graph. Marking through strong references is a closure.

## What the runs check

| Run | Bounds | Shows |
|---|---|---|
| `recursive_lock` | 3 threads, depth 2, one failed try or aborted wait | `ArrivalsAccounted`, the refinement `ImplementsMutex`, and `FreeLockTaken`, with both implementations and both try-locks mixed (422,345 states) |
| `read_write_lock` | 3 threads, depth 2, one aborted wait | `WriterExcludes`, `SleepersCovered`, `SleepersWake` (92,375 states) |
| `thread_suspension` | 3 TCRs, one unborn and one deferring, 3 traps | `WorldStopped`, `CountsBalance`, `LockOwnersRun`, `StopCompletes` (which includes that a parked thread goes on, `ParkedGoesOn`) (187,242 states) |
| `process_lifecycle` | 2 clients, 5 requests, 2 native threads, signals, levels, foreign calls and kernel exceptions | `StateTellsTruth`, `OneRightToActivate`, `EnablerMeetsReset`, `AcceptedTaken` (94,375 states) |
| `lock_free_hash` | 2 putters, a remover, a reader, 1 key, 2 values, 2 calls, 1 move | linearizability (`ImplementsMap`), `CountIsRight` (and that a key has one entry), `RoomIsThere`, `EveryCallReturns` (96,207 states) |
| `put_wrong_key` | 2 putters, 2 keys | counterexample to `OthersKeepTheirValue` |
| `locked_hash` | a putter, a remover that also clears, 2 readers, 2 keys, 3 addresses, 3 calls | linearizability (`ImplementsMap`), `TableInOrder` (`EveryKeyFound` and `RoomIsThere`), `InhibitionBalanced`, `EveryCallReturns` (125,272 states) |
| `gc_inhibit` | 3 threads, bodies 2 deep, 3 bodies, 2 requests | `GCDisabledInBody`, `OwedIsNoted`, `OwedIsPaid` (190,052 states) |
| `generations` | 2 threads, one allocating and one storing, 1 static and 4 dynamic dnodes, 3 generations, 2 allocations or collections (`MaxWork`) | `MemoizationIsComplete`, `StaticRefsIndexed`, `KeepsGraph` (1,012,685 states) |
| `gc_traps` | three ports; every graph on areas of two or three objects, 1 or 2 stack words, room for 0 or 1 calls of rmark, up to 6 traps, 2 watched objects, an area frozen in part or whole, 2 addresses of an image | `LinksRestorable`, `MarksTheReachable`, `GraphSurvives`, `MovedKeysFlagged`, `CollectionEnds`; `GraphSurvives` includes `PureIsClosed`, that what the collector does not look at refers to nothing it moves (376,089 states) |
| `weak_references` | five families of heaps of up to 9 objects, 2 collections, a step of the program | `MarksTheAlive`, `EntriesOfTheAlive` (which includes `QueuedForTermination`), `ReferencesHold`, `FreedWhenUnused` (1,211,448 states) |
| `allocation` | three ports; 2 threads, 2 or 3 allocations, and an interrupt, a foreign call or 2 gc traps; with and without inhibition | `NothingOverlaps`, `RootsWhole`, `AllocationReturns` (172,848 states) |

### Why the bounds are enough

* Locks: three threads are a holder, a waiter that is passed over and one that barges in or
  takes over the first one's post; depth 2 tells a nested release from the last. Leaks and
  aborts are bounded because each adds 1 to a counter for good.
* Suspension: a collector, a thread that suspends somebody meanwhile, and a target that is
  born, exits or defers; three traps allow a suspension, a collection and a resumption in any
  order, and a second stop before the wake-up of the first is consumed. With four traps the
  invariants were checked too (444,998 states).
* Processes: five requests allow two enables with a reset, kill or call before, between and
  after them; two native threads are one exit and one re-creation. One client enables: two at a
  time can each make a native thread, which is planned with the kills.
* Hash tables: a table starts with or without the entry and with room for none or one more,
  so a claim, a full table, a rehash and a move all occur within two overlapping calls. All
  pairs of operations overlap, two putters of one key included. Room for three in a vector
  (30 in the code) is more than the putters at a time: with less, two putters can send each
  other round for ever, each rehash cutting off the other's claim. The model has also been run
  with three calls by putters and the remover (548,016 states), and with two keys and one
  putter, without a violation.
* Locked tables: with room for one entry the second put grows the vector, a removal and a put
  make it rehash in place; three addresses go round a vector of four slots, so that keys
  collide and a rehash displaces one by another; two readers meet at the promotion.
* Inhibition: a body, a second one that overlaps it and a nested one; two requests are one put
  off and one that collects or is put off in between, by a third thread.
* Generations: four dynamic dnodes give each generation an object and the next one room. The
  boundaries move down (untenuring) and up (a collection that tenures) within two calls.
* Collector: the areas hold every kind of object next to a boundary of a mark word, with every
  filling of its fields by references and data; control stack for one call means that the marker
  switches in the middle of a recursion as well as at its start.
* Saved images: a purified image is loaded and goes through impurify, purify and save again, so
  every pass meets an area that is pure already; the readonly area has room for one function and
  an ivector, and not for two functions; the package lies in the image or is fresh, and a function's
  constants lead to every kind of object that purify tells apart.
* The ports: ivector, code and function in each order that purify meets them, with one stack frame
  or register in the code; a hash vector for what the collectors do alike.
* Freezing and watching: what is frozen has garbage in it and lies below what moves; a watched
  object is a key, a hash vector, or what the image's package refers to, with collections while
  it is watched and after it has come back.
* Allocation: a segment of four dnodes lasts for two to four small objects and an allocation may
  take the rest of one, a third allocation needs the second segment or a collection; the heap of
  eight dnodes is used up by two threads, grows for the large object, and shrinks after it; with
  the space that is reserved a second large object is refused. One interrupt falls on each
  instruction of each sequence and on each wait in a handler, the other thread collects at each.
* Weak references: in each family liveness depends on entries of another weak vector, in every
  filling of the fields and for every boundary of an ephemeral collection; a second collection
  meets the chains and the memoized words that the first one left.

Runs that may stop say so (`CHECK_DEADLOCK FALSE`): traps, requests and calls are bounded, so
the system ends in rest. The two lock models never stop and are checked for deadlock.

### Fairness

Weak fairness, for each thread, of the steps inside an operation, and of nothing a program
may choose not to do. The operating system runs every thread that can run (`Continues`,
`Kernel`, `Native`, `Step`), delivers signals (`Handler`, `InterruptHandler`), and a waiter on a semaphore that
stays positive gets it. Locks add that who holds a lock gives it back (`Unlocks`). Starting an
operation, exiting, ending an initial form, collecting and interrupting are never forced;
`GCInhibit` assumes that a body ends (they are bounded by `MaxBodies`: a program that is always
in some body never collects, in the model as in the code). A collection is sequential and
goes on (`CollectOnce`); nothing is assumed of the traps between collections. In `Allocation` a
thread goes on by itself (`GoesOn`), and the function that an interrupt calls returns from its foreign
calls, as it must for the interrupted allocation to end; other foreign calls may last for ever.
`ThreadSuspension` may miss a request (`SuspendForced`, below), so its liveness property
is stated up to that: a stop completes and a parked thread goes on, or a deferred request has
been passed over.

## What is refuted

One run is listed as a finding in `PROJECT.json`, with the line that bites and the sentence it
contradicts: `put_wrong_key`. Puthash reads again whether the slot found is free; claimed and filled for
another key meanwhile, it is taken for the putter's own entry, and the value goes there
(`l0-hash.lisp:922`).

Further configurations violate their one property. They are to be run by hand, a file of its own or a file with the changes that the table gives;
the checked instances leave out the case that each one shows.

| Configuration | Module | What it shows |
|---|---|---|
| `RecursiveLock.cfg` with `Tries <- NoTries` and `FreeLockAlwaysTaken` alone | `MCRecursiveLock` | an interrupt throws a Lisp waiter out after it took the only post of a C unlock; another waiter sleeps on a free lock (`linux-files.lisp:104`) |
| `ReadWriteLock.cfg` with `Spec`, `WriterPromotes = TRUE` and `SpinHeldInside` alone | `MCReadWriteLock` | promotion by the thread that writes returns with the spinlock held (`l0-misc.lisp:1125`) |
| `ThreadSuspension.cfg` with `Spec` and `SuspendForced` alone | `MCThreadSuspension` | the suspend signal falls between the test of the pending flag and the store of the level; nobody serves it (`x86-spentry64.s:3678`) |
| `ProcessLifecycle.cfg` with `Spec` and `ResetCanBeEnabled` alone | `MCProcessLifecycle` | an interrupt of a process in the reset state uses up the readiness that process-enable waits for, and starts nothing (`l1-lisp-threads.lisp:398`) |
| the same, with `PendingSeen` | | an interrupt that arrives in a kernel exception only sets interrupt_pending; the call that would see to it on the way out is commented out, against the comment above it (`x86-exceptions.c:1371`) |
| the same, with `ResetHeeded` | | a reset accepted before process-reset's handler is there is thrown away (against `doc/src/threads.xml:1571`) |
| `StalePlacement.cfg` | `MCLockFreeHash` | the rehash hashes a key and then stores it; moved in between, the entry is where no probe finds it, and the new vector is not flagged (`l0-hash.lisp:745`) |
| the same, with `CollectInWindow` FALSE, `Putters <- TwoPutters`, `Removers <- Nobody`, `Readers <- OneReader`, one key, one value, `MinSize = 3`, `MaxAddress = 6` and `MaxCalls = 3` | | a putter checks that the vector needs no rehash, its key moves, another putter stores the key where it is now, and the first claims the slot for its old address, a claim that it will give up; the key moves back on to it, and gethash takes the claim for its slot and returns the default for a key that is in the table. It asks whether keys have moved only when it finds no slot (`l0-hash.lisp:837`; remhash likewise, `l0-hash.lisp:867`) |
| `StaleVector.cfg` | `MCLockedHash` | gethash keeps the vector it read across its promotion; a putter that gets the lock first grows the table and zeroes that vector, and gethash returns 0, or the default, for a key that is there (`l0-hash.lisp:1009`) |
| `GCInhibit.cfg` with `SpecWithThrows`, two threads, `MaxDepth = 1` and `GCDisabledInBody` alone | `MCGCInhibit` | thrown out of without-gcing before it takes the count, the cleanup releases another thread's, whose body sees objects move (`macros.lisp:3315`) |
| `AllocateList.cfg` | `MCGenerations` | allocate_list reads the initial element into a variable of the kernel before it allocates; a collection within the trap moves the element, and the list is filled with its old address (`x86-exceptions.c:554`) |
| `UnlockedIndex.cfg` | `MCGenerations` | rplaca and set_hash_key_conditional set the bit of the managed static index by a btsq without the lock prefix; two threads that set bits of one word lose one (`x86-spentry64.s`) |
| `EgcSwitch.cfg` | `MCGenerations` | the switch tenures everything without stopping the other threads; what another thread goes on to allocate in its segment is then old, refers to younger objects and is not memoized |
| `SaveApplication.cfg` with `Programs <- FrozenConstants` and `GraphSurvives` alone | `MCSaveApplication` | purify copies a function made after a freeze, but none of its constants that are frozen; the readonly area is not marked from, and the next collection zeroes them (`x86-gc.c:2763`, `gc-common.c:1304`) |
| `SaveApplication.cfg` with `Programs <- IvectorKeys` and `MovedKeysFlagged` alone | `MCSaveApplication` | on the ARM and the PPC purify moves ivectors that are keys of hash vectors and does not flag these (`arm-gc.c:1592`, `ppc-gc.c:1804`; the x86-64's purify_range does, `x86-gc.c:2467`) |
| `WeakReferences.cfg` with `Layouts <- FirstPair`, `MaxWork = 0` and `OnlyHeldPairsStay` alone | `MCWeakReferences` | the marker goes one word too far into a weak hash vector's header, to the first pair's key, which it keeps alive (`gc-common.c:327`, against `doc/src/gc.xml:228`) |
| `WeakReferences.cfg` with `NothingDangles` alone | `MCWeakReferences` | a weak vector that only an object to be terminated refers to is reached after the passes over the weak vectors; it is kept, what it lists is not, and it still refers to it (`gc-common.c:514`, against the comment at line 574) |
| `Allocation.cfg` with `Spec`, `Programs <- InterruptedOnArm` and `NothingOverlaps` alone | `MCAllocation` | on the ARM an interrupt that falls after the limit test finishes the allocation and voids the pointer, but not the limit in the TCR; the void pointer is above it, and the next allocations are made at the end of the address space (`arm-exceptions.c:1741`, against the comment at line 1753) |
| the same, with `Programs <- RefusedOnArm` | | on the ARM a request that is refused without a collection leaves the old limit in the TCR and voids the pointer; what is allocated next passes the limit test (`arm-exceptions.c:267`) |

`RecursiveLock` also has the case of `recursive_lock_trylock` without a `was_free` pointer
(`WasFreeArg` FALSE), which counts an acquisition that it then refuses. Nothing under src/
calls it so; runs and proofs take TRUE.

## What is proved

The proofs hold for every set of threads, every depth and every bound; the runs found the
invariants, the proofs need them inductive.

`RecursiveLockProofs`, from `LockAssumption` and `WasFreeArg`:
`TypeCorrect`, `MutualExclusion` (`HoldersOwn`) and `Refinement` (`ImplementsMutex`).
`HoldersOwn` alone is not inductive: an unlock drops the count to 0 before it takes the
spinlock, so the invariant adds who is in the spinlock's section (`SpinInv`), that `avail`
is 0 exactly for a free lock and only the owner has something to undo (`OwnInv`), and that a
held lock with count 0 has its owner on the way through the unlock (`PhaseInv`).
`ArrivalsAreAccounted` (`ArrivalsAccounted`) is an equation between numbers of threads. The posts
owed are a set of pairs of a thread and a number, so that its cardinality can change by one at a
time (`OwesMore`, `OwesLess`), and `AccountInv` adds that the sets counted are finite and which
threads owe anything; `OneWaiter` and `SameWaiters` say what a step does to the sleepers.

`ReadWriteLockProofs`, from `RWAssumption`: `TypeCorrect`, `Exclusion` (`WriterExcludes`) and
`Counting` (`StateCountsHolds`). The state field is a sum over all threads, so the invariant
speaks of the set of holds, pairs of a thread and a level, and of its cardinality (`ReadInv`);
`AddHold` and `DropHold` say how one acquisition changes it. `WriteInv` covers the gap between
the state and the writer field, `OpInv` what an operation in progress knows of its thread.
`SleepersAreCovered` (`SleepersCovered`) is inductive once the sleepers are known to be finitely
many and no expression of interest is negative (`SleepInv`); `OneSleeper` is the step of a thread
that goes to sleep or wakes.

`ThreadSuspensionProofs`, from `SuspensionAssumption`: `LockOwners` (`LockOwnersRun`) and
`OneAtATime`: one thread at a time suspends, collects or resumes, in the whole ring.
`LockOwnersRun` alone is not inductive: nothing in it stops a suspended thread's handler from
starting while the thread owns a lock. The invariant adds who owns what at each point of a
suspension (`PointInv`: both locks from the first signal to the last acknowledgement), that a
collector has suspended nobody it does not wait for (`AckInv`), that a request is in one place
at a time, sent, put off, being handled or answered (`SignalInv`), and that a thread inside its
handler owns neither lock (`HandlerInv`).
From these follow `WorldIsStopped` (`WorldStopped`) and `CountsAreRight` (`CountsBalance`), by the
invariant `BInv`: who is in the ring at each point of a thread's birth and death (`LifeInv`,
`ChildInv`), whom a collector has visited and whom it has still to visit (`VisitInv`), what each
suspend count is made of (`CountInv`), and that a thread is parked, or told to go on, as its count
says, except for the one whose suspension or resumption is half done (`ParkInv`). `WorldStopped`
alone says nothing of how a thread came to be parked, so that a request still on its way, a
resumption or a birth before the stop would break it.

`ProcessLifecycleProofs`, from `MaxTcrsAssumption` and `OneEnabler`: `StateIsTrue`
(`StateTellsTruth`) and `OneRight` (`OneRightToActivate`). The two need each other: a second
right to activate would start a thread before its state says that it is reset, and that a right
belongs to the thread the client met is known only because the state tells the truth about which
one that is. `LifeInv` says so at the points between two changes, `EnablerInv` that a thread just
made is not activated before its state is changed, and `RightInv` who has the one right, a client,
a semaphore or nobody any more. `OneEnabler`, that one client enables the process, is needed:
thread-enable takes no lock, so that two clients can both find a process without a native thread
and both make one, or one activates the thread that the other has made and not yet declared reset;
TLC finds `StateTellsTruth` violated with two.

`GCInhibitProofs`, from `InhibitAssumption`: `CountCorrect` (the count is the number of bodies,
up to its sign), `PaymentCorrect` (what was put off will be seen by the last body or by a thread
on its way), `OwedCorrect` (`OwedIsNoted`) and `BodiesUndisturbed` (`GCDisabledInBody`). None of
them is inductive: that the note survives needs the relation between the handler's
`gc_previously_deferred` and the number put off now, at each point of the trap's list of attempts
(`ListParts`), and that needs who is in the handler and what it was entered for. `EnterBody` and
`LeaveBody` say how one body changes the cardinality.

`GenerationsProofs`, from `GenerationsAssumption` and `Restricted`: `Memoization`
(`MemoizationIsComplete`) and `StaticReferences` (`StaticRefsIndexed`), for every heap, every
number of threads and roots, every size of words, spans and segments and every threshold. A
collection moves boundaries and the bits between them change their meaning, so the invariant
(`Good`) speaks of every boundary that a later collection may come back to, and of the dnodes that
threads have in hand (`OldHands`, `StaticHands`) rather than of all those inside a barrier: a
thread lets go of a dnode only when bit and index are both set. It adds that the areas are in
order and no further than `oldspace`, which the barrier tests (`Ordered`), that nothing refers past the last
object, so that a boundary moved there has no reference across it (`Bounded`), and that segments
lie above the youngest boundary (`SegmentInv`). `Tenure` and `Untenure` keep it, `Finished` is
`pc_luser_xp`, and a collection keeps it (`Collects`) because what is marked is closed under
references (`MarkedIsClosed`) and slides no further than the boundary (`Counting`,
`ForwardBound`): below it every reference is forwarded, memoized or not. `Marked` is therefore
defined as the least closed set and not by recursion. `Restricted` leaves out the three cases that
are known to break it, one for each of `AllocateList.cfg`, `EgcSwitch.cfg` and
`UnlockedIndex.cfg`: elements given to allocate_list, a switch of the EGC while other threads have
segments, and threads that store beside one that ends with the unlocked btsq.
`CollectionsKeepGraph` (`KeepsGraph`) is about what all this is for. What a collection keeps (`Kept`: what lies
below the boundary, and what is marked) is closed under references, because everything that has to
be memoized is (`KeptIsClosed`); it moves by one function (`Moved`), which is one to one on it
(`PlacesDiffer`), and each cell is found, forwarded, where that function says (`PlacedCell`,
`CompactMaps`). A path goes the same way before and after (`PathMaps`). That is an induction over the steps of
the path, and the library's induction theorems are out of the provers' reach; `CountingUp` is
induction in a form that is not: a set of numbers without a least element is empty.

`LockedHashProofs`, from `SizesAssumption` and `KeysAssumption`: `Inhibition`
(`InhibitionBalanced`). That each operation takes the count once and gives it back depends on where
it is, and where it may go on whether the table is flagged, who has the lock, and which vector a
reader still holds. `Structure` is the invariant that has all of this: what each thread is called
for (`OpAt`), who has the lock for what (`LockAt`), how often each inhibits (`InhibitsAt`), which
flags are known to be off because the collector is out (`UnmovedAt`), where the rehash and the
growth are (`RehashAt`, `CopyAt`), and that a vector nobody holds is unused and one that was
replaced under a reader is zeroed (`HeldInv`). It needs no hypothesis: it holds in the case that
`StaleVector.cfg` shows too. `SomeUnused` is a pigeonhole over the readers: there is always a vector for
the growth.
The module goes on to `InOrderBetweenSteps` (`TableInOrder`), under the hypothesis
`~CollectInWindow`: `CollectInWindow` is the growth's window between hashing a key and storing it,
which the code leaves open and where a moved key breaks the order (the case that `StalePlacement.cfg` shows for
the other kind of table). `PromotedFirst` is not needed. While the table is rehashed in place,
entries are out of order and one is in hand, so `Order` says what is true throughout: each
rehashed entry, and the one in hand, is reached over slots that are rehashed already
(`RehashInv`, `HandInv`), and `%rehash` takes nothing out of those; while it grows, the vector to be is in
order and holds what has been copied (`CopyInv`, `PlaceInv`); the counts are those of the slots, less
the entry in the air (`CountInv`). `Stored`, `StoredFilled` and `StoredOf` say what one store does to the slots and their
numbers, `WalkVisitsAll` that a walk comes to every slot, `ProbeIs` where it ends. That the first
state is in order is part of `Init`, which takes any vector that earlier calls can have left.

Its last part proves `TableIsMap`: under `~CollectInWindow` and `PromotedFirst` the specification
implements `SharedMap` (`ImplementsMap`), for any number of threads, keys, values and growths. The two
hypotheses are the cases in which the code is known to break it: the window, and the putter that
overtakes a promotion (`StaleVector.cfg`). There are two halves. `Contents`, what the slots and the
rehasher's hand hold, is the same before and after each step but `Put`, `Remove` and `Clear`,
collections and whole displacement chains included (`MapRehashSlot`, `MapDisplace`, `MapCopySlot`,
`MapPlaceEntry`, `MapInstall`, `ContentsOfCollect`), and those three change it as a map changes
(`MapPut`, `MapRemove`, `MapClear`). And an answer is one the map allows, which needs an invariant
about the operations, `Answers`: an operation has changed the table only when it is over
(`ChangedAt`); what it found was in the table during the call (`ResultAt`); nobody waits for a
promotion while a putter may grow the table (`NobodyWaits`), so the vector a reader
goes on with is the table's. `NobodyWaits` is where `PromotedFirst` is used, and nowhere else.

`LockFreeHashProofs`, from `SizesAssumption` and `KeysAssumption`, is about the table without a lock, with any
number of threads, keys, values and moves. Four invariants build on each other.
`StructureHolds`: what each thread has in hand where it is (`OpAt`, `HandAt`), whose slot a half-made
or half-removed entry is (`SlotInv`), what a cell may hold while the vector is copied (`CellAt`,
`CopyAt`), and that a vector that anybody still reads is not used again (`HeldInv`).
`RoomHolds` (`RoomIsThere`): the threshold counts promises, so `Room` adds the
claims in progress to it, and what the new vector has left at the moment it is installed. `CountHolds` is
the same for the count: it is the number of entries, but for the operations between their
conditional store and the count (`Counted`). These three need no hypothesis and hold in the
cases that `PutWrongKey.cfg` and `StalePlacement.cfg` show.
`OneEntryEach` (`CountIsRight`) needs `Order`: a key has one slot, and is found from where it
hashes, except for claims made for an address that the key has left (`StaleClaim`), which are never filled;
where a putter that hashed its key may still go (`PutAt`), and what the copy has done so far
(`CopiedAt`). Its hypothesis is `~CollectInWindow`, the window that `StalePlacement.cfg` shows.

`TableIsMap` (`ImplementsMap`) and `EntriesStay` (`NothingLost`) are about behaviours with
`OthersKeepTheirValue`, that no puthash replaces another key's value, and `ClaimsMisleadNobody`, that
no lookup takes a claim that will be given up for its key's slot. Both are errors that the code can
make, the first with two keys (`PutWrongKey.cfg`), the second with moves at the wrong moments (the
table above); in the instance of `LockFreeHash.cfg` neither happens, so the theorem is about all of its
behaviours. The refinement has the two halves of the locked table's. `Contents`, the values in the slots and those
that the copier has taken out, changes only by `FillValue` and `SwapValue` (`MapFill`,
`MapSwap`; `MapCount` to `MapCollect` say that it is the same before and after the other steps).
And the answers are those of a map: `Seen` says
that what gethash and remhash did not find was absent at some moment of the call (`NotThere`,
`AbsentIs`, `SlotHas`), although the vector they look at may have been replaced since. A rehash that ended in an
error leaves what it has copied in a vector that nobody will use, and the threads go on with the
old one; `Stopped` says that nothing is lost by that.

Only model-checked are the liveness properties (fairness and ENABLED are out of the prover's reach),
and the invariants of the collectors that are modelled object by object (`Collector`,
`SaveApplication`, `WeakReferences`) and of `Allocation`. In the collectors, what is reachable or alive is there the result of an iteration, what was
undone along the inverted links another, and lists are folded and selected from; each of these is an induction
over the data, to be set up anew as `CountingUp` was for one path. `NothingOverlaps` and
`RootsWhole` are case analyses over the instructions of three ports, on instances of one machine each,
with addresses modulo the size of the address space and tags in them; their inductive invariant would
say for each instruction and each point of each handler which of the registers means what. No module that is proved about declares a
RECURSIVE operator.

## Not modelled

* Of the modelled components: kill_tcr and kill-lisp-thread, foreign threads that enter by a
  callback, process-wait, operations of a lock-free table thrown out of half-way and its clrhash,
  weak and read-only tables, iteration, hash functions other than by address, GCTWA, static conses, the circular method for weak vectors,
  resizing the heap between generations, lisp threads' stacks and their overflow.
* Of saved images: the file format and the errors of writing and mapping a file, static conses,
  gcable pointers, and the native libraries of Darwin. `unwatch_object` tenures everything even if
  the ephemeral collector is disabled, which leaves later traps to see only what is younger; the
  generations are not part of this model.
* Interrupts: throws and unwinding of the Lisp stack, the frames of foreign calls and what
  their interruption leaves, the composition of the levels with the suspend signal's -2.
* Of the ports: everything but the collectors and the allocation of the ARM and the 32-bit PPC. The
  64-bit PPC has its own tags and code vector prefix; ephemeral collections, the write barrier's part
  of `pc_luser_xp` and suspension on the ports are written along the lines of the x86-64's but are
  other code. In the checked programs for the ARM no thread is interrupted while it allocates and nothing
  is refused: the table above says what happens then.
* Two oddities of the ports that no state of theirs shows: `code_vector_from_pc` subtracts the zero
  it stops at, not the word after it that holds the distance (`arm-gc.c:242`), which is harmless
  as long as the function is marked before the address; `purify_locref` of the PPC starts its search
  one dnode below the address (`ppc-gc.c:1780`), which is harmless as long as no address points into the
  first two words of a code vector.
* Compiler, assembler, CLOS, reader, printer, numbers, streams, foreign interface,
  debugger, build and IDE: sequential code over unbounded data, I/O or generated code, where a
  bounded model would repeat the code.

Worth doing next: the interrupt signal composed with the suspend signal; kills; two clients that
enable one process.

## Running

    tlc -workers 2 -config LockFreeHash.cfg MCLockFreeHash
    tlapm ThreadSuspensionProofs.tla

Every run ends within five minutes on two cores, the proofs of a module within a few, except
`LockFreeHashProofs` and `LockedHashProofs`, which take about a quarter of an hour each.
