# A TLA+ model of the mykonos kernel

mykonos is a small x86_64 kernel for several CPUs. This directory holds TLA+
modules for the parts of it where processes, CPUs or interrupts meet, the TLC
configurations that check them on small instances, and proofs that TLAPS checks
for every instance. `PROJECT.json` is the index: components, runs, mutants (one
plausible bug for every property, which TLC must detect), the map from
definitions to source lines, the finding, the hazards, and the theorems.

Paths below are relative to `src/kernel/`.

## 1. The system and its parts

| Part | Source | Module | Depth |
|---|---|---|---|
| Spinlock | `include/mykonos/spinlock.h` | `Spinlock`, `LockOwner` | one step per memory access |
| Task queue | `include/mykonos/task/taskQueue.h` | `TaskQueue`, `TaskDeque`, `TaskQueueSpec` | the linked lists |
| Calls between CPUs | `arch/x86_64/kernel/processors/processors.cpp` | `Processors` | one step per memory access |
| Scheduler and context switch | `scheduler/scheduler.cpp`, `.../scheduler/registers.S` | `Scheduler` | every branch of `addTask`, `yield`, `tick` |
| Mutex, completion | `scheduler/mutex.cpp`, `scheduler/completion.cpp` | `Mutex`, `Completion` | on the scheduler |
| Threads, cleaner, `util::Queue` | `.../threadCreator.cpp`, `.../threadDestroyer.cpp`, `memory/cleaner.cpp`, `include/mykonos/queue.h` | `Threads` | on the scheduler, composes the two above |
| Boot information, ACPI root | `arch/x86_64/kernel/mbi.cpp`, `acpi/tables.cpp` | `BootMemory` | every tag, in any order |
| Block map | `memory/memoryBlock.cpp` | `BlockMap` | the array and its algorithms |
| Kernel heap, page tables, TLB shootdown | `memory/kmalloc.cpp`, `.../paging/paging.cpp` | `KernelHeap` | one step per page-table access |
| Start-up | `arch/x86_64/kernel/startup.cpp`, `.../smp/smp.cpp`, `bootstrap.S` | `Boot` | from the ACPI tables to `kRun()`'s end |
| ACPI tables, device tree | `acpi/*.cpp`, `drivers/*.cpp` | `DeviceTree` | which tables and devices, in which order |
| Device interrupts, I/O APIC | `.../interrupts/interruptHandlers.cpp`, `.../apic/apic.cpp`, `irq.h` | `Irqs` | one step per access to the handler table and to an I/O APIC |
| APIC timer, HPET | `.../apic/apicTimer.cpp`, `include/mykonos/hpet.h` | `ApicTimer` | the calibration, with 64-bit products |
| Console, `kpanic`, exceptions | `display/console/*.cpp`, `error/kpanic.cpp`, `.../exceptionHandlers.cpp` | `Console` | the lock, and what is printed with it or without |
| Frame buffer, font, strings | `display/frameBuffer.cpp`, `display/font/psfRenderer.cpp`, `display/stringWriter.cpp` | `Screen` | operators, down to pixels |
| Virtual file system | `fs/vfs/vfs.cpp`, `include/mykonos/vector.h` | `Vfs` | handles, walks, mounts, moving nodes |
| Initramfs | `fs/initramfs/initramfs.cpp`, `include/mykonos/string.h` | `Initramfs` | operators |

How they interact: the start-up reads the boot information into the map of free
memory, sets up the I/O APICs and the timer, and brings the CPUs in one by one;
one of them loads the device tree, a thread and a completion for each device.
From then on every CPU has a `Scheduler` with a run queue (a task queue).
`addTask()` picks the least busy CPU, and reaches another CPU with
`processors::runOn()`, which waits on a mailbox under a spinlock. Mutexes,
completions and `util::Queue` block the current task, and wake one with
`addTask()`. A thread that ends gives its stack to the cleaner thread through a
`util::Queue`; freeing it unmaps pages, which calls every other CPU to drop its
translations.

## 2. The modules

**Spinlock.** `acquire()` reads the interrupt flag, disables interrupts, spins
on the byte, swaps it, and stores the flag in the lock; `release()` copies the
flag out, stores zero and re-enables. Each is an action of a *context*, which is
a CPU's thread or the interrupt handler on top of it; `Interrupt` suspends the
thread whenever the flag is set. `LockOwner` is the abstract lock: free, or owned
by one context.

**TaskQueue.** `head`, `tail`, `size` per queue and one `next` field per task,
shared by all queues and never reset, as in the code. `TaskDeque` is the promise,
two sequences; `TaskQueueSpec` runs both side by side and its refinement mapping
is the history variable `queue`.

**Processors.** A mailbox per CPU: lock, callback, `callerCanReturn`. The caller
fills it, sends the interrupt and spins with its interrupts off; the target runs
the callback, which here is the shootdown's, in its handler. CPUs mask and unmask
interrupts at will outside.

**Scheduler.** Per CPU: the run queue, `current`, `addTaskLock`, the postponed
yield, and the place `pc[c]` in `yield()`; per task: state, time slice, run lock,
saved registers (where it resumes, with which flag). `exec[c]` is the task whose
stack the CPU is on, which is not always `current[c]`. `yield()` is split where
another CPU can see a difference: the look-up of the scheduler, pop, mark,
requeue, save and unlock, lock and restore, and the three steps of a CPU that has
nothing to run. `addTask()` is split into choice, marking, lock, check, push,
call. A component without a specification of its own.

**Mutex, Completion, Threads.** `Threads` composes them with the scheduler:
threads yield, create threads, use one mutex, await or signal one completion and
call `destroy()`, as the workload of the instance allows; the cleaner pops from
its `util::Queue` and frees. The spinlock of the completion is explicit, since
`signalComplete()` can lose the CPU while it holds it; other parts under a
spinlock are one step. `early` counts the times that `addTask()` is called for a
task that has called `block()` but is still on its CPU; see the finding.

**BlockMap, BootMemory.** The array, with `merge()` as a fold, `reserve()` as the
loop over an array that changes under it, first fit, and a full array that drops
what it is given. `managed`, `held`, `removed` and `dropped` are history.
`BootMemory` fills it as `parseMbi()` does: memory map, module, frame buffer and
RSDP tags in the order of the boot loader, with the rounding of bases and
lengths in bytes, and then the choice of the RSDT or the XSDT.

**KernelHeap.** The two block maps are sets of free pages and frames, and
`allocate()` takes any free range or fails. No lock protects the page tables, so
look-up, creation, clearing, the store and the steps of `unmapPage()` are actions
of their own. Each CPU caches translations whenever it likes. One level of tables
stands for three. A CPU answers a shootdown unless it waits in one itself.

**Boot, DeviceTree.** The bootstrap processor's loop with `startCpu()` (INIT, two
startup interrupts, a timeout), the CPUs' way from the trampoline's counter over
their call to the predecessor to the timer, and `kRun()` with its two barriers and
the race for the hardware. A CPU may ignore either startup interrupt. `DeviceTree`
holds the threads that load devices; devices are paths from the root. MCFG ranges
need not begin at bus 0, and a BAR need not be in memory.

**Irqs, ApicTimer.** `kstart()` resets the HPET, maps and masks the inputs of the
I/O APICs and calibrates the timer; then two threads register handlers, for
inputs or for message interrupts, an access at a time, while devices raise edges,
levels and messages. CPU 0 takes the highest request, dispatches it to all
handlers of the line and signals the end of interrupt. Products of the HPET's
counter are taken modulo the word size of the instance.

**Console, Screen.** `Screen` gives the screen after `print()`: lines that wrap,
scrolling, clipped glyphs, the back buffer and the visible one, and
numerals of `printf()`. `Console` says who prints: threads under the lock,
`kpanic()`, and exceptions that strike anywhere, also inside `print()`. One
exception handler passes its error code where `print()` expects `skipLocking`.

**Vfs, Initramfs.** File nodes live at addresses; children lie in a vector which
moves all of them when it grows, and `populated` is never set, so a directory
grows with every access. Opening a path is a walk of several steps. Names are
sequences of small tokens, on which `Initramfs` defines `startsWith`,
`subString` and `populateDirectory()` as the code does. An operation on one
handle is one step, under the node's lock. A client whose node has moved is
taken no further (`Stray`), and one that uses a handle it has closed crashes.

`MC*.tla` modules give constants values that a `.cfg` file cannot express.

## 3. What is checked

The type invariant of a module is a conjunct of one of its invariants, or proved
(`Spinlock`, `TaskQueue`, `Processors`, `KernelHeap`, `Boot`).

| Run | Instance | What it shows |
|---|---|---|
| `spinlock` | 2 CPUs, each with a handler | interrupts stay off while it is held, and every context gets back the flag it found; implements `LockOwner`; a held lock is released, and spinners do not wait for a lock that stays held |
| `task_queue` | 2 queues, 3 tasks | the lists implement the sequences, whatever stale `next` they carry |
| `processors` | 3 CPUs, each calls any other once | a call runs exactly once before it returns, while its callback is alive, no stale flag ends it; it returns unless CPUs wait in a circle |
| `threads_smp` | 2 CPUs, 4 threads, two workloads (create and exit; mutex and exit), 2 early wake-ups | no task is lost or queued twice; no two CPUs share a stack, even when a task is queued twice; the mutex is exclusive; when a halted CPU may have work in its queue, and when a thread may be in the `yield()` of another CPU |
| `threads_up` | 1 CPU, two workloads (create, mutex, exit with the cleaner; completion) | `destroy()` does not return, queued tasks run, stacks are freed, `acquire()` ends; nobody passes a completion early or is left behind; `await()` returns unless the completion's spinlock is stuck |
| `threads_panic` | 2 CPUs, 2 threads, 1 early wake-up | **violation**: `destroy()` returns (section 5) |
| `boot_memory` | 10 bytes in pages of 2, two map entries, a module before or after the map, combinations of RSDP tags; the block map alone with 8 addresses and 3 slots | free and held memory are disjoint and no address is lost or invented; what is free is usable and not reserved; the table root is that of the RSDP that passed |
| `kernel_heap` | 3 CPUs, 2 pages, 3 frames, sizes 0 to 2 with a header of 1 and pages of 2 | allocations are disjoint; a free page is in no TLB; live pages stay mapped to frames of their own; frames are accounted for |
| `boot` | 3 CPUs, all MADT orders, 2 boot CPUs, MCFG ranges that begin at 0 or 1, bad checksums, 2 buses with 2 functions | numbers, stacks, trampoline, barriers and completions fit together; the start-up ends |
| `irqs` | 2 I/O APICs with 2 and 1 inputs, 9 machines, 2 handlers per line | every interrupt is acknowledged; unmasked inputs are routed to CPU 0; requests reach a handler; the timer's period is the one waited for; `wait()` ends |
| `console` | 2 CPUs, 5 x 3 pixels, glyphs of 2 x 1, 3 prints, panics or exceptions | every pixel shows what the finished calls printed; a CPU that panics stops |
| `vfs` | 2 clients, 2 archives, vector size 4 | open counts, walks, listings and mounts are right until a vector moves an open node |

**Why the bounds are enough.** Two CPUs give every race of two; three are used
where a third party matters (a caller that waits for a CPU that waits for a
third; the chain of CPUs at boot; a page freed by one CPU, taken by a second and
cached by a third). Four threads put two in a run queue besides the two that
run. Two queues with three tasks exercise an empty list, a single element and
inner links, and the passage from one queue to the other. Three slots make the
block map full while a block is split. Two pages with a header of half a page
have allocations with and without a page that `kfree()` forgets, and a free of
no page at all. With vectors of 4, a few accesses to a directory fill its vector
and make it grow. Pages of two bytes give map entries that begin or end inside a
page. Two inputs on the first I/O APIC give the second one a base that is not 0;
two handlers for a line fill its slots, and a third registration finds none. The
screen has three lines of two columns, beside a strip that no character reaches,
so that lines wrap and scroll within three prints.
`InitialTimeSlice = 1` and `SliceModulus = 2` stand for 5 and 2^32: the wrap of
the unsigned counter happens, only sooner. `MaxEarly` bounds early wake-ups,
`MaxNodes` the nodes in memory, `MaxEvents` what is printed, and `BootTicks` how
long the start-up takes before it calibrates; nothing else is cut off.

**Deadlock** is checked for `spinlock` and `task_queue`. In the others the system
may stop: CPUs halt when all threads are blocked or gone or after a panic, CPUs
that call each other wait for ever, start-up ends, memory is exhausted.

**Fairness.** A CPU goes on executing the code it is in (weak fairness of the
steps of `acquire()`, `runOn()`, `yield()`, `print()`, the start-up, a handler),
and the HPET goes on counting (weak fairness of `Tick` in `Irqs`). An interrupt
stays pending until it is taken, so it is taken if the CPU enables interrupts
again and again (strong fairness of `Interrupt`, `TakeCall`, and `Tick` of the
scheduler). A thread that gets the CPU again and again executes its next
instruction (strong fairness per thread). A CPU that has masked interrupts outside
`runOn()` unmasks them (`Unmask` of `Processors`): the kernel's other critical
sections are short. Threads are not obliged to start an operation; a thread inside
the mutex releases it. The spinlock makes no promise to a particular spinner, since
its compare-and-swap can always be lost, and no property claims one.

**Conditional properties.** Some properties name a situation in which the code
does not keep them, and hold outside it. Each of these situations is reachable,
is described at the definition, and is listed among the hazards:

* threads: `early` (a wake-up between `block()` and `yield()`), `late` (a CPU
  that halts while `addTask()` is about to push), a thread that has blocked when
  another CPU moves it, `LockStuck` (a postponed `yield()` under the completion's
  spinlock), a circle of calls;
* memory: `raced` (two CPUs create one page table), `exhausted` (a page table made
  of frame 0), usable memory that does not begin at a page, an old RSDP tag of
  revision 2 on its own;
* start-up: a MADT that does not list the bootstrap processor first, `Astray` (a
  call to a CPU that has not stored its APIC id), an MCFG range that does not
  begin at bus 0 and a BAR outside memory;
* interrupts: `raced` (two registrations at a time), `missed` (an edge or message
  before the registration returns), bits that the firmware left in an I/O APIC,
  a single CPU whose APIC id is not 0, messages on the kernel's own vectors;
* console: `torn` (a print that skips the lock), `Stuck` (an exception inside
  `print()`);
* files: `moved` (a vector moved an open node).

## 4. What is proved

TLAPS checks these for any number of CPUs, tasks, queues, pages, frames and sizes.
The assumptions are on constants only, and TLC evaluates them in the runs: null
values are no tasks or contexts, a CPU does not call itself; for the heap that
CPUs, pages and sizes are natural numbers, that the page size is not 0 and that the
marks for "no frame", "frame 0" and "a device" are none of the frames; for the
scheduler that there are finitely many CPUs, each with a first task of its own; for
the start-up that the MADT lists every CPU once. Each inductive invariant was checked
with TLC on the instance of the run before it was proved.

* `SpinlockProofs`: `SpinlockExcludes`, `SpinlockKeepsInterrupts`,
  `SpinlockRefinesLock`. Mutual exclusion is not inductive
  alone. `IInv` adds that the byte is 1 exactly when someone owns the lock
  (`LockByteInv`); that a handler uses the lock only while it runs, with
  interrupts off (`HandlerInv`); that a thread past its `cli` is not interrupted
  (`ThreadInv`), which needs the handler part; and that the flag in the shared
  field, or its copy in `release()`, is the one its owner read (`FlagInv`), which
  needs that there is one owner. The refinement maps the owner to the context
  between its swap and its store.
* `TaskQueueProofs`: `QueueRepresents`, `QueueImplementsDeque`. `Represents`
  says that the linked list spells the sequence; it is inductive only with
  `Distinct`, that no task occurs twice in the queues, since one push writes the
  `next` of one task. A lemma for each operation shows that it keeps the
  list it works on and disturbs no other one.
* `ProcessorsProofs`: `CallbackRunsOnce`, `CallbackOutlivesCall`. Both follow from
  an invariant about the mailbox in two halves. `CallerInv`: a caller between
  `acquire()` and `release()` owns the lock of the mailbox, and finds in it what it
  has stored. `MailboxInv`: a pending interrupt, and a handler up to
  `letCallerReturn()`, belong to the caller that owns the mailbox and waits.
  Neither half is inductive without the other: the handler relies on the caller to
  wait, the caller on there being no other handler that could set
  `callerCanReturn`.
* `KernelHeapLemmas`, `KernelHeapProofs`: `HeapPagesExclusive`. It needs no
  condition on the page tables, which no lock protects. The invariant says who has
  a page (`LiveOwned`, `JobOwned`): the free list, one client, one thread or
  nobody. `MapOK` ties the pages of a thread that maps to the allocation it will
  return, `UnmapOK` says how far a thread that frees has come: pages behind it have
  no entry, and no translation on the CPUs below `shot`. The step that carries the
  proof is `StepQuiet`: only `mapPage()` fills an entry, that of a page of its own,
  and a CPU caches only what has an entry, so what one thread has erased stays
  erased. That `unmapMemory()` frees no more than `allocateMemory()` took is
  `UnmapRange`, from the monotonicity of the rounding.

* `KernelFramesProofs`: `HeapPagesMapped`, `HeapFramesAccounted`, on top of the
  former. They hold until two CPUs meet in the creation of one page table (`raced`).
  `FrameInv` adds what a thread has in its hand between `allocateFrame()` and
  `mapPage()` (`HandOK`), that the table of a region is made by one thread, before
  anything is entered in it (`TableOK`), and that a frame is free or in exactly one
  place: a table, an entry or a hand (`HeldOnce`). An entry that `unmapPage()` has
  returned and not yet erased does not count as a place: at that moment its frame may
  be handed out again, and `HeldOnce` would not be inductive otherwise. That the page
  is then out of reach is `HeapPagesExclusive`.
* `ThreadsProofs`: `RunLockDiscipline`, `StacksExcluded`, for any number of early
  wake-ups, so also in the behaviours of the finding. `StackExclusion` is not
  inductive: a CPU loads the registers of a task that is merely somewhere in a queue.
  `RunInv` says on which stack a CPU is at each step of `yield()` (`CpuOK`) and that
  it holds the run lock of that stack's task from `lockTask()` to `unlockTask()`
  (`Owns`). `addTask()` contributes only that it works on a scheduler that exists
  (`Aims`), for which `getLeastBusy()` must find a minimum.
* `BootProofs`: `BootOrder`, `NumbersAgree`, `TrampolineKept`, `LoaderIsAlone`, for
  every order of the MADT and whichever startup interrupts are lost. `BootInv` ties
  the place of the bootstrap processor in its loop to what the other CPUs can have
  done: all CPUs it has passed are counted, the next one at most is in the trampoline
  (`Chain`, `Starting`), numbers are given in the order of counting (`Names`, `Ids`,
  `FirstTasks`), and the counters of `kRun()` are the cardinalities of the sets of
  CPUs that have passed (`Counts`, `Passed`), from which a barrier lets nobody pass
  before all have come.

Only model-checked: liveness; whatever rests on recursion or on induction over
data, or is defined by folds (the block map's loops, the boot memory map, the device
tree, the screen, file names and listings); the device interrupts, whose registers
need bit operations; of the threads, what depends on the contents of the run queues
(`NoTaskLost`, `MutexExclusion`, `OwnScheduler`, `NoWorkForHaltedCpu`,
`DestroyNeverReturns`, `SignalServesAll`); the console and the file system.

## 5. The finding

`threads_panic`: `thread::destroy()` ends in `kpanic("thread::destroy somehow
returned!?")`, and it can be reached. A thread that calls `block()` and is woken by
another CPU before its `yield()` finds itself in its own run queue. `yield()` pops
it, marks it `RUNNING`, then looks whether the task it leaves, the same one, is
`RUNNING`, and queues it again (`scheduler/scheduler.cpp:98`). From then on it
both runs and is queued. When it exits, the second entry resumes it behind the
last `yield()`. The same second entry lets a later `acquire()` of a mutex return
though nobody released it.

## 6. Not modelled, and what is left

Not modelled, because there is nothing to check in TLA+: the early page tables
(`pageTableInit.cpp`: straight-line code on one CPU whose result depends on the
linker script only), the masking of the PIC and the CPUID check, byte copying
and `util.h`, and the unit tests, which were read for what they expect. Of the
modelled parts these are left out: wording of messages and pixel formats, the
encoding of descriptors, registers that are written once with a constant, bytes
of files and octal numbers of the tar headers, the size that a BAR reports, xHCI
registers, interrupt overrides that the kernel reads and does not use, move
constructors, and `scheduler::removeSelf()`, which has no caller. `PROJECT.json`
lists each with the reason. What happens after a hazard that ends a model (a null
node, a scheduler that two CPUs write, frame 0 as a page table) is not followed.

Worth doing next:

1. An abstract allocator that `BlockMap` implements and `KernelHeap` uses, in the
   place of the argument that any free range or none may be returned.
2. Proofs of `NoTaskLost` and `MutexExclusion` of `Threads` for `early = 0`, from
   "a task has one place" and `TaskQueueProofs`.

## 7. Running

    tlc -workers 2 -config MCSpinlock.cfg MCSpinlock
    tlapm SpinlockProofs.tla
    tlapm KernelHeapLemmas.tla && tlapm KernelHeapProofs.tla && tlapm KernelFramesProofs.tla

`PROJECT.json` names the module and the configuration of every run.
