-------------------------------- MODULE Boot --------------------------------
(***************************************************************************)
(* Bringing the machine up (arch/x86_64/kernel/startup.cpp, smp/smp.cpp    *)
(* and the trampoline of bootstrap.S).  The bootstrap processor starts the *)
(* other CPUs one at a time in the order of the MADT; each one counts      *)
(* itself, calls its predecessor with processors::runOn() and waits for    *)
(* the timer setting; all of them meet in kRun() at two barriers, and one  *)
(* of them loads the devices.                                              *)
(***************************************************************************)
EXTENDS DeviceTree

CONSTANTS Cpus,    \* the CPUs, named by their local APIC ids: 0 .. n - 1
          Madts,   \* the entry lists that the MADT may hold
          MAX_LOCAL_APICS,
          Bsps,    \* the CPUs that the firmware may boot on
          Rsdts    \* the table lists that the RSDT may hold

\* MadtTableManager(header): the local APICs among the entries that are
\* enabled, as many as fit.
LocalApics(madtEntries) ==
  LET enabled == SelectSeq(madtEntries, LAMBDA e : e.type = "LOCAL_APIC" /\ e.enabled)
      kept == SubSeq(enabled, 1, Min({Len(enabled), MAX_LOCAL_APICS}))
  IN  [k \in DOMAIN kept |-> kept[k].apicId]

ASSUME BootAssumption ==
  /\ Cpus \subseteq Nat /\ IsFiniteSet(Cpus) /\ Bsps \subseteq Cpus
  /\ \A m \in Madts : LET ids == LocalApics(m)
                      IN  ids \in Seq(Cpus) /\ Len(ids) = Cardinality(Cpus) /\ Range(ids) = Cpus

VARIABLES
  madt, bsp,        \* the local APICs in the MADT's order, and the bootstrap processor
  pc,               \* where each CPU is; "off" and "reset" are not running
  i,                \* the bootstrap processor's index into the MADT, from 0
  previous,         \* startCpu(): previousRunningCpus
  runningCpus,      \* smp.cpp: runningCpus
  trampoline,       \* is the trampoline in low memory?
  number,           \* the CPU number in TSC_AUX / %al, from 0
  stack,            \* the index of the stack that the CPU runs on; 0 is the boot stack
  initialTask,      \* scheduler number -> originalStackPointer of its first task
  localApicIds,     \* CPU number -> APIC id, initially 0
  irqs, ipi,        \* interrupt flags, and pending PROCESSOR_CALLBACK_INTERRUPTs
  callback, callerCanReturn,   \* the mailboxes, by CPU number
  localApicTickSetting,        \* has the timer been calibrated?
  numCpusWithInitialTasks, numCpusDone, hardwareInitLock,
  otherThreadDone   \* kRun()'s flag of each CPU

startVars == <<i, previous, runningCpus, trampoline, number, stack, initialTask>>
callVars == <<localApicIds, irqs, ipi, callback, callerCanReturn>>
runVars == <<numCpusWithInitialTasks, numCpusDone, hardwareInitLock, otherThreadDone>>
firmware == <<madt, bsp>>
vars == <<firmware, pc, startVars, callVars, localApicTickSetting, runVars, tables, deviceVars>>

N == Cardinality(Cpus)
Numbers == 0 .. N - 1
Null == N
Aps == Cpus \ {bsp}

\* allocateStacks() makes stack n for CPUs 1 .. N - 1; index 0 has a null pointer.
getInitialStackPointer(n) == IF n \in 1 .. N - 1 THEN n ELSE 0

processorCount == runningCpus

Step(c, from, to) ==
  /\ pc[c] = from
  /\ pc' = [pc EXCEPT ![c] = to]

\* The state when kstart() has set up memory, its own scheduler and the cleaner.
Init ==
  /\ \E m \in Madts : madt = LocalApics(m)
  /\ bsp \in Bsps
  /\ pc = [c \in Cpus |-> IF c = bsp THEN "acpi" ELSE "off"]
  /\ i = 0 /\ previous = 0 /\ runningCpus = 1
  /\ trampoline = FALSE
  /\ number = [c \in Cpus |-> 0]
  /\ stack = [c \in Cpus |-> 0]
  /\ initialTask = [n \in {0} |-> 0]
  /\ localApicIds = [n \in Numbers |-> 0]
  /\ irqs = [c \in Cpus |-> FALSE]
  /\ ipi = {}
  /\ callback = [n \in Numbers |-> Null]
  /\ callerCanReturn = [n \in Numbers |-> FALSE]
  /\ localApicTickSetting = FALSE
  /\ numCpusWithInitialTasks = 0 /\ numCpusDone = 0
  /\ hardwareInitLock = FALSE
  /\ otherThreadDone = [c \in Cpus |-> FALSE]
  /\ DeviceInit
-----------------------------------------------------------------------------
(* kstart(): the bootstrap processor *)

\* The ACPI tables; without a HPET or a MADT the kernel panics.
FindTables ==
  \E rsdt \in Rsdts :
    /\ tables' = LoadRsdt(rsdt)
    /\ Step(bsp, "acpi", IF Has(tables', "HPET") /\ Has(tables', "MADT") THEN "copy" ELSE "panic")
    /\ UNCHANGED <<firmware, startVars, callVars, localApicTickSetting, runVars, deviceVars>>

\* The trampoline is copied, and allocateStacks(numCpus) called.
CopyTrampoline ==
  /\ Step(bsp, "copy", IF N > 1 THEN "next" ELSE "number")
  /\ trampoline' = (N > 1)
  /\ UNCHANGED <<firmware, i, previous, runningCpus, number, stack, initialTask,
                 callVars, localApicTickSetting, runVars, tables, deviceVars>>

\* The loop reaches its own entry.
SkipSelf ==
  /\ Step(bsp, "next", "next")
  /\ i < N /\ madt[i + 1] = bsp
  /\ localApicIds' = [localApicIds EXCEPT ![0] = bsp]
  /\ i' = i + 1
  /\ UNCHANGED <<firmware, previous, runningCpus, trampoline, number, stack, initialTask,
                 irqs, ipi, callback, callerCanReturn, localApicTickSetting, runVars, tables, deviceVars>>

\* Mutant: the stack of the next entry.
PrepareNextStack ==
  /\ Step(bsp, "next", "init")
  /\ i < N /\ madt[i + 1] # bsp
  /\ initialTask' = [n \in DOMAIN initialTask \cup {processorCount} |->
                       IF n = processorCount THEN i + 1 ELSE initialTask[n]]
  /\ previous' = runningCpus
  /\ UNCHANGED <<firmware, i, runningCpus, trampoline, number, stack,
                 callVars, localApicTickSetting, runVars, tables, deviceVars>>

\* Another CPU's entry: its first task, whose stack is the one at the MADT
\* index, and its scheduler, numbered by processorCount(); then startCpu().
Prepare ==
  /\ Step(bsp, "next", "init")
  /\ i < N /\ madt[i + 1] # bsp
  /\ initialTask' = [n \in DOMAIN initialTask \cup {processorCount} |->
                       IF n = processorCount THEN getInitialStackPointer(i) ELSE initialTask[n]]
  /\ previous' = runningCpus
  /\ UNCHANGED <<firmware, i, runningCpus, trampoline, number, stack,
                 callVars, localApicTickSetting, runVars, tables, deviceVars>>

\* The INIT interrupt.
SendInit ==
  /\ pc[bsp] = "init"
  /\ pc' = [pc EXCEPT ![bsp] = "sipi", ![madt[i + 1]] = "reset"]
  /\ UNCHANGED <<firmware, startVars, callVars, localApicTickSetting, runVars, tables, deviceVars>>

\* A startup interrupt (the first, or the second after a millisecond without
\* an answer).  Only a CPU that waits for one takes it; it may go unanswered.
SendSipi(from, to) ==
  /\ pc[bsp] = from
  /\ from = "again" => runningCpus <= previous
  /\ \E accepted \in BOOLEAN :
       pc' = [pc EXCEPT ![bsp] = to,
                        ![madt[i + 1]] = IF accepted /\ @ = "reset" THEN "trampoline" ELSE @]
  /\ UNCHANGED <<firmware, startVars, callVars, localApicTickSetting, runVars, tables, deviceVars>>

\* Mutant: startCpu() reports success when its time is over.
PollGivesUp ==
  /\ pc[bsp] \in {"again", "poll"}
  /\ pc[bsp] = "again" => runningCpus > previous
  /\ pc' = [pc EXCEPT ![bsp] = "next"]
  /\ i' = i + 1
  /\ UNCHANGED <<firmware, previous, runningCpus, trampoline, number, stack, initialTask,
                 callVars, localApicTickSetting, runVars, tables, deviceVars>>

\* startCpu() sees the count go up.
CpuStarted ==
  /\ pc[bsp] \in {"again", "poll"}
  /\ runningCpus > previous
  /\ pc' = [pc EXCEPT ![bsp] = "next"]
  /\ i' = i + 1
  /\ UNCHANGED <<firmware, previous, runningCpus, trampoline, number, stack, initialTask,
                 callVars, localApicTickSetting, runVars, tables, deviceVars>>

\* A second passes without an answer: kpanic().
StartTimeout ==
  /\ Step(bsp, "poll", "panic")
  /\ runningCpus = previous
  /\ UNCHANGED <<firmware, startVars, callVars, localApicTickSetting, runVars, tables, deviceVars>>

\* The low memory gets its contents back.
RestoreLowMemory ==
  /\ Step(bsp, "next", "number")
  /\ i = N
  /\ trampoline' = FALSE
  /\ UNCHANGED <<firmware, i, previous, runningCpus, number, stack, initialTask,
                 callVars, localApicTickSetting, runVars, tables, deviceVars>>

\* Mutant: what was measured is not published.
CalibrateForItself ==
  /\ Step(bsp, "number", "irqs")
  /\ number' = [number EXCEPT ![bsp] = 0]
  /\ UNCHANGED <<firmware, i, previous, runningCpus, trampoline, stack, initialTask,
                 callVars, localApicTickSetting, runVars, tables, deviceVars>>

\* setCpuNumber(0), initIoApics(), the calibration of the timer.
CalibrateTimer ==
  /\ Step(bsp, "number", "irqs")
  /\ number' = [number EXCEPT ![bsp] = 0]
  /\ localApicTickSetting' = TRUE
  /\ UNCHANGED <<firmware, i, previous, runningCpus, trampoline, stack, initialTask,
                 callVars, runVars, tables, deviceVars>>

\* maskAllInternal(), enableLocalIrqs(), setUpTimer(); setRootDevice() follows.
BspEnableIrqs ==
  /\ Step(bsp, "irqs", "root")
  /\ irqs' = [irqs EXCEPT ![bsp] = TRUE]
  /\ UNCHANGED <<firmware, startVars, localApicIds, ipi, callback, callerCanReturn,
                 localApicTickSetting, runVars, tables, deviceVars>>

BspSetRoot ==
  /\ Step(bsp, "root", "arrive")
  /\ SetRootDevice
  /\ UNCHANGED <<firmware, startVars, callVars, localApicTickSetting, runVars>>

BspStep ==
  \/ FindTables \/ CopyTrampoline \/ SkipSelf \/ Prepare \/ SendInit
  \/ SendSipi("sipi", "again") \/ SendSipi("again", "poll") \/ CpuStarted
  \/ RestoreLowMemory \/ CalibrateTimer \/ BspEnableIrqs \/ BspSetRoot
-----------------------------------------------------------------------------
(* The trampoline and kstartApCpu(): the other CPUs *)

\* lock xaddb of runningCpus, in the kernel's own copy of the code, and the
\* stack at that number.
CountSelf(c) ==
  /\ Step(c, "trampoline", "enable")
  /\ number' = [number EXCEPT ![c] = runningCpus]
  /\ stack' = [stack EXCEPT ![c] = getInitialStackPointer(runningCpus)]
  /\ runningCpus' = runningCpus + 1
  /\ UNCHANGED <<firmware, i, previous, trampoline, initialTask,
                 callVars, localApicTickSetting, runVars, tables, deviceVars>>

\* setCpuNumber(), enable(), localApicIds[cpuNumber], install()
ApEnable(c) ==
  /\ Step(c, "enable", "unmask")
  /\ localApicIds' = [localApicIds EXCEPT ![number[c]] = c]
  /\ UNCHANGED <<firmware, startVars, irqs, ipi, callback, callerCanReturn,
                 localApicTickSetting, runVars, tables, deviceVars>>

ApUnmask(c) ==
  /\ Step(c, "unmask", "call")
  /\ irqs' = [irqs EXCEPT ![c] = TRUE]
  /\ UNCHANGED <<firmware, startVars, localApicIds, ipi, callback, callerCanReturn,
                 localApicTickSetting, runVars, tables, deviceVars>>

\* runOn(cpuNumber - 1, otherCpuCode): nobody else calls that CPU yet.  A CPU
\* whose local APIC is not enabled drops the interrupt.
ApCall(c) ==
  LET n == number[c] - 1 IN
  /\ Step(c, "call", "wait")
  /\ irqs' = [irqs EXCEPT ![c] = FALSE]
  /\ callback' = [callback EXCEPT ![n] = c]
  /\ callerCanReturn' = [callerCanReturn EXCEPT ![n] = FALSE]
  /\ ipi' = ipi \cup ({localApicIds[n]} \cap {d \in Cpus : pc[d] \notin {"off", "reset", "trampoline", "enable"}})
  /\ UNCHANGED <<firmware, startVars, localApicIds,
                 localApicTickSetting, runVars, tables, deviceVars>>

ApReturn(c) ==
  LET n == number[c] - 1 IN
  /\ Step(c, "wait", "ticks")
  /\ callerCanReturn[n]
  /\ callback' = [callback EXCEPT ![n] = Null]
  /\ irqs' = [irqs EXCEPT ![c] = TRUE]
  /\ UNCHANGED <<firmware, startVars, localApicIds, ipi, callerCanReturn,
                 localApicTickSetting, runVars, tables, deviceVars>>

\* while (localApicTickSetting == 0), setUpTimer()
ApTimer(c) ==
  /\ Step(c, "ticks", "arrive")
  /\ localApicTickSetting
  /\ UNCHANGED <<firmware, startVars, callVars, localApicTickSetting, runVars, tables, deviceVars>>

\* The interrupt: receiveCall(), and otherCpuCode's letCallerReturn().
ReceiveCall(c) ==
  /\ c \in ipi /\ irqs[c]
  /\ ipi' = ipi \ {c}
  /\ callerCanReturn' = [callerCanReturn EXCEPT
                           ![number[c]] = @ \/ callback[number[c]] # Null]
  /\ UNCHANGED <<firmware, pc, startVars, localApicIds, irqs, callback,
                 localApicTickSetting, runVars, tables, deviceVars>>

ApStep(c) ==
  \/ CountSelf(c) \/ ApEnable(c) \/ ApUnmask(c) \/ ApCall(c) \/ ApReturn(c) \/ ApTimer(c)
-----------------------------------------------------------------------------
(* kRun(): every CPU *)

Arrive(c) ==
  /\ Step(c, "arrive", "gather")
  /\ numCpusWithInitialTasks' = numCpusWithInitialTasks + 1
  /\ UNCHANGED <<firmware, startVars, callVars, localApicTickSetting,
                 numCpusDone, hardwareInitLock, otherThreadDone, tables, deviceVars>>

\* The first barrier, and thread::create(otherThreadFunction).
CreateOther(c) ==
  /\ Step(c, "gather", "other")
  /\ numCpusWithInitialTasks >= N
  /\ UNCHANGED <<firmware, startVars, callVars, localApicTickSetting, runVars, tables, deviceVars>>

\* The created thread, on whichever CPU the scheduler chose.
OtherThread(c) ==
  /\ pc[c] = "other" /\ ~otherThreadDone[c]
  /\ otherThreadDone' = [otherThreadDone EXCEPT ![c] = TRUE]
  /\ UNCHANGED <<firmware, pc, startVars, callVars, localApicTickSetting,
                 numCpusWithInitialTasks, numCpusDone, hardwareInitLock, tables, deviceVars>>

Finish(c) ==
  /\ Step(c, "other", "meet")
  /\ otherThreadDone[c]
  /\ numCpusDone' = numCpusDone + 1
  /\ UNCHANGED <<firmware, startVars, callVars, localApicTickSetting,
                 numCpusWithInitialTasks, hardwareInitLock, otherThreadDone, tables, deviceVars>>

\* Mutant: the two barriers share a counter.
MeetSameCounter(c) ==
  /\ Step(c, "meet", "race")
  /\ numCpusWithInitialTasks >= N
  /\ UNCHANGED <<firmware, startVars, callVars, localApicTickSetting, runVars, tables, deviceVars>>

\* The second barrier.
Meet(c) ==
  /\ Step(c, "meet", "race")
  /\ numCpusDone >= N
  /\ UNCHANGED <<firmware, startVars, callVars, localApicTickSetting, runVars, tables, deviceVars>>

\* The compare and swap of hardwareInitLock; who loses goes to destroy().
Race(c) ==
  /\ Step(c, "race", IF hardwareInitLock THEN "dead" ELSE "hardware")
  /\ hardwareInitLock' = TRUE
  /\ UNCHANGED <<firmware, startVars, callVars, localApicTickSetting,
                 numCpusWithInitialTasks, numCpusDone, otherThreadDone, tables, deviceVars>>

\* loadRootDevice() begins ...
LoadRootDevice(c) ==
  /\ Step(c, "hardware", "loading")
  /\ LoadRoot
  /\ UNCHANGED <<firmware, startVars, callVars, localApicTickSetting, runVars>>

\* ... and returns.  The initramfs is mounted and read (module Vfs), and the
\* task destroys itself.
RootLoaded(c) ==
  /\ Step(c, "loading", "dead")
  /\ dpc[<<>>] = "done"
  /\ UNCHANGED <<firmware, startVars, callVars, localApicTickSetting, runVars, tables, deviceVars>>

RunStep(c) ==
  \/ Arrive(c) \/ CreateOther(c) \/ OtherThread(c) \/ Finish(c) \/ Meet(c) \/ Race(c)
  \/ LoadRootDevice(c) \/ RootLoaded(c)

Devs ==
  /\ DeviceStep
  /\ UNCHANGED <<firmware, pc, startVars, callVars, localApicTickSetting, runVars>>

Next ==
  \/ BspStep \/ StartTimeout
  \/ \E c \in Cpus : ApStep(c) \/ ReceiveCall(c) \/ RunStep(c)
  \/ Devs

Spec == Init /\ [][Next]_vars
\* Every CPU runs its code and takes its interrupts, and threads get to run
\* (Threads: QueuedRuns).  A CPU is never obliged to be late.
Fairness ==
  /\ WF_vars(BspStep) /\ WF_vars(Devs) /\ WF_vars(StartTimeout)
  /\ \A c \in Cpus : WF_vars(ApStep(c)) /\ WF_vars(ReceiveCall(c)) /\ WF_vars(RunStep(c))

FairSpec == Spec /\ Fairness
-----------------------------------------------------------------------------
Panicked == pc[bsp] = "panic"
\* The CPUs that have got a number from the trampoline, and the one that had one.
Counted == {c \in Cpus : pc[c] \notin {"off", "reset", "trampoline"}}

TypeOK ==
  /\ pc \in [Cpus -> {"acpi", "copy", "next", "init", "sipi", "again", "poll", "number", "irqs",
                      "root", "panic", "off", "reset", "trampoline", "enable", "unmask", "call",
                      "wait", "ticks", "arrive", "gather", "other", "meet", "race", "hardware",
                      "loading", "dead"}]
  /\ i \in 0 .. N /\ previous \in 0 .. N /\ runningCpus \in 1 .. N
  /\ trampoline \in BOOLEAN
  /\ number \in [Cpus -> Numbers] /\ stack \in [Cpus -> Numbers]
  /\ \A n \in DOMAIN initialTask : n \in Numbers /\ initialTask[n] \in Numbers
  /\ localApicIds \in [Numbers -> Cpus \cup {0}]
  /\ irqs \in [Cpus -> BOOLEAN] /\ ipi \subseteq Cpus
  /\ callback \in [Numbers -> Cpus \cup {Null}] /\ callerCanReturn \in [Numbers -> BOOLEAN]
  /\ localApicTickSetting \in BOOLEAN
  /\ numCpusWithInitialTasks \in 0 .. N /\ numCpusDone \in 0 .. N
  /\ hardwareInitLock \in BOOLEAN /\ otherThreadDone \in [Cpus -> BOOLEAN]

\* The count that a CPU takes in the trampoline and the number that kstart()
\* gave the scheduler agree: CPUs have different numbers, each has a scheduler
\* with a first task before it runs, and its mailbox leads to it, although a
\* late CPU counts itself at any time (startup.cpp:145-147, bootstrap.S:211).
\* If the MADT lists the bootstrap processor first, whose index is used as a
\* CPU number, a CPU's first task owns the stack that the CPU runs on, so that
\* destroying it frees no other CPU's stack (startup.cpp:144, bootstrap.S:222).
NumbersMatch ==
  /\ TypeOK
  /\ \A c \in Counted :
       /\ number[c] \in DOMAIN initialTask
       /\ \A d \in Counted : number[c] = number[d] => c = d
       /\ pc[c] \notin {"enable"} /\ c # bsp => localApicIds[number[c]] = c
       /\ madt[1] = bsp => initialTask[number[c]] = stack[c]

\* No CPU executes the copy in low memory when kstart() overwrites it
\* (startup.cpp:156): whoever still needs it has not been counted.
TrampolineIntact == \A c \in Cpus : pc[c] = "trampoline" => trampoline

\* The devices are loaded by one CPU, after every CPU has run a second thread:
\* nobody is still on its way through the start-up code (startup.cpp:213-237).
LoaderAlone ==
  \A c \in Cpus : pc[c] \in {"hardware", "loading"} =>
    \A d \in Cpus \ {c} : otherThreadDone[d] /\ pc[d] \in {"meet", "race", "dead"}

\* A call went astray: runOn() used localApicIds before its target had stored
\* its id there, so that the interrupt went to APIC id 0 and the caller spins
\* for ever.  CPU 1 does so if the MADT lists it before the bootstrap processor,
\* CPU n + 1 if it overtakes CPU n, which was counted before it stored its id.
Astray ==
  \E c, d \in Counted :
    /\ pc[c] = "wait" /\ d # c /\ number[d] = number[c] - 1
    /\ d \notin ipi /\ ~callerCanReturn[number[d]]

\* A device's load has left its mappings (see TreeIsWhole).
Outside == \E d \in DOMAIN dpc : dpc[d] = "outside"

\* The start-up comes to its end, unless a call goes astray or a device's load
\* leaves its mappings: the kernel panics, or the devices are loaded and every
\* CPU's first task is gone.  No two CPUs wait for each other in the chain of
\* calls, the wait for the timer setting, the barriers and the completions
\* (startup.cpp:139-254).
BootCompletes ==
  <>(Panicked \/ Astray \/ Outside \/ (<<>> \in completed /\ \A c \in Cpus : pc[c] = "dead"))
=============================================================================
