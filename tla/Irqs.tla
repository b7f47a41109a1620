-------------------------------- MODULE Irqs --------------------------------
(***************************************************************************)
(* Device interrupts: the I/O APICs (apic.cpp), the table of handlers and  *)
(* its registration (interruptHandlers.cpp, irq.h), and what CPU 0, where  *)
(* all device interrupts go, does with an interrupt and its end.  kstart() *)
(* sets the I/O APICs and the timer up; then threads register handlers     *)
(* while interrupts come in.  Nothing of this has a lock.                  *)
(***************************************************************************)
EXTENDS ApicTimer, Bitwise, Sequences, FiniteSets, FiniteSetsExt, SequencesExt

CONSTANTS None,
          Threads,      \* threads that register handlers
          Local,        \* the one of them that runs on CPU 0
          Machines,     \* what the firmware may have found; see below
          MAX_IO_APICS,
          Pins,         \* Pins[a]: the inputs of the I/O APIC at address a
          IO_APIC_INTERRUPT_BASE, APIC_TIMER_INTERRUPT, PROCESSOR_CALLBACK_INTERRUPT,
          LOCAL_APIC_SPURIOUS_INTERRUPT_VECTOR, Vectors, MAX_IRQ_SHARING

VARIABLES machine,      \* the wiring (each device's class, irq and trigger), the madt, numCpus,
                        \* CPU 0's apicId, a leftover vector in the I/O APICs; never changes
          ioApics,      \* the I/O APICs: [base, gsiBase, gsiCount]
          entry,        \* the redirection entries, by I/O APIC and input
          irqHandlers,  \* vector -> slots [handler, context]
          job, step, value, slot,  \* registerIrqHandler(): device, step and locals of a thread
          registered,   \* history: the devices whose registration has returned
          dropped,      \* history: those that found no slot
          raced,        \* history: two registrations used a register or a slot at a time
          missed,       \* history: devices whose request was handled before their registration had returned
          asking,       \* the devices that want to be served
          irr, isr,     \* CPU 0's local APIC: vectors requested, and in service
          remote,       \* level-triggered inputs that wait for an end of interrupt
          mode, irqs,   \* where CPU 0 is, and its interrupt flag
          vector, i     \* handleInterrupt(): its interruptNumber, and its loop

ioVars == <<ioApics, entry>>
registrationVars == <<irqHandlers, job, step, value, slot, registered, dropped, raced>>
deviceVars == <<missed, asking, irr, isr, remote>>
cpuVars == <<mode, irqs, vector, i>>
vars == <<machine, boot, timerVars, ioVars, registrationVars, deviceVars, cpuVars>>

Devices == DOMAIN machine.wiring
Addresses == DOMAIN Pins
Inputs == {<<a, n>> : a \in Addresses, n \in 0 .. Max({Pins[a] : a \in Addresses})}
NoHandler == [handler |-> None, context |-> None]

Init ==
  /\ TimerInit
  /\ machine \in Machines
  /\ ioApics = <<>>
  /\ entry = [n \in Inputs |-> [vector |-> machine.leftover, level |-> FALSE, masked |-> TRUE, target |-> 0]]
  /\ irqHandlers = [v \in 0 .. Vectors - 1 |-> [k \in 1 .. MAX_IRQ_SHARING |-> NoHandler]]
  /\ job = [t \in Threads |-> None] /\ step = [t \in Threads |-> 1]
  /\ value = [t \in Threads |-> None] /\ slot = [t \in Threads |-> 0]
  /\ registered = {} /\ dropped = {} /\ raced = FALSE /\ missed = {} /\ asking = {}
  /\ irr = {} /\ isr = {} /\ remote = {}
  /\ mode = "thread" /\ irqs = FALSE /\ vector = 0 /\ i = 1
-----------------------------------------------------------------------------
(* kstart() *)

\* MadtTableManager(header): the I/O APICs, as many as fit.
IoApicDescriptors(entries) ==
  LET found == SelectSeq(entries, LAMBDA e : e.type = "IO_APIC")
  IN  SubSeq(found, 1, Min({Len(found), MAX_IO_APICS}))

\* Every descriptor must begin where the one before it ends, or kpanic().
InitIoApics ==
  LET descriptors == IoApicDescriptors(machine.madt)
      next[k \in 0 .. Len(descriptors)] ==
        IF k = 0 THEN 0 ELSE next[k - 1] + Pins[descriptors[k].address]
      contiguous == \A k \in DOMAIN descriptors : descriptors[k].gsiBase = next[k - 1]
  IN  /\ BootStep("ioApics", IF contiguous THEN "timer" ELSE "panic")
      /\ ioApics' = [k \in DOMAIN descriptors |->
                       [base |-> descriptors[k].address, gsiBase |-> descriptors[k].gsiBase,
                        gsiCount |-> Pins[descriptors[k].address]]]
      /\ UNCHANGED <<machine, timerVars, entry, registrationVars, deviceVars, cpuVars>>

EnableLocalIrqs ==
  /\ BootStep("enable", "setUp")
  /\ irqs' = TRUE
  /\ UNCHANGED <<machine, timerVars, ioVars, registrationVars, deviceVars, mode, vector, i>>

TimerStep == HpetReset \/ StartTimer \/ StopTimer \/ MaskAllInternal \/ SetUpTimer

\* Only with several CPUs does kstart() note the APIC id of its own.
localApicId0 == IF machine.numCpus > 1 THEN machine.apicId ELSE 0
-----------------------------------------------------------------------------
(* registerIrqHandler() *)

\* Mutant: one GSI too many.
FindIoApicInclusive(gsi) ==
  LET found == {k \in DOMAIN ioApics : gsi \in ioApics[k].gsiBase .. ioApics[k].gsiBase + ioApics[k].gsiCount}
  IN  IF found = {} THEN 0 ELSE Min(found)

\* The loops of mapIoApicInterrupt(), maskIoApicInterrupt() and
\* unmaskIoApicInterrupt(): the first I/O APIC that has the GSI.
FindIoApic(gsi) ==
  LET found == {k \in DOMAIN ioApics :
                  gsi >= ioApics[k].gsiBase /\ gsi < ioApics[k].gsiBase + ioApics[k].gsiCount}
  IN  IF found = {} THEN 0 ELSE Min(found)

getGsiCount == FoldLeft(LAMBDA n, a : n + a.gsiCount, 0, ioApics)

Vector(d) ==
  machine.wiring[d].irq + (CASE machine.wiring[d].class = "STANDARD" -> IO_APIC_INTERRUPT_BASE
                     [] machine.wiring[d].class = "LOCAL_INTERRUPT" -> 0
                     [] machine.wiring[d].class = "MSI" -> IO_APIC_INTERRUPT_BASE + getGsiCount)

IoApicOf(d) == ioApics[FindIoApic(machine.wiring[d].irq)]
InputOf(d) == <<IoApicOf(d).base, machine.wiring[d].irq - IoApicOf(d).gsiBase>>

\* mapGsi() and unmaskGsi(), then the slot is looked for and filled.
Program == <<"read", "map", "target", "read", "unmask", "scan", "handler", "context">>
Accesses == 1 .. 5

Does(t, what) == job[t] # None /\ Program[step[t]] = what /\ (t = Local => mode = "thread")
Advance(t) == step' = [step EXCEPT ![t] = @ + 1]

Register(t, d) ==
  /\ boot = "done" /\ job[t] = None /\ (t = Local => mode = "thread")
  /\ d \notin registered \cup dropped /\ \A u \in Threads : job[u] # d
  /\ job' = [job EXCEPT ![t] = d]
  /\ step' = [step EXCEPT ![t] = IF machine.wiring[d].class = "STANDARD" THEN 1 ELSE Max(Accesses) + 1]
  /\ UNCHANGED <<machine, boot, timerVars, ioVars, irqHandlers, value, slot, registered, dropped, raced,
                 deviceVars, cpuVars>>

\* mapGsi(): vector (a uint8_t) and trigger are or-ed into the entry as read.
MapGsi(read, d) ==
  [read EXCEPT !.vector = @ | (Vector(d) % Vectors), !.level = @ \/ machine.wiring[d].level]

\* One access to a register of an I/O APIC, through its index and its window
\* register.  What two threads do there at a time is not described.  A GSI
\* that no I/O APIC has ends in kpanic(): the thread gets no further.
AccessRegister(t) ==
  LET input == InputOf(job[t])
      Low(low) == [low EXCEPT !.target = entry[input].target]
  IN  /\ job[t] # None /\ step[t] \in Accesses /\ FindIoApic(machine.wiring[job[t]].irq) # 0
      /\ \/ /\ Does(t, "read")
            /\ value' = [value EXCEPT ![t] = entry[input]]
            /\ UNCHANGED entry
         \/ /\ Does(t, "map")
            /\ entry' = [entry EXCEPT ![input] = Low(MapGsi(value[t], job[t]))]
            /\ UNCHANGED value
         \/ /\ Does(t, "target")
            /\ entry' = [entry EXCEPT ![input].target = localApicId0]
            /\ UNCHANGED value
         \/ /\ Does(t, "unmask")
            /\ entry' = [entry EXCEPT ![input] = Low([value[t] EXCEPT !.masked = FALSE])]
            /\ UNCHANGED value
      /\ raced' = (raced \/ \E u \in Threads \ {t} : /\ job[u] # None /\ step[u] \in Accesses \ {1}
                                                     /\ InputOf(job[u])[1] = input[1])
      /\ Advance(t)
      /\ UNCHANGED <<machine, boot, timerVars, ioApics, irqHandlers, job, slot, registered, dropped,
                     deviceVars, cpuVars>>

\* An irq out of range ends in kpanic(); with all slots taken the loop ends,
\* and the caller is not told.
FindSlot(t) ==
  /\ Does(t, "scan") /\ Vector(job[t]) < Vectors
  /\ LET free == {k \in 1 .. MAX_IRQ_SHARING : irqHandlers[Vector(job[t])][k].handler = None}
     IN  IF free # {}
         THEN /\ slot' = [slot EXCEPT ![t] = Min(free)]
              /\ Advance(t)
              /\ UNCHANGED <<job, dropped>>
         ELSE /\ dropped' = dropped \cup {job[t]}
              /\ job' = [job EXCEPT ![t] = None] /\ step' = [step EXCEPT ![t] = 1]
              /\ UNCHANGED slot
  /\ value' = [value EXCEPT ![t] = None]
  /\ UNCHANGED <<machine, boot, timerVars, ioVars, irqHandlers, registered, raced, deviceVars, cpuVars>>

StoreHandler(t) ==
  /\ Does(t, "handler")
  /\ raced' = (raced \/ irqHandlers[Vector(job[t])][slot[t]].handler # None)
  /\ irqHandlers' = [irqHandlers EXCEPT ![Vector(job[t])][slot[t]].handler = job[t]]
  /\ Advance(t)
  /\ UNCHANGED <<machine, boot, timerVars, ioVars, job, value, slot, registered, dropped, deviceVars, cpuVars>>

StoreContext(t) ==
  /\ Does(t, "context")
  /\ irqHandlers' = [irqHandlers EXCEPT ![Vector(job[t])][slot[t]].context = job[t]]
  /\ registered' = registered \cup {job[t]}
  /\ job' = [job EXCEPT ![t] = None] /\ step' = [step EXCEPT ![t] = 1]
  /\ slot' = [slot EXCEPT ![t] = 0]
  /\ UNCHANGED <<machine, boot, timerVars, ioVars, value, dropped, raced, deviceVars, cpuVars>>

RegisterStep(t) == AccessRegister(t) \/ FindSlot(t) \/ StoreHandler(t) \/ StoreContext(t)
-----------------------------------------------------------------------------
(* The devices and the interrupt controllers *)

Reaches(input) == ~entry[input].masked /\ entry[input].target = machine.apicId

\* A device asks to be served.  An edge or a message is sent once, and not
\* before the device's driver has come up.
Ask(d) ==
  /\ boot = "done" /\ d \notin asking
  /\ machine.wiring[d].level \/ d \in registered \/ \E t \in Threads : job[t] = d
  /\ machine.wiring[d].class = "STANDARD" => FindIoApic(machine.wiring[d].irq) # 0
  /\ Vector(d) < Vectors
  /\ asking' = asking \cup {d}
  /\ IF machine.wiring[d].level THEN UNCHANGED <<irr, missed>>
     ELSE IF machine.wiring[d].class # "STANDARD" THEN irr' = irr \cup {Vector(d)} /\ UNCHANGED missed
     ELSE IF Reaches(InputOf(d)) THEN irr' = irr \cup {entry[InputOf(d)].vector} /\ UNCHANGED missed
     ELSE missed' = missed \cup {d} /\ UNCHANGED irr
  /\ UNCHANGED <<machine, boot, timerVars, ioVars, registrationVars, isr, remote, cpuVars>>

\* A level-triggered input is sent again after each end of interrupt, as long
\* as a device asks.
SendLevel(d) ==
  /\ d \in asking /\ machine.wiring[d].level
  /\ Reaches(InputOf(d)) /\ InputOf(d) \notin remote
  /\ irr' = irr \cup {entry[InputOf(d)].vector}
  /\ remote' = remote \cup {InputOf(d)}
  /\ UNCHANGED <<machine, boot, timerVars, ioVars, registrationVars, missed, asking, isr, cpuVars>>

Own == {APIC_TIMER_INTERRUPT, PROCESSOR_CALLBACK_INTERRUPT}

\* The timer fires, or another CPU calls.
OwnInterrupt ==
  /\ boot = "done" /\ ~timerMasked /\ irr \cap Own = {}
  /\ \E v \in Own : irr' = irr \cup {v}
  /\ UNCHANGED <<machine, boot, timerVars, ioVars, registrationVars, missed, asking, isr, remote, cpuVars>>

\* The end-of-interrupt register.
Eoi ==
  IF isr = {} THEN UNCHANGED <<isr, remote>>
  ELSE /\ isr' = isr \ {Max(isr)}
       /\ remote' = {n \in remote : entry[n].vector # Max(isr)}
-----------------------------------------------------------------------------
(* CPU 0.  The gates of vectors from 32 on are interrupt gates. *)

Interrupt ==
  /\ mode = "thread" /\ irqs /\ irr # {}
  /\ \A v \in isr : v < Max(irr)
  /\ vector' = Max(irr) /\ irr' = irr \ {Max(irr)} /\ isr' = isr \cup {Max(irr)}
  /\ irqs' = FALSE /\ i' = 1
  /\ mode' = IF Max(irr) \in Own THEN "own" ELSE "handlers"
  /\ missed' = missed \cup {d \in asking \ registered : Vector(d) = Max(irr) /\ ~machine.wiring[d].level}
  /\ UNCHANGED <<machine, boot, timerVars, ioVars, registrationVars, asking, remote>>

SpuriousInterrupt ==
  /\ boot = "done" /\ mode = "thread" /\ irqs
  /\ vector' = LOCAL_APIC_SPURIOUS_INTERRUPT_VECTOR
  /\ irqs' = FALSE /\ i' = 1 /\ mode' = "handlers"
  /\ UNCHANGED <<machine, boot, timerVars, ioVars, registrationVars, deviceVars>>

\* Mutant: tick() and receiveCall() come before the end of interrupt.
OwnEoiLate ==
  /\ mode = "own" /\ mode' = "tick"
  /\ UNCHANGED <<machine, boot, timerVars, ioVars, registrationVars, missed, asking, irr, isr, remote, irqs,
                 vector, i>>

\* The timer's and the callback's case: first the end of the interrupt,
OwnEoi ==
  /\ mode = "own" /\ mode' = "tick"
  /\ Eoi
  /\ UNCHANGED <<machine, boot, timerVars, ioVars, registrationVars, missed, asking, irr, irqs, vector, i>>

\* then tick() or receiveCall(), which may go on with another thread.
TickOrCall ==
  /\ mode = "tick" /\ mode' = "thread" /\ irqs' = TRUE /\ vector' = 0
  /\ UNCHANGED <<machine, boot, timerVars, ioVars, registrationVars, deviceVars, i>>

AtHandler == i <= MAX_IRQ_SHARING /\ irqHandlers[vector][i].handler # None

\* A handler that gets its context serves its device.
CallHandler ==
  /\ mode = "handlers" /\ AtHandler
  /\ LET entered == irqHandlers[vector][i]
         served == {entered.handler} \cap {entered.context}
     IN  asking' = asking \ served /\ missed' = missed \ served
  /\ i' = i + 1
  /\ UNCHANGED <<machine, boot, timerVars, ioVars, registrationVars, irr, isr, remote, mode, irqs,
                 vector>>

\* Mutant: the test for an interrupt in service is the wrong way round.
EndHandlersInverted ==
  /\ mode = "handlers" /\ ~AtHandler
  /\ mode' = "thread" /\ irqs' = TRUE
  /\ IF vector \notin isr THEN Eoi ELSE UNCHANGED <<isr, remote>>
  /\ vector' = 0 /\ i' = 1
  /\ UNCHANGED <<machine, boot, timerVars, ioVars, registrationVars, missed, asking, irr>>

\* The default case ends with an end of interrupt if there is one to end.
EndHandlers ==
  /\ mode = "handlers" /\ ~AtHandler
  /\ mode' = "thread" /\ irqs' = TRUE
  /\ IF vector \in isr THEN Eoi ELSE UNCHANGED <<isr, remote>>
  /\ vector' = 0 /\ i' = 1
  /\ UNCHANGED <<machine, boot, timerVars, ioVars, registrationVars, missed, asking, irr>>

SetIrqs(enabled) ==
  /\ boot = "done" /\ mode = "thread" /\ irqs = ~enabled /\ irqs' = enabled
  /\ UNCHANGED <<machine, boot, timerVars, ioVars, registrationVars, deviceVars, mode, vector, i>>

HandlerStep == OwnEoi \/ TickOrCall \/ CallHandler \/ EndHandlers
Unchanged == UNCHANGED <<machine, ioVars, registrationVars, deviceVars, cpuVars>>
\* The end of the wait may be noticed late; this is followed where no device is.
Tick == HpetTick /\ (boot = "wait" /\ WaitOver => Devices = {}) /\ Unchanged
BootSteps == InitIoApics \/ EnableLocalIrqs \/ (TimerStep /\ Unchanged)

\* A race between two registrations is the end of what is described.
Next ==
  /\ ~raced
  /\ \/ BootSteps \/ Tick
     \/ \E t \in Threads : RegisterStep(t) \/ \E d \in Devices : Register(t, d)
     \/ \E d \in Devices : Ask(d) \/ SendLevel(d)
     \/ OwnInterrupt \/ Interrupt \/ SpuriousInterrupt \/ HandlerStep
     \/ \E enabled \in BOOLEAN : SetIrqs(enabled)

Spec == Init /\ [][Next]_vars

\* Time passes, and kstart() goes on.
FairSpec == Spec /\ WF_vars(BootSteps) /\ WF_vars(Tick)
-----------------------------------------------------------------------------
\* A thread never runs while an interrupt is in service on its CPU: tick() and
\* receiveCall() may switch to another thread, and vectors up to the one in
\* service, the timer's among them, would be held back until the switch back
\* (interruptHandlers.cpp:73,78,90).
NothingLeftInService == mode = "thread" => isr = {}

\* An input that is not masked sends the vector of its GSI to CPU 0, and was
\* asked for: the GSI is that of the I/O APIC whose range it lies in.  Not so
\* if the firmware left a vector in the entry, into which mapGsi() or-s its
\* own, nor with a single CPU whose APIC id is not 0 (startup.cpp:153).
UnmaskedInputsRoute ==
  /\ machine.leftover = 0
  /\ machine.numCpus > 1 \/ machine.apicId = 0
  /\ ~raced
  => \A n \in Inputs : ~entry[n].masked =>
       /\ n[2] < Pins[n[1]] /\ entry[n].target = machine.apicId
       /\ \E d \in Devices : /\ machine.wiring[d].class = "STANDARD"
                             /\ d \in registered \cup dropped \/ \E t \in Threads : job[t] = d
                             /\ entry[n].vector = machine.wiring[d].irq + IO_APIC_INTERRUPT_BASE
                             /\ machine.wiring[d].irq = n[2] + FoldSet(LAMBDA a, b : Pins[a] + b, 0, {a \in Addresses : a < n[1]})

\* No request is forgotten: the interrupt of a device that asks and whose
\* registration has returned is pending, its handler is yet to be called, or
\* its input sends again once this interrupt has ended.  Left out are edges and
\* messages that were handled between unmaskIoApicInterrupt() and the return
\* (interruptHandlers.cpp:46), vectors that run into the kernel's own, and
\* entries as in UnmaskedInputsRoute.
NoRequestForgotten ==
  \A d \in (asking \cap registered) \ missed :
    LET inHandlers == mode = "handlers" /\ vector = Vector(d) IN
    \/ Vector(d) \in irr
    \/ inHandlers /\ \E k \in i .. MAX_IRQ_SHARING : irqHandlers[vector][k] = [handler |-> d, context |-> d]
    \/ machine.wiring[d].level /\ Reaches(InputOf(d)) /\ (InputOf(d) \in remote => inHandlers)
    \/ Vector(d) \in Own \/ raced
    \/ machine.leftover # 0 \/ (machine.numCpus = 1 /\ machine.apicId # 0)
=============================================================================
