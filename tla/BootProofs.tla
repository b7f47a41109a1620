----------------------------- MODULE BootProofs -----------------------------
(***************************************************************************)
(* The start-up of the machine, for every number of CPUs and every order   *)
(* of the MADT: the CPUs are started one at a time, get numbers, stacks    *)
(* and mailboxes that match, leave the trampoline before it is overwritten *)
(* and meet twice before one of them loads the devices.                    *)
(***************************************************************************)
EXTENDS Boot, TLAPS, FiniteSetTheorems

Met == {"meet", "race", "hardware", "loading", "dead"}
Arriving == {"gather", "other"} \cup Met
KRunLabels == {"arrive"} \cup Arriving
LateLabels == {"unmask", "call", "wait", "ticks"} \cup KRunLabels
ApLabels == {"off", "reset", "trampoline", "enable"} \cup LateLabels
BspLabels == {"acpi", "copy", "next", "init", "sipi", "again", "poll", "number", "irqs", "root",
              "panic"} \cup KRunLabels

\* The CPUs that have added themselves to the first and to the second counter
\* of kRun().
Arrived == {c \in Cpus : pc[c] \in Arriving}
Done == {c \in Cpus : pc[c] \in Met}

\* The MADT lists every CPU once; which code a CPU can be in.
Shape ==
  /\ bsp \in Cpus
  /\ madt \in [1 .. N -> Cpus] /\ \A c \in Cpus : \E k \in 1 .. N : madt[k] = c
  /\ \A j, k \in 1 .. N : madt[j] = madt[k] => j = k
  /\ pc \in [Cpus -> ApLabels \cup BspLabels]
  /\ pc[bsp] \in BspLabels /\ \A c \in Aps : pc[c] \in ApLabels

Calls ==
  /\ localApicIds \in [Numbers -> Cpus \cup {0}]
  /\ irqs \in [Cpus -> BOOLEAN] /\ ipi \subseteq Cpus
  /\ callback \in [Numbers -> Cpus \cup {Null}] /\ callerCanReturn \in [Numbers -> BOOLEAN]
  /\ localApicTickSetting \in BOOLEAN

Starting == pc[bsp] \in {"init", "sipi", "again", "poll"}

\* The CPUs are started one after the other: those listed before madt[i + 1]
\* are counted, those after it are off, and only madt[i + 1] is in between.
Chain ==
  /\ i \in 0 .. N /\ previous \in Numbers
  /\ pc[bsp] \in {"acpi", "copy"} => i = 0
  /\ Starting => i < N /\ madt[i + 1] # bsp
  /\ \A k \in 1 .. N : madt[k] # bsp =>
       /\ k <= i => madt[k] \in Counted
       /\ k > i + 1 => pc[madt[k]] = "off"
       /\ k = i + 1 /\ pc[bsp] \in {"acpi", "copy", "next", "init"} => pc[madt[k]] = "off"
       /\ k = i + 1 /\ pc[bsp] \in {"sipi", "again", "poll"} => pc[madt[k]] # "off"
  /\ \A c \in Cpus : pc[c] \in {"reset", "trampoline"} =>
       pc[bsp] \in {"sipi", "again", "poll", "panic"} /\ trampoline /\ runningCpus = previous
  /\ trampoline \in BOOLEAN /\ (pc[bsp] = "next" \/ Starting => trampoline)
  /\ runningCpus \in {previous, previous + 1}
  /\ pc[bsp] = "init" => runningCpus = previous
  /\ pc[bsp] \in {"acpi", "copy", "next"} => runningCpus = previous + 1

\* runningCpus counts the CPUs that have a number; the numbers are below it.
Names ==
  /\ runningCpus = Cardinality(Counted)
  /\ number \in [Cpus -> Numbers] /\ number[bsp] = 0
  /\ \A c \in Counted : number[c] < runningCpus /\ (c # bsp => number[c] > 0)
  /\ \A c, d \in Counted : number[c] = number[d] => c = d
  /\ stack \in [Cpus -> Numbers]
  /\ \A c \in Counted : stack[c] = getInitialStackPointer(number[c])

\* The mailbox of a CPU that has stored its id leads to it.
Ids == \A c \in Aps : pc[c] \in LateLabels => localApicIds[number[c]] = c

\* The first tasks, by scheduler number.
FirstTasks ==
  /\ DOMAIN initialTask = 0 .. previous
  /\ \A n \in 0 .. previous : initialTask[n] \in Numbers
  /\ madt[1] = bsp =>
       /\ \A n \in 0 .. previous : initialTask[n] = getInitialStackPointer(n)
       /\ pc[bsp] \in {"acpi", "copy", "next"} => runningCpus = IF i = 0 THEN 1 ELSE i
       /\ Starting => previous = i /\ i >= 1

\* The two barriers count the CPUs that have come to them.
Counts == numCpusWithInitialTasks = Cardinality(Arrived) /\ numCpusDone = Cardinality(Done)

\* Who has passed the second barrier knows that every CPU has come to it, and
\* the compare and swap lets one of them through.
Passed ==
  /\ hardwareInitLock \in BOOLEAN /\ otherThreadDone \in [Cpus -> BOOLEAN]
  /\ \A c \in Cpus : pc[c] \in Met => otherThreadDone[c]
  /\ \A c, d \in Cpus : pc[c] \in Met \ {"meet"} => pc[d] \in Met
  /\ \A c \in Cpus : pc[c] \in {"hardware", "loading"} => hardwareInitLock
  /\ \A c, d \in Cpus : {pc[c], pc[d]} \subseteq {"hardware", "loading"} => c = d

BootInv == Shape /\ Calls /\ Chain /\ Names /\ Ids /\ FirstTasks /\ Counts /\ Passed
-----------------------------------------------------------------------------
(* Two views of the steps *)

\* A step of a CPU that has its number and has stored its id.
Late(c) ==
  /\ UNCHANGED <<firmware, startVars, localApicIds>>
  /\ \/ UNCHANGED pc
     \/ /\ {pc[c], pc'[c]} \subseteq LateLabels /\ (pc[c] \in KRunLabels => pc'[c] \in KRunLabels)
        /\ pc' = [pc EXCEPT ![c] = pc'[c]]

\* A step outside of kRun().
Early ==
  /\ UNCHANGED runVars
  /\ \A c \in Cpus : pc'[c] = pc[c] \/ (pc[c] \notin Arriving /\ pc'[c] \notin Arriving)

\* N is a natural number.
LEMMA NIsNat == N \in Nat
  BY Zenon, BootAssumption, FS_CardinalityType DEF N

\* What a CPU does once its number and its id are known.
LEMMA LateSteps ==
  ASSUME Shape
  PROVE  /\ \A c \in Cpus : ApUnmask(c) \/ ApCall(c) \/ ApReturn(c) \/ ApTimer(c) => Late(c)
         /\ \A c \in Cpus : ReceiveCall(c) \/ RunStep(c) => Late(c)
         /\ Devs => Late(bsp) /\ bsp \in Cpus
<1> pc \in [Cpus -> ApLabels \cup BspLabels]
  BY DEF Shape
<1> USE DEF Late, Step, callVars, LateLabels, KRunLabels, Arriving, Met
<1>1. \A c \in Cpus : ApUnmask(c) => Late(c)
  BY DEF ApUnmask
<1>2. \A c \in Cpus : ApCall(c) => Late(c)
  BY DEF ApCall
<1>3. \A c \in Cpus : ApReturn(c) => Late(c)
  BY DEF ApReturn
<1>4. \A c \in Cpus : ApTimer(c) => Late(c)
  BY DEF ApTimer
<1>5. \A c \in Cpus : ReceiveCall(c) => Late(c)
  BY DEF ReceiveCall
<1>6. \A c \in Cpus : Arrive(c) => Late(c)
  BY DEF Arrive
<1>7. \A c \in Cpus : CreateOther(c) => Late(c)
  BY DEF CreateOther
<1>8. \A c \in Cpus : OtherThread(c) => Late(c)
  BY DEF OtherThread
<1>9. \A c \in Cpus : Finish(c) => Late(c)
  BY DEF Finish
<1>10. \A c \in Cpus : Meet(c) => Late(c)
  BY DEF Meet
<1>11. \A c \in Cpus : Race(c) => Late(c)
  BY DEF Race
<1>12. \A c \in Cpus : LoadRootDevice(c) => Late(c)
  BY DEF LoadRootDevice
<1>13. \A c \in Cpus : RootLoaded(c) => Late(c)
  BY DEF RootLoaded
<1>14. Devs => Late(bsp) /\ bsp \in Cpus
  BY DEF Devs, Shape
<1> HIDE DEF Late, Step, callVars, LateLabels, KRunLabels, Arriving, Met
<1> QED
  BY Zenon, <1>1, <1>2, <1>3, <1>4, <1>5, <1>6, <1>7, <1>8, <1>9, <1>10, <1>11, <1>12, <1>13,
     <1>14 DEF RunStep

\* What leaves the barriers alone.
LEMMA EarlySteps ==
  ASSUME Shape, Chain
  PROVE  /\ BspStep \/ StartTimeout \/ Devs => Early
         /\ \A c \in Cpus : ApStep(c) \/ ReceiveCall(c) => Early
<1> bsp \in Cpus /\ pc \in [Cpus -> ApLabels \cup BspLabels] /\ (Starting => madt[i + 1] \in Cpus)
  BY NIsNat DEF Shape, Chain
<1> USE DEF Early, Step, Arriving, Met, runVars
<1>1. FindTables => Early
  BY DEF FindTables
<1>2. CopyTrampoline => Early
  BY DEF CopyTrampoline
<1>3. SkipSelf => Early
  BY DEF SkipSelf
<1>4. Prepare => Early
  BY DEF Prepare
<1>5. SendInit => Early
  <2>1. SendInit => Starting /\ pc[madt[i + 1]] = "off"
    BY NIsNat DEF SendInit, Starting, Chain
  <2> QED
    BY <2>1 DEF SendInit
<1>6. SendSipi("sipi", "again") => Early
  BY DEF SendSipi, Starting
<1>7. SendSipi("again", "poll") => Early
  BY DEF SendSipi, Starting
<1>8. CpuStarted => Early
  BY DEF CpuStarted
<1>9. StartTimeout => Early
  BY DEF StartTimeout
<1>10. RestoreLowMemory => Early
  BY DEF RestoreLowMemory
<1>11. CalibrateTimer => Early
  BY DEF CalibrateTimer
<1>12. BspEnableIrqs => Early
  BY DEF BspEnableIrqs
<1>13. BspSetRoot => Early
  BY DEF BspSetRoot
<1>14. Devs => Early
  BY DEF Devs
<1>15. ASSUME NEW c \in Cpus, CountSelf(c) PROVE Early
  BY <1>15 DEF CountSelf
<1>16. ASSUME NEW c \in Cpus, ApEnable(c) PROVE Early
  BY <1>16 DEF ApEnable
<1>17. ASSUME NEW c \in Cpus, ApUnmask(c) PROVE Early
  BY <1>17 DEF ApUnmask
<1>18. ASSUME NEW c \in Cpus, ApCall(c) PROVE Early
  BY <1>18 DEF ApCall
<1>19. ASSUME NEW c \in Cpus, ApReturn(c) PROVE Early
  BY <1>19 DEF ApReturn
<1>20. ASSUME NEW c \in Cpus, ApTimer(c) PROVE Early
  BY <1>20 DEF ApTimer
<1>21. ASSUME NEW c \in Cpus, ReceiveCall(c) PROVE Early
  BY <1>21 DEF ReceiveCall
<1> HIDE DEF Early, Step, Arriving, Met, runVars
<1> QED
  BY ZenonT(40), <1>1, <1>2, <1>3, <1>4, <1>5, <1>6, <1>7, <1>8, <1>9, <1>10, <1>11, <1>12, <1>13, <1>14,
     <1>15, <1>16, <1>17, <1>18, <1>19, <1>20, <1>21 DEF BspStep, ApStep
-----------------------------------------------------------------------------
(* The steps preserve each part of the invariant *)

\* The bootstrap processor is counted, and a CPU that is not leaves room for
\* another number.
LEMMA CountedBound ==
  ASSUME Shape, Names
  PROVE  /\ runningCpus \in 1 .. N /\ IsFiniteSet(Counted) /\ bsp \in Counted
         /\ \A c \in Cpus : c \notin Counted => runningCpus < N
<1>1. IsFiniteSet(Cpus) /\ Counted \in SUBSET Cpus
  BY BootAssumption DEF Counted
<1>2. IsFiniteSet(Counted) /\ Cardinality(Counted) \in Nat /\ Cardinality(Counted) <= N
      /\ (Cardinality(Counted) = N => Counted = Cpus)
  BY <1>1, FS_Subset, FS_CardinalityType DEF N
<1>3. bsp \in Counted
  BY DEF Shape, Counted, BspLabels, KRunLabels, Arriving, Met
<1>4. Cardinality(Counted) # 0
  BY Zenon, <1>2, <1>3, FS_EmptySet
<1> QED
  BY <1>2, <1>3, <1>4, NIsNat DEF Names

\* A CPU that has stored its id is past the start-up.
LEMMA LateEffect ==
  ASSUME Shape, NEW c \in Cpus, Late(c)
  PROVE  /\ UNCHANGED <<madt, bsp, i, previous, runningCpus, trampoline>>
         /\ \A d \in Cpus : \/ pc'[d] = pc[d]
                           \/ {pc[d], pc'[d]} \cap {"off", "reset", "trampoline", "acpi", "copy",
                                                 "next", "init", "sipi", "again", "poll", "panic"} = {}
<1>1. UNCHANGED <<madt, bsp, i, previous, runningCpus, trampoline>>
  BY Zenon DEF Late, firmware, startVars
<1>2. pc \in [Cpus -> ApLabels \cup BspLabels]
  BY Zenon DEF Shape
<1>3. \A d \in Cpus : pc'[d] = pc[d] \/ {pc[d], pc'[d]} \subseteq LateLabels
  BY <1>2, Zenon DEF Late
<1>4. LateLabels \cap {"off", "reset", "trampoline", "acpi", "copy", "next", "init", "sipi", "again",
                       "poll", "panic"} = {}
  BY DEF LateLabels, KRunLabels, Arriving, Met
<1> QED
  BY <1>1, <1>3, <1>4, Zenon

\* A startup interrupt lets at most the CPU that is being started go on.
LEMMA SipiEffect ==
  ASSUME Shape, Chain, NEW from \in {"sipi", "again"}, NEW to \in {"again", "poll"},
         SendSipi(from, to)
  PROVE  /\ madt[i + 1] \in Aps /\ pc[bsp] = from /\ pc'[bsp] = to
         /\ pc' \in [Cpus -> ApLabels \cup BspLabels]
         /\ \A c \in Aps : pc'[c] = pc[c] \/ (pc[c] = "reset" /\ pc'[c] = "trampoline")
         /\ UNCHANGED <<firmware, startVars>>
<1>1. i \in Nat /\ i < N /\ madt[i + 1] # bsp
  BY NIsNat DEF SendSipi, Chain, Starting
<1>2. madt[i + 1] \in Aps
  <2>1. bsp \in Cpus /\ madt \in [1 .. N -> Cpus]
    BY DEF Shape
  <2> QED
    BY <1>1, <2>1, NIsNat DEF Aps
<1>3. bsp \in Cpus /\ pc \in [Cpus -> ApLabels \cup BspLabels]
  BY Zenon DEF Shape
<1>4. "trampoline" \in ApLabels /\ "again" \in BspLabels /\ "poll" \in BspLabels
  BY Zenon DEF ApLabels, BspLabels
<1>5. PICK x : /\ pc' = [pc EXCEPT ![bsp] = to, ![madt[i + 1]] = x]
               /\ x = pc[madt[i + 1]] \/ (pc[madt[i + 1]] = "reset" /\ x = "trampoline")
  <2>1. PICK accepted \in BOOLEAN :
          pc' = [pc EXCEPT ![bsp] = to,
                           ![madt[i + 1]] = IF accepted /\ @ = "reset" THEN "trampoline" ELSE @]
    BY Zenon DEF SendSipi
  <2>2. pc' = [pc EXCEPT ![bsp] = to,
                         ![madt[i + 1]] = IF accepted /\ pc[madt[i + 1]] = "reset" THEN "trampoline"
                                          ELSE pc[madt[i + 1]]]
    BY <1>2, <1>3, <2>1 DEF Aps
  <2> QED
    BY <2>2, Zenon
<1>6. x \in ApLabels \cup BspLabels
  BY <1>2, <1>3, <1>4, <1>5 DEF Aps
<1>7. /\ pc'[bsp] = to /\ pc' \in [Cpus -> ApLabels \cup BspLabels]
      /\ \A c \in Aps : pc'[c] = pc[c] \/ (pc[c] = "reset" /\ pc'[c] = "trampoline")
  BY <1>2, <1>3, <1>4, <1>5, <1>6 DEF Aps
<1> QED
  BY <1>2, <1>7, Zenon DEF SendSipi

\* A CPU stays in its own part of the code.
LEMMA ShapeStep ==
  ASSUME Shape, Chain, Next
  PROVE  Shape' /\ UNCHANGED firmware
<1> USE DEF Shape, Step, firmware, Aps, ApLabels, BspLabels, LateLabels, KRunLabels, Arriving, Met
<1>1. CASE FindTables
  BY <1>1 DEF FindTables
<1>2. CASE CopyTrampoline
  BY ZenonT(40), <1>2 DEF CopyTrampoline
<1>3. CASE SkipSelf
  BY <1>3 DEF SkipSelf
<1>4. CASE Prepare
  BY ZenonT(40), <1>4 DEF Prepare
<1>5. CASE SendInit
  BY <1>5, NIsNat DEF SendInit, Chain, Starting
<1>6. ASSUME NEW from \in {"sipi", "again"}, NEW to \in {"again", "poll"}, SendSipi(from, to)
      PROVE  Shape' /\ UNCHANGED firmware
  <2>1. /\ pc' \in [Cpus -> ApLabels \cup BspLabels] /\ pc'[bsp] = to
        /\ \A c \in Aps : pc'[c] = pc[c] \/ (pc[c] = "reset" /\ pc'[c] = "trampoline")
        /\ UNCHANGED <<madt, bsp>>
    BY <1>6, SipiEffect, Zenon
  <2> QED
    BY <2>1, ZenonT(40)
<1>8. CASE CpuStarted
  BY <1>8 DEF CpuStarted
<1>9. CASE StartTimeout
  BY ZenonT(40), <1>9 DEF StartTimeout
<1>10. CASE RestoreLowMemory
  BY ZenonT(40), <1>10 DEF RestoreLowMemory
<1>11. CASE CalibrateTimer
  BY ZenonT(40), <1>11 DEF CalibrateTimer
<1>12. CASE BspEnableIrqs
  BY ZenonT(40), <1>12 DEF BspEnableIrqs
<1>13. CASE BspSetRoot
  BY ZenonT(40), <1>13 DEF BspSetRoot
<1>14. ASSUME NEW c \in Cpus, CountSelf(c) PROVE Shape' /\ UNCHANGED firmware
  BY ZenonT(40), <1>14 DEF CountSelf
<1>15. ASSUME NEW c \in Cpus, ApEnable(c) PROVE Shape' /\ UNCHANGED firmware
  BY ZenonT(40), <1>15 DEF ApEnable
<1>16. ASSUME NEW c \in Cpus, Late(c) PROVE Shape' /\ UNCHANGED firmware
  BY <1>16 DEF Late
<1> HIDE DEF Shape, Step, firmware, Aps, ApLabels, BspLabels, LateLabels, KRunLabels, Arriving, Met
<1> QED
  BY ZenonT(40), <1>1, <1>2, <1>3, <1>4, <1>5, <1>6, <1>8, <1>9, <1>10, <1>11, <1>12, <1>13, <1>14,
     <1>15, <1>16, LateSteps DEF Next, BspStep, ApStep

\* The types of what runOn() uses.
LEMMA CallsStep ==
  ASSUME Shape, Calls, Next
  PROVE  Calls'
<1> USE DEF Calls, callVars
<1>1. CASE SkipSelf
  BY <1>1, Zenon DEF SkipSelf, Shape
<1>2. CASE CalibrateTimer
  BY <1>2 DEF CalibrateTimer, Shape
<1>3. CASE BspEnableIrqs
  BY <1>3 DEF BspEnableIrqs, Shape
<1>4. ASSUME NEW c \in Cpus, ApEnable(c) PROVE Calls'
  BY <1>4, Zenon DEF ApEnable
<1>5. ASSUME NEW c \in Cpus, ApUnmask(c) PROVE Calls'
  BY <1>5 DEF ApUnmask
<1>6. ASSUME NEW c \in Cpus, ApCall(c) PROVE Calls'
  BY <1>6, Zenon DEF ApCall
<1>7. ASSUME NEW c \in Cpus, ApReturn(c) PROVE Calls'
  BY <1>7, Zenon DEF ApReturn
<1>8. ASSUME NEW c \in Cpus, ReceiveCall(c) PROVE Calls'
  BY <1>8, ZenonT(40) DEF ReceiveCall
<1>9. UNCHANGED <<callVars, localApicTickSetting>> => Calls'
  BY Zenon
<1> HIDE DEF Calls, callVars
<1> QED
  BY <1>1, <1>2, <1>3, <1>4, <1>5, <1>6, <1>7, <1>8, <1>9, ZenonT(40) DEF Next, BspStep, ApStep,
     RunStep, Devs, FindTables, CopyTrampoline, Prepare,
      SendInit, SendSipi, CpuStarted, StartTimeout, RestoreLowMemory, BspSetRoot, CountSelf,
      ApTimer, Arrive,
      CreateOther, OtherThread, Finish, Meet, Race, LoadRootDevice, RootLoaded

\* The next CPU is started only when the last one is counted.
LEMMA ChainStep ==
  ASSUME Shape, Chain, Names, Next
  PROVE  Chain'
<1> N \in Nat /\ runningCpus \in 1 .. N /\ \A c \in Cpus : c \notin Counted => runningCpus < N
  BY Zenon, CountedBound, NIsNat
<1> USE DEF Shape, Chain, Starting, Step, firmware, startVars, Aps, Counted, Numbers
<1>1. CASE FindTables
  BY <1>1 DEF FindTables
<1>2. CASE CopyTrampoline
  <2>1. CASE N > 1
    BY <1>2, <2>1, ZenonT(40) DEF CopyTrampoline
  <2>2. CASE ~(N > 1)
    BY <1>2, <2>2 DEF CopyTrampoline
  <2> QED
    BY <2>1, <2>2
<1>3. CASE SkipSelf
  BY <1>3 DEF SkipSelf
<1>4. CASE Prepare
  BY <1>4 DEF Prepare
<1>5. CASE SendInit
  BY <1>5 DEF SendInit
<1>6. ASSUME NEW from \in {"sipi", "again"}, NEW to \in {"again", "poll"}, SendSipi(from, to)
      PROVE  Chain'
  <2>1. /\ pc[bsp] = from /\ pc'[bsp] = to
        /\ \A c \in Aps : pc'[c] = pc[c] \/ (pc[c] = "reset" /\ pc'[c] = "trampoline")
        /\ UNCHANGED <<madt, bsp, i, previous, runningCpus, trampoline>>
    BY <1>6, SipiEffect, ZenonT(40)
  <2> QED
    BY <1>6, <2>1
<1>8. CASE CpuStarted
  BY <1>8 DEF CpuStarted
<1>9. CASE StartTimeout
  BY <1>9 DEF StartTimeout
<1>10. CASE RestoreLowMemory
  BY <1>10, ZenonT(40) DEF RestoreLowMemory
<1>11. CASE CalibrateTimer
  BY ZenonT(40), <1>11 DEF CalibrateTimer
<1>12. CASE BspEnableIrqs
  BY ZenonT(40), <1>12 DEF BspEnableIrqs
<1>13. CASE BspSetRoot
  BY ZenonT(40), <1>13 DEF BspSetRoot
<1>14. ASSUME NEW c \in Cpus, CountSelf(c) PROVE Chain'
  BY <1>14 DEF CountSelf
<1>15. ASSUME NEW c \in Cpus, ApEnable(c) PROVE Chain'
  BY <1>15 DEF ApEnable
<1>16. ASSUME NEW c \in Cpus, Late(c) PROVE Chain'
  <2>1. /\ UNCHANGED <<madt, bsp, i, previous, runningCpus, trampoline>>
        /\ \A d \in Cpus : \/ pc'[d] = pc[d]
                          \/ {pc[d], pc'[d]} \cap {"off", "reset", "trampoline", "acpi", "copy",
                                                "next", "init", "sipi", "again", "poll", "panic"} = {}
    BY <1>16, LateEffect, Zenon
  <2> QED
    BY <2>1, ZenonT(40)
<1> HIDE DEF Shape, Chain, Starting, Step, firmware, startVars, Aps, Counted, Numbers
<1> QED
  BY ZenonT(40), <1>1, <1>2, <1>3, <1>4, <1>5, <1>6, <1>8, <1>9, <1>10, <1>11, <1>12, <1>13, <1>14,
     <1>15, <1>16, LateSteps DEF Next, BspStep, ApStep

\* Only CountSelf() changes who is counted and what is given out.
Tally ==
  \/ /\ Counted' = Counted /\ UNCHANGED <<runningCpus, stack>>
     /\ number' \in {number, [number EXCEPT ![bsp] = 0]}
  \/ \E c \in Cpus : CountSelf(c)

\* Every other step leaves the count alone.
LEMMA CountedStep ==
  ASSUME Shape, Chain, Next
  PROVE  Tally
<1> bsp \in Cpus /\ pc \in [Cpus -> ApLabels \cup BspLabels]
  BY DEF Shape
<1> USE DEF Counted, Step, startVars, LateLabels, KRunLabels, Arriving, Met
<1>1. CASE FindTables
  BY <1>1 DEF FindTables, Tally
<1>2. CASE CopyTrampoline
  BY <1>2 DEF CopyTrampoline, Tally
<1>3. CASE SkipSelf
  BY <1>3 DEF SkipSelf, Tally
<1>4. CASE Prepare
  BY ZenonT(40), <1>4 DEF Prepare, Tally
<1>5. CASE SendInit
  BY <1>5, NIsNat DEF SendInit, Tally, Chain, Starting, Shape
<1>6. ASSUME NEW from \in {"sipi", "again"}, NEW to \in {"again", "poll"}, SendSipi(from, to)
      PROVE  Tally
  <2>1. /\ pc[bsp] = from /\ pc'[bsp] = to
        /\ \A c \in Aps : pc'[c] = pc[c] \/ (pc[c] = "reset" /\ pc'[c] = "trampoline")
        /\ UNCHANGED <<runningCpus, stack, number>>
    BY <1>6, SipiEffect, Zenon
  <2> QED
    BY <1>6, <2>1, Zenon DEF Tally, Aps
<1>8. CASE CpuStarted
  BY <1>8 DEF CpuStarted, Tally
<1>9. CASE StartTimeout
  BY <1>9 DEF StartTimeout, Tally
<1>10. CASE RestoreLowMemory
  BY <1>10 DEF RestoreLowMemory, Tally
<1>11. CASE CalibrateTimer
  BY <1>11 DEF CalibrateTimer, Tally
<1>12. CASE BspEnableIrqs
  BY <1>12 DEF BspEnableIrqs, Tally
<1>13. CASE BspSetRoot
  BY <1>13 DEF BspSetRoot, Tally
<1>14. ASSUME NEW c \in Cpus, CountSelf(c) PROVE Tally
  BY <1>14 DEF Tally
<1>15. ASSUME NEW c \in Cpus, ApEnable(c) PROVE Tally
  BY Zenon, <1>15 DEF ApEnable, Tally
<1>16. ASSUME NEW c \in Cpus, Late(c) PROVE Tally
  BY Zenon, <1>16 DEF Late, Tally
<1> HIDE DEF Counted, Step, startVars, LateLabels, KRunLabels, Arriving, Met
<1> QED
  BY Zenon, <1>1, <1>2, <1>3, <1>4, <1>5, <1>6, <1>8, <1>9, <1>10, <1>11, <1>12, <1>13, <1>14,
     <1>15, <1>16, LateSteps DEF Next, BspStep, ApStep

\* CountSelf() gives out the next number and the stack that belongs to it.
LEMMA NumbersStep ==
  ASSUME Shape, Chain, Names, Tally
  PROVE  /\ runningCpus' = Cardinality(Counted') /\ number' \in [Cpus -> Numbers] /\ number'[bsp] = 0
         /\ \A c \in Counted' : number'[c] < runningCpus' /\ (c # bsp => number'[c] > 0)
         /\ \A c, d \in Counted' : number'[c] = number'[d] => c = d
         /\ stack' \in [Cpus -> Numbers]
         /\ \A c \in Counted' : stack'[c] = getInitialStackPointer(number'[c])
<1> /\ N \in Nat /\ runningCpus \in 1 .. N /\ IsFiniteSet(Counted) /\ bsp \in Counted
    /\ \A c \in Cpus : c \notin Counted => runningCpus < N
  BY CountedBound, NIsNat
<1> bsp \in Cpus
  BY DEF Shape
<1>1. CASE /\ Counted' = Counted /\ UNCHANGED <<runningCpus, stack>>
           /\ number' \in {number, [number EXCEPT ![bsp] = 0]}
  <2>1. number' = number
    BY Zenon, <1>1 DEF Names
  <2> QED
    BY <1>1, <2>1 DEF Names
<1>2. ASSUME NEW c \in Cpus, CountSelf(c)
      PROVE  /\ Counted' = Counted \cup {c} /\ c \notin Counted /\ c # bsp /\ runningCpus' = runningCpus + 1
             /\ number' = [number EXCEPT ![c] = runningCpus]
             /\ stack' = [stack EXCEPT ![c] = getInitialStackPointer(runningCpus)]
  BY <1>2 DEF CountSelf, Step, Counted, Shape, BspLabels, KRunLabels, Arriving, Met
<1>3. ASSUME NEW c \in Cpus, CountSelf(c)
      PROVE  runningCpus' = Cardinality(Counted')
  BY <1>2, <1>3, FS_AddElement DEF Names
<1>4. ASSUME NEW n \in Numbers PROVE getInitialStackPointer(n) \in Numbers
  BY DEF getInitialStackPointer, Numbers
<1>5. ASSUME NEW c \in Cpus, CountSelf(c)
      PROVE  /\ number' \in [Cpus -> Numbers] /\ number'[bsp] = 0 /\ stack' \in [Cpus -> Numbers]
             /\ \A d \in Counted' : number'[d] < runningCpus' /\ (d # bsp => number'[d] > 0)
             /\ \A e, d \in Counted' : number'[e] = number'[d] => e = d
             /\ \A d \in Counted' : stack'[d] = getInitialStackPointer(number'[d])
  <2>1. runningCpus \in Numbers /\ Counted \subseteq Cpus
    BY <1>2, <1>5 DEF Numbers, Counted
  <2>2. getInitialStackPointer(runningCpus) \in Numbers
    BY Zenon, <2>1, <1>4
  <2>3. \A d \in Counted : /\ d # c /\ number'[d] = number[d] /\ stack'[d] = stack[d]
                           /\ number[d] \in Nat /\ number[d] < runningCpus
    BY <2>1, <1>2, <1>5 DEF Names, Numbers
  <2>4. number'[c] = runningCpus /\ stack'[c] = getInitialStackPointer(runningCpus)
    BY Zenon, <1>2, <1>5 DEF Names
  <2>5. number' \in [Cpus -> Numbers] /\ number'[bsp] = 0 /\ stack' \in [Cpus -> Numbers]
    BY ZenonT(40), <2>1, <2>2, <1>2, <1>5 DEF Names
  <2>6. \A d \in Counted' : d \in Counted \/ d = c
    BY <1>2, <1>5
  <2>7. runningCpus' = runningCpus + 1 /\ runningCpus \in Nat /\ runningCpus > 0 /\ c # bsp
    BY <1>2, <1>5, <2>1 DEF Numbers
  <2>8. \A d \in Counted : /\ d # bsp => number[d] > 0
                           /\ stack[d] = getInitialStackPointer(number[d])
                           /\ \A e \in Counted : number[e] = number[d] => e = d
    BY Zenon DEF Names
  <2> QED
    BY <2>3, <2>4, <2>5, <2>6, <2>7, <2>8
<1> QED
  BY Zenon, <1>1, <1>3, <1>5 DEF Tally

\* No CPU stores its id over that of another.
LEMMA IdsStep ==
  ASSUME Shape, Names, Calls, Ids, Next
  PROVE  Ids'
<1> bsp \in Cpus /\ pc \in [Cpus -> ApLabels \cup BspLabels]
  BY Zenon DEF Shape
<1> number \in [Cpus -> Numbers] /\ localApicIds \in [Numbers -> Cpus \cup {0}]
  BY Zenon DEF Names, Calls
<1> USE DEF Ids, Aps, Step, startVars, callVars, firmware
<1>1. CASE FindTables
  BY Zenon, <1>1 DEF FindTables, LateLabels, KRunLabels, Arriving, Met
<1>2. CASE CopyTrampoline
  BY Zenon, <1>2 DEF CopyTrampoline, LateLabels, KRunLabels, Arriving, Met
<1>3. CASE SkipSelf
  <2>1. \A c \in Aps : pc[c] \in LateLabels => number[c] # 0 /\ c \in Cpus /\ number[c] \in Numbers
    BY DEF Names, Counted, LateLabels, KRunLabels, Arriving, Met
  <2> QED
    BY Zenon, <1>3, <2>1 DEF SkipSelf
<1>4. CASE Prepare
  BY Zenon, <1>4 DEF Prepare, LateLabels, KRunLabels, Arriving, Met
<1>5. CASE SendInit
  BY Zenon, <1>5 DEF SendInit, LateLabels, KRunLabels, Arriving, Met
<1>6. CASE SendSipi("sipi", "again")
  <2>1. \A c \in Aps : pc'[c] \in LateLabels => pc[c] \in LateLabels
    BY Zenon, <1>6 DEF SendSipi, LateLabels, KRunLabels, Arriving, Met
  <2> QED
    BY Zenon, <1>6, <2>1 DEF SendSipi
<1>7. CASE SendSipi("again", "poll")
  <2>1. \A c \in Aps : pc'[c] \in LateLabels => pc[c] \in LateLabels
    BY Zenon, <1>7 DEF SendSipi, LateLabels, KRunLabels, Arriving, Met
  <2> QED
    BY Zenon, <1>7, <2>1 DEF SendSipi
<1>8. CASE CpuStarted
  BY Zenon, <1>8 DEF CpuStarted, LateLabels, KRunLabels, Arriving, Met
<1>9. CASE StartTimeout
  BY Zenon, <1>9 DEF StartTimeout, LateLabels, KRunLabels, Arriving, Met
<1>10. CASE RestoreLowMemory
  BY Zenon, <1>10 DEF RestoreLowMemory, LateLabels, KRunLabels, Arriving, Met
<1>11. CASE CalibrateTimer
  BY Zenon, <1>11 DEF CalibrateTimer, LateLabels, KRunLabels, Arriving, Met
<1>12. CASE BspEnableIrqs
  BY Zenon, <1>12 DEF BspEnableIrqs, LateLabels, KRunLabels, Arriving, Met
<1>13. CASE BspSetRoot
  BY Zenon, <1>13 DEF BspSetRoot, LateLabels, KRunLabels, Arriving, Met
<1>14. ASSUME NEW c \in Cpus, CountSelf(c) PROVE Ids'
  BY Zenon, <1>14 DEF CountSelf, LateLabels, KRunLabels, Arriving, Met
<1>15. ASSUME NEW c \in Cpus, ApEnable(c) PROVE Ids'
  <2>1. c \in Counted /\ number[c] \in Numbers
    BY <1>15 DEF ApEnable, Counted
  <2>2. \A d \in Aps : pc[d] \in LateLabels => d \in Counted /\ number[d] \in Numbers
    BY Zenon DEF Counted, LateLabels, KRunLabels, Arriving, Met
  <2>3. \A d \in Aps : pc[d] \in LateLabels /\ d # c => number[d] # number[c]
    BY Zenon, <2>1, <2>2 DEF Names
  <2>4. \A d \in Aps : d # c => pc'[d] = pc[d]
    BY Zenon, <1>15 DEF ApEnable
  <2> QED
    BY Zenon, <1>15, <2>1, <2>2, <2>3, <2>4 DEF ApEnable
<1>16. ASSUME NEW c \in Cpus, Late(c) PROVE Ids'
  BY Zenon, <1>16 DEF Late
<1> HIDE DEF Ids, Aps, Step, startVars, callVars, firmware
<1> QED
  BY ZenonT(40), <1>1, <1>2, <1>3, <1>4, <1>5, <1>6, <1>7, <1>8, <1>9, <1>10, <1>11, <1>12, <1>13, <1>14,
     <1>15, <1>16, LateSteps DEF Next, BspStep, ApStep

\* Prepare: the scheduler that the next CPU will find.
LEMMA PrepareFirstTask ==
  ASSUME Shape, Chain, Names, FirstTasks, Prepare
  PROVE  FirstTasks'
<1>1. /\ runningCpus = previous + 1 /\ previous \in Nat /\ i < N /\ i \in Nat
      /\ pc[bsp] = "next" /\ madt[i + 1] # bsp /\ bsp \in Cpus /\ pc \in [Cpus -> ApLabels \cup BspLabels]
  BY NIsNat DEF Prepare, Step, Chain, Numbers, Shape
<1>2. /\ previous' = runningCpus /\ UNCHANGED <<i, madt, bsp>> /\ pc'[bsp] = "init"
      /\ initialTask' = [n \in DOMAIN initialTask \cup {runningCpus} |->
                           IF n = runningCpus THEN getInitialStackPointer(i) ELSE initialTask[n]]
  BY Zenon, <1>1 DEF Prepare, Step, processorCount, firmware
<1>3. 0 .. previous' = (0 .. previous) \cup {runningCpus}
  BY <1>1, <1>2
<1>4. DOMAIN initialTask' = 0 .. previous'
  BY Zenon, <1>2, <1>3 DEF FirstTasks
<1>5. /\ initialTask'[runningCpus] = getInitialStackPointer(i)
      /\ \A n \in 0 .. previous : initialTask'[n] = initialTask[n]
  BY <1>1, <1>2 DEF FirstTasks
<1>6. getInitialStackPointer(i) \in Numbers
  BY <1>1, NIsNat DEF Numbers, getInitialStackPointer
<1>7. madt[1] = bsp => i # 0 /\ runningCpus = i
  BY <1>1 DEF FirstTasks
<1>8. ~(pc'[bsp] \in {"acpi", "copy", "next"})
  BY Zenon, <1>2
<1> QED
  BY <1>1, <1>2, <1>3, <1>4, <1>5, <1>6, <1>7, <1>8 DEF FirstTasks, getInitialStackPointer

\* The first tasks are numbered as the CPUs will be.
LEMMA FirstTasksStep ==
  ASSUME Shape, Chain, Names, FirstTasks, Next
  PROVE  FirstTasks'
<1> N \in Nat /\ runningCpus \in 1 .. N
  BY Zenon, CountedBound, NIsNat
<1> USE DEF FirstTasks, Shape, Chain, Starting, Step, startVars, firmware
<1>1. CASE FindTables
  BY <1>1 DEF FindTables
<1>2. CASE CopyTrampoline
  BY Zenon, <1>2 DEF CopyTrampoline
<1>3. CASE SkipSelf
  BY <1>3 DEF SkipSelf
<1>4. CASE Prepare
  BY ZenonT(40), <1>4, PrepareFirstTask
<1>5. CASE SendInit
  BY Zenon, <1>5 DEF SendInit
<1>6. CASE SendSipi("sipi", "again")
  BY ZenonT(40), <1>6 DEF SendSipi
<1>7. CASE SendSipi("again", "poll")
  BY ZenonT(40), <1>7 DEF SendSipi
<1>8. CASE CpuStarted
  BY <1>8 DEF CpuStarted
<1>9. CASE StartTimeout
  BY Zenon, <1>9 DEF StartTimeout
<1>10. CASE RestoreLowMemory
  BY Zenon, <1>10 DEF RestoreLowMemory
<1>11. CASE CalibrateTimer
  BY Zenon, <1>11 DEF CalibrateTimer
<1>12. CASE BspEnableIrqs
  BY Zenon, <1>12 DEF BspEnableIrqs
<1>13. CASE BspSetRoot
  BY Zenon, <1>13 DEF BspSetRoot
<1>14. ASSUME NEW c \in Cpus, CountSelf(c) PROVE FirstTasks'
  BY Zenon, <1>14 DEF CountSelf
<1>15. ASSUME NEW c \in Cpus, ApEnable(c) PROVE FirstTasks'
  BY Zenon, <1>15 DEF ApEnable
<1>16. ASSUME NEW c \in Cpus, Late(c) PROVE FirstTasks'
  <2>1. pc'[bsp] = pc[bsp] \/ {pc[bsp], pc'[bsp]} \subseteq LateLabels
    BY <1>16 DEF Late, Shape
  <2> QED
    BY ZenonT(40), <1>16, <2>1 DEF Late, LateLabels, KRunLabels, Arriving, Met
<1> HIDE DEF FirstTasks, Shape, Chain, Starting, Step, startVars, firmware
<1> QED
  BY ZenonT(40), <1>1, <1>2, <1>3, <1>4, <1>5, <1>6, <1>7, <1>8, <1>9, <1>10, <1>11, <1>12, <1>13, <1>14,
     <1>15, <1>16, LateSteps DEF Next, BspStep, ApStep

\* A CPU that comes to a barrier is counted there once.
LEMMA CountsStep ==
  ASSUME Shape, Chain, Counts, Next
  PROVE  Counts'
<1> IsFiniteSet(Arrived) /\ IsFiniteSet(Done)
  BY Zenon, BootAssumption, FS_Subset DEF Arrived, Done
<1> pc \in [Cpus -> ApLabels \cup BspLabels]
  BY DEF Shape
<1>1. ASSUME NEW c \in Cpus, Arrive(c) PROVE Counts'
  <2>1. /\ Arrived' = Arrived \cup {c} /\ c \notin Arrived /\ Done' = Done
        /\ numCpusWithInitialTasks' = numCpusWithInitialTasks + 1 /\ numCpusDone' = numCpusDone
    BY <1>1 DEF Arrive, Step, Arrived, Done, Arriving, Met
  <2> QED
    BY <2>1, FS_AddElement, Zenon DEF Counts
<1>2. ASSUME NEW c \in Cpus, Finish(c) PROVE Counts'
  <2>1. /\ Arrived' = Arrived /\ Done' = Done \cup {c} /\ c \notin Done
        /\ numCpusWithInitialTasks' = numCpusWithInitialTasks /\ numCpusDone' = numCpusDone + 1
    BY Zenon, <1>2 DEF Finish, Step, Arrived, Done, Arriving, Met
  <2> QED
    BY <2>1, FS_AddElement, ZenonT(40) DEF Counts
<1>3. ASSUME NEW c \in Cpus, \/ CreateOther(c) \/ OtherThread(c) \/ Meet(c) \/ Race(c)
                             \/ LoadRootDevice(c) \/ RootLoaded(c)
      PROVE  Counts'
  <2>1. Arrived' = Arrived /\ Done' = Done /\ UNCHANGED <<numCpusWithInitialTasks, numCpusDone>>
    BY Zenon, <1>3 DEF CreateOther, OtherThread, Meet, Race, LoadRootDevice, RootLoaded, Step, runVars,
       Arrived, Done,
                Arriving, Met
  <2> QED
    BY Zenon, <2>1 DEF Counts
<1>4. CASE Early
  <2>1. Arrived' = Arrived /\ Done' = Done
    BY <1>4 DEF Early, Arrived, Done, Arriving, Met
  <2> QED
    BY Zenon, <1>4, <2>1 DEF Early, runVars, Counts
<1> QED
  BY Zenon, <1>1, <1>2, <1>3, <1>4, EarlySteps DEF Next, RunStep

\* A counter that has reached N has seen every CPU.
LEMMA AllDone ==
  ASSUME Counts, numCpusDone >= N
  PROVE  Done = Cpus
<1>1. IsFiniteSet(Cpus) /\ Done \in SUBSET Cpus
  BY Zenon, BootAssumption DEF Done
<1>2. Cardinality(Done) \in Nat /\ Cardinality(Done) <= N /\ (Cardinality(Done) = N => Done = Cpus)
  BY Zenon, <1>1, FS_Subset, FS_CardinalityType DEF N
<1> QED
  BY <1>2, NIsNat DEF Counts

\* The second barrier, and the race behind it.
LEMMA PassedStep ==
  ASSUME Shape, Chain, Counts, Passed, Next
  PROVE  Passed'
<1> bsp \in Cpus /\ pc \in [Cpus -> ApLabels \cup BspLabels]
  BY Zenon DEF Shape
<1> USE DEF Passed, runVars, Step, Arriving, Met
<1>1. ASSUME NEW c \in Cpus, Arrive(c) PROVE Passed'
  BY ZenonT(40), <1>1 DEF Arrive
<1>2. ASSUME NEW c \in Cpus, CreateOther(c) PROVE Passed'
  BY ZenonT(40), <1>2 DEF CreateOther
<1>3. ASSUME NEW c \in Cpus, OtherThread(c) PROVE Passed'
  BY Zenon, <1>3 DEF OtherThread
<1>4. ASSUME NEW c \in Cpus, Finish(c) PROVE Passed'
  BY ZenonT(40), <1>4 DEF Finish
<1>5. ASSUME NEW c \in Cpus, Meet(c) PROVE Passed'
  <2>1. \A d \in Cpus : pc[d] \in Met
    BY Zenon, <1>5, AllDone DEF Meet, Done
  <2> QED
    BY <1>5, <2>1 DEF Meet
<1>6. ASSUME NEW c \in Cpus, Race(c) PROVE Passed'
  BY <1>6 DEF Race
<1>7. ASSUME NEW c \in Cpus, LoadRootDevice(c) PROVE Passed'
  BY <1>7 DEF LoadRootDevice
<1>8. ASSUME NEW c \in Cpus, RootLoaded(c) PROVE Passed'
  BY <1>8 DEF RootLoaded
<1>9. CASE Early
  BY <1>9 DEF Early
<1> HIDE DEF Passed, runVars, Step, Arriving, Met
<1> QED
  BY Zenon, <1>1, <1>2, <1>3, <1>4, <1>5, <1>6, <1>7, <1>8, <1>9, EarlySteps DEF Next, RunStep
-----------------------------------------------------------------------------
(* The theorems *)

\* The state in which kstart() begins: the MADT's list of distinct CPUs is a
\* permutation, and only the bootstrap processor is counted.
LEMMA BootInvInit == Init => BootInv
<1> SUFFICES ASSUME Init PROVE BootInv
  OBVIOUS
<1>1. N \in Nat /\ bsp \in Cpus /\ N > 0
  <2>1. bsp \in Cpus /\ IsFiniteSet(Cpus)
    BY Zenon, BootAssumption DEF Init
  <2> QED
    BY <2>1, FS_CardinalityType, FS_EmptySet DEF N
<1>2. madt \in [1 .. N -> Cpus] /\ \A c \in Cpus : \E k \in 1 .. N : madt[k] = c
  <2>1. PICK m \in Madts : madt = LocalApics(m)
    BY Zenon DEF Init
  <2>2. madt \in Seq(Cpus) /\ Len(madt) = N /\ Range(madt) = Cpus
    BY Zenon, <2>1, BootAssumption DEF N
  <2> QED
    BY <2>2 DEF Range
<1>3. \A j, k \in 1 .. N : madt[j] = madt[k] => j = k
  <2>1. madt \in Surjection(1 .. N, Cpus)
    BY Zenon, <1>2 DEF Surjection
  <2>2. IsFiniteSet(1 .. N) /\ Cardinality(1 .. N) = N
    BY <1>1, FS_Interval
  <2>3. madt \in Injection(1 .. N, Cpus)
    BY Zenon, <2>1, <2>2, FS_Surjection DEF N
  <2> QED
    BY Zenon, <2>3, <1>2 DEF Injection, IsInjective
<1>4. Shape
  BY Zenon, <1>1, <1>2, <1>3 DEF Init, Shape, Aps, ApLabels, BspLabels, LateLabels, KRunLabels, Arriving,
     Met
<1>5. Calls
  BY <1>1, ZenonT(40) DEF Init, Calls
<1>6. Counted = {bsp} /\ Arrived = {} /\ Done = {}
  BY Zenon, <1>1 DEF Init, Counted, Arrived, Done, Arriving, Met
<1>7. Chain
  <2>1. \A k \in 1 .. N : madt[k] # bsp => pc[madt[k]] = "off"
    BY Zenon, <1>1, <1>2 DEF Init
  <2>2. \A c \in Cpus : pc[c] \notin {"reset", "trampoline"}
    BY Zenon DEF Init
  <2>3. pc[bsp] = "acpi" /\ i = 0 /\ previous = 0 /\ runningCpus = 1
    BY <1>1 DEF Init
  <2>4. trampoline \in BOOLEAN
    BY ZenonT(40) DEF Init
  <2>5. \A k \in 1 .. N : ~(k <= i)
    BY <1>1, <2>3
  <2> QED
    BY <1>1, <2>1, <2>2, <2>3, <2>4, <2>5 DEF Chain, Starting, Numbers
<1>8. Names
  <2>1. Cardinality({bsp}) = 1
    BY Zenon, FS_Singleton
  <2> QED
    BY <2>1, <1>1, <1>6 DEF Init, Names, Numbers, getInitialStackPointer
<1>9. Ids
  BY Zenon DEF Init, Ids, Aps, LateLabels, KRunLabels, Arriving, Met
<1>10. FirstTasks
  BY <1>1 DEF Init, FirstTasks, Numbers, getInitialStackPointer, Starting
<1>11. Counts /\ Passed
  BY <1>1, <1>6, FS_EmptySet, ZenonT(40) DEF Init, Counts, Passed, Met
<1> QED
  BY Zenon, <1>4, <1>5, <1>7, <1>8, <1>9, <1>10, <1>11 DEF BootInv

\* Every step preserves the invariant.
LEMMA BootInvStep == BootInv /\ [Next]_vars => BootInv'
<1> SUFFICES ASSUME BootInv, [Next]_vars PROVE BootInv'
  BY Zenon
<1>1. CASE UNCHANGED vars
  <2> USE <1>1 DEF vars, firmware, startVars, callVars, runVars
  <2>1. Shape' /\ Calls'
    BY DEF BootInv, Shape, Calls, Aps
  <2>2. Chain'
    BY Zenon DEF BootInv, Chain, Starting, Counted
  <2>3. Names'
    <3>1. Counted' = Counted
      BY Zenon DEF Counted
    <3> QED
      BY Zenon, <3>1 DEF BootInv, Names, getInitialStackPointer
  <2>4. Ids' /\ FirstTasks'
    BY Zenon DEF BootInv, Ids, FirstTasks, Aps, Starting
  <2>5. Counts' /\ Passed'
    BY Zenon DEF BootInv, Counts, Passed, Arrived, Done
  <2> QED
    BY Zenon, <2>1, <2>2, <2>3, <2>4, <2>5 DEF BootInv
<1>2. CASE Next
  <2> Shape /\ Calls /\ Chain /\ Names /\ Ids /\ FirstTasks /\ Counts /\ Passed
    BY Zenon DEF BootInv
  <2>1. Shape' /\ Calls' /\ Chain' /\ Ids' /\ FirstTasks' /\ Counts' /\ Passed'
    BY Zenon, <1>2, ShapeStep, CallsStep, ChainStep, IdsStep, FirstTasksStep, CountsStep, PassedStep
  <2>2. Names'
    <3>1. bsp' = bsp
      BY <1>2, ShapeStep DEF firmware
    <3> QED
      BY Zenon, <3>1, <1>2, CountedStep, NumbersStep DEF Names, getInitialStackPointer
  <2> QED
    BY Zenon, <2>1, <2>2 DEF BootInv
<1> QED
  BY <1>1, <1>2

\* The start-up keeps to its order, for every number of CPUs and every order of
\* the MADT: kstart() starts a CPU when the one before has counted itself, and
\* kRun()'s counters count the CPUs that have come to them (startup.cpp:139-254).
THEOREM BootOrder == Spec => []BootInv
<1> QED
  BY BootInvInit, BootInvStep, PTL DEF Spec

\* The numbers that kstart() gives the schedulers are those that the CPUs take in
\* the trampoline, and mailboxes and first tasks go with them (NumbersMatch).
THEOREM NumbersAgree == Spec => []NumbersMatch
<1>1. BootInv => NumbersMatch
  <2> SUFFICES ASSUME BootInv PROVE NumbersMatch
    OBVIOUS
  <2> Shape /\ Calls /\ Chain /\ Names /\ Ids /\ FirstTasks /\ Counts /\ Passed
    BY DEF BootInv
  <2>1. N \in Nat /\ runningCpus \in 1 .. N
    BY Zenon, CountedBound, NIsNat
  <2>2. numCpusWithInitialTasks \in 0 .. N /\ numCpusDone \in 0 .. N
    <3>1. Arrived \in SUBSET Cpus /\ Done \in SUBSET Cpus /\ IsFiniteSet(Cpus)
      BY Zenon, BootAssumption DEF Arrived, Done
    <3> QED
      BY <3>1, FS_Subset, FS_CardinalityType DEF Counts, N
  <2>3. TypeOK
    <3>1. pc \in [Cpus -> {"acpi", "copy", "next", "init", "sipi", "again", "poll", "number", "irqs",
                           "root", "panic", "off", "reset", "trampoline", "enable", "unmask", "call",
                           "wait", "ticks", "arrive", "gather", "other", "meet", "race", "hardware",
                           "loading", "dead"}]
      BY Zenon DEF Shape, ApLabels, BspLabels, LateLabels, KRunLabels, Arriving, Met
    <3>2. i \in 0 .. N /\ previous \in 0 .. N /\ trampoline \in BOOLEAN
      <4>1. i \in 0 .. N /\ previous \in Numbers /\ trampoline \in BOOLEAN
        BY Zenon DEF Chain
      <4> QED
        BY <2>1, <4>1 DEF Numbers
    <3>3. \A n \in DOMAIN initialTask : n \in Numbers /\ initialTask[n] \in Numbers
      <4>1. /\ previous \in Numbers /\ DOMAIN initialTask = 0 .. previous
            /\ \A n \in 0 .. previous : initialTask[n] \in Numbers
        BY Zenon DEF Chain, FirstTasks
      <4> QED
        BY <2>1, <4>1 DEF Numbers
    <3> QED
      BY Zenon, <2>1, <2>2, <3>1, <3>2, <3>3 DEF TypeOK, Calls, Names, Passed
  <2>4. ASSUME NEW c \in Counted
        PROVE  /\ number[c] \in DOMAIN initialTask
               /\ \A d \in Counted : number[c] = number[d] => c = d
               /\ pc[c] \notin {"enable"} /\ c # bsp => localApicIds[number[c]] = c
               /\ madt[1] = bsp => initialTask[number[c]] = stack[c]
    <3>0. previous \in Numbers /\ runningCpus \in {previous, previous + 1}
      BY Zenon DEF Chain
    <3>1. number[c] \in 0 .. previous
      <4>1. number[c] \in Numbers /\ number[c] < runningCpus
        BY Zenon DEF Names, Counted
      <4> QED
        BY <2>1, <3>0, <4>1 DEF Numbers
    <3>2. pc[c] \notin {"enable"} /\ c # bsp => localApicIds[number[c]] = c
      BY Zenon DEF Ids, Counted, Aps, Shape, ApLabels
    <3> QED
      BY <3>1, <3>2 DEF FirstTasks, Names
  <2> QED
    BY <2>3, <2>4 DEF NumbersMatch
<1> QED
  BY <1>1, BootInvInit, BootInvStep, PTL DEF Spec

\* Nobody executes the trampoline when kstart() overwrites it (TrampolineIntact).
THEOREM TrampolineKept == Spec => []TrampolineIntact
<1>1. BootInv => TrampolineIntact
  BY Zenon DEF BootInv, Chain, TrampolineIntact
<1> QED
  BY <1>1, BootInvInit, BootInvStep, PTL DEF Spec

\* One CPU loads the devices, when all have passed kRun()'s second barrier
\* (LoaderAlone).
THEOREM LoaderIsAlone == Spec => []LoaderAlone
<1>1. BootInv => LoaderAlone
  BY DEF BootInv, Passed, LoaderAlone, Met
<1> QED
  BY <1>1, BootInvInit, BootInvStep, PTL DEF Spec
=============================================================================
