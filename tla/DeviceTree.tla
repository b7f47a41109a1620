----------------------------- MODULE DeviceTree -----------------------------
(***************************************************************************)
(* The device tree (drivers/tree.cpp, acpiTree.cpp, pcieTree.cpp): a       *)
(* device's load() appends the children it discovers, each of which loads  *)
(* in a thread of its own; loadAndWait() then awaits them in turn and      *)
(* signals its own completion.  The ACPI tables are the ones that the RSDT *)
(* manager could load (acpi/tables.cpp, rsdt.cpp).                         *)
(* A device is named by its path: <<>> is the ACPI tree, <<i>> the PCIe    *)
(* tree of table i, <<i, b, s, f>> the xHCI controller at function f of    *)
(* slot s of bus b.  Threads and completions do here what the modules      *)
(* Threads and Completion show.                                            *)
(***************************************************************************)
EXTENDS Naturals, Sequences, FiniteSetsExt, Functions

CONSTANTS Buses, Slots, Functions,   \* 0 .. n: the buses, their slots, and a slot's functions
          Spaces    \* what the configuration space may hold: bus -> slot -> function -> header,
                    \* a record of its type (absent, bridge, normal), its multi-function bit
                    \* (set in the all-ones header of an absent function), whether its class
                    \* is the xHCI driver's, and whether BAR 0 is in memory

VARIABLES tables,      \* the RSDT's children: a table's type, or "null", and its bus ranges
          config,      \* the configuration space
          children,    \* firstChild .. lastChild
          dpc,         \* loadAndWait() of the device: none, load, await, done; or outside,
                       \* when it has read memory that is not mapped for it
          pending,     \* load(): what it has still to append
          cursor,      \* loadAndWait(): children awaited so far
          completed    \* the devices whose initializationCompletion is signalled

deviceVars == <<config, children, dpc, pending, cursor, completed>>

PcieTrees == {<<i>> : i \in DOMAIN tables}
Controllers == {<<i, b, s, f>> : i \in DOMAIN tables, b \in Buses, s \in Slots, f \in Functions}
Header(d) == config[d[2]][d[3]][d[4]]
Devices == {<<>>} \cup PcieTrees \cup Controllers
-----------------------------------------------------------------------------
(* Discovery *)

\* loadTable(): the manager made for a table found in the RSDT.
LoadTable(t) ==
  [type |-> IF ~t.sized \/ ~t.checksum \/ t.signature \notin {"RSDT", "XSDT", "APIC", "HPET", "MCFG"}
            THEN "null"
            ELSE CASE t.signature \in {"RSDT", "XSDT"} -> "RSDT"
                   [] t.signature = "APIC" -> "MADT"
                   [] OTHER -> t.signature,
   ranges |-> t.ranges]

\* RsdtTableManager(header)
LoadRsdt(rsdt) == [i \in DOMAIN rsdt |-> LoadTable(rsdt[i])]

\* RsdtTableManager::get(type) != nullptr
Has(managers, type) == \E k \in DOMAIN managers : managers[k].type = type

\* AcpiDeviceTree::load(): what it appends, in order.
AcpiChildren ==
  LET found == SelectSeq([i \in DOMAIN tables |-> i], LAMBDA i : tables[i].type = "MCFG")
  IN  [k \in DOMAIN found |-> <<found[k]>>]

\* McfgTableManager(header): of an entry's buses, as many as it has are mapped,
\* from the entry's address on; PCIE_DEVICE() adds the bus number itself.
Mapped(range) == 0 .. range.last - range.first

\* Mutant: a slot without a function 0 is not scanned.
ScanSlotStopsEarly(slot) ==
  LET ends(f) == f = 0 /\ (~slot[f].multi \/ slot[f].type = "absent")
      reached == {f \in Functions : \A g \in Functions : g < f => ~ends(g)}
  IN  {f \in reached : slot[f].type = "normal" /\ slot[f].xhci}

\* The function loop of PcieDeviceTree::load(): `break` at function 0 of a
\* slot without the multi-function bit; a driver for what is there and matches.
ScanSlot(slot) ==
  LET ends(f) == f = 0 /\ ~slot[f].multi
      reached == {f \in Functions : \A g \in Functions : g < f => ~ends(g)}
  IN  {f \in reached : slot[f].type = "normal" /\ slot[f].xhci}

\* The elements of sequences, one after the other, and of a set of numbers, in
\* order.  (SequencesExt would bring Bags, which slows every proof down.)
Joined(ss) ==
  LET upTo[k \in 0 .. Len(ss)] == IF k = 0 THEN <<>> ELSE upTo[k - 1] \o ss[k]
  IN  upTo[Len(ss)]
InOrder(S) ==
  CHOOSE s \in [1 .. Cardinality(S) -> S] : \A j, k \in DOMAIN s : j < k => s[j] < s[k]

\* The buses in the order of the scan, with the mapping that each is read through.
Scanned(d) ==
  LET buses(range) == [k \in 1 .. range.last - range.first + 1 |->
                         [bus |-> range.first + k - 1, mapped |-> range.first + k - 1 \in Mapped(range)]]
      ranges == tables[d[1]].ranges
  IN  Joined([k \in DOMAIN ranges |-> buses(ranges[k])])

\* The scan goes on to a bus that it reads outside of its mapping.
Leaves(d) == \E k \in DOMAIN Scanned(d) : ~Scanned(d)[k].mapped

\* PcieDeviceTree::load(): what it appends, in order.
PcieChildren(d) ==
  LET slots == InOrder(Slots)
      inSlot(b, s) == LET fs == InOrder(ScanSlot(config[b][s]))
                      IN  [j \in DOMAIN fs |-> <<d[1], b, s, fs[j]>>]
      inBus(b) == Joined([k \in DOMAIN slots |-> inSlot(b, slots[k])])
      Good(n) == \A k \in 1 .. n : Scanned(d)[k].mapped
      good == Max({n \in 0 .. Len(Scanned(d)) : Good(n)})
  IN  Joined([k \in 1 .. good |-> inBus(Scanned(d)[k].bus)])

\* PcieDeviceAccess::mapBar(0): nullptr if the BAR is not in memory
MapBar(d) == IF Header(d).memory THEN d ELSE <<>>

\* load() of each kind of device; XhciDriver::load() finds nothing.
Discovered(d) ==
  CASE Len(d) = 0 -> AcpiChildren
    [] Len(d) = 1 -> PcieChildren(d)
    [] OTHER      -> <<>>
-----------------------------------------------------------------------------
(* loadAndWait() *)

DeviceInit ==
  /\ tables = <<>>
  /\ config = <<>>
  /\ children = <<>>
  /\ dpc = <<>>
  /\ pending = <<>>
  /\ cursor = <<>>
  /\ completed = {}

\* setRootDevice(new AcpiDeviceTree(rsdt)), and the configuration space that
\* the scans will read.
SetRootDevice ==
  /\ config' \in Spaces
  /\ children' = [d \in Devices |-> <<>>]
  /\ dpc' = [d \in Devices |-> "none"]
  /\ pending' = [d \in Devices |-> <<>>]
  /\ cursor' = [d \in Devices |-> 0]
  /\ UNCHANGED <<tables, completed>>

LoadRoot ==
  /\ dpc[<<>>] = "none"
  /\ dpc' = [dpc EXCEPT ![<<>>] = "load"]
  /\ pending' = [pending EXCEPT ![<<>>] = Discovered(<<>>)]
  /\ UNCHANGED <<tables, config, children, cursor, completed>>

\* appendAndLoad(child): the thread that it creates may run at once.
AppendAndLoad(d) ==
  /\ dpc[d] = "load" /\ pending[d] # <<>>
  /\ LET child == Head(pending[d]) IN
       /\ children' = [children EXCEPT ![d] = Append(@, child)]
       /\ dpc' = [dpc EXCEPT ![child] = "load"]
       /\ pending' = [pending EXCEPT ![d] = Tail(@), ![child] = Discovered(child)]
  /\ UNCHANGED <<tables, config, cursor, completed>>

\* load() returns, unless it reads outside of what is mapped: the configuration
\* space of a bus, or the registers of a controller whose mapBar() failed.
Loaded(d) ==
  LET outside == (Len(d) = 1 /\ Leaves(d)) \/ (Len(d) = 4 /\ MapBar(d) = <<>>) IN
  /\ dpc[d] = "load" /\ pending[d] = <<>>
  /\ dpc' = [dpc EXCEPT ![d] = IF outside THEN "outside" ELSE "await"]
  /\ UNCHANGED <<tables, config, children, pending, cursor, completed>>

\* child.initializationCompletion.await()
AwaitChild(d) ==
  /\ dpc[d] = "await" /\ cursor[d] < Len(children[d])
  /\ children[d][cursor[d] + 1] \in completed
  /\ cursor' = [cursor EXCEPT ![d] = @ + 1]
  /\ UNCHANGED <<tables, config, children, dpc, pending, completed>>

\* initializationCompletion.signalComplete(); the device's thread ends.
SignalComplete(d) ==
  /\ dpc[d] = "await" /\ cursor[d] = Len(children[d])
  /\ completed' = completed \cup {d}
  /\ dpc' = [dpc EXCEPT ![d] = "done"]
  /\ UNCHANGED <<tables, config, children, pending, cursor>>

DeviceStep ==
  \E d \in DOMAIN dpc :
    AppendAndLoad(d) \/ Loaded(d) \/ AwaitChild(d) \/ SignalComplete(d)
-----------------------------------------------------------------------------
DeviceTypeOK ==
  /\ \A i \in DOMAIN tables : tables[i].type \in {"null", "RSDT", "MADT", "HPET", "MCFG"}
  /\ DOMAIN dpc \subseteq Devices
  /\ \A d \in DOMAIN dpc : /\ dpc[d] \in {"none", "load", "await", "done", "outside"}
                           /\ cursor[d] \in Nat
                           /\ \A k \in DOMAIN children[d] : children[d][k] \in Devices
  /\ completed \subseteq Devices

\* What the loads should find, said without their loops: every xHCI function
\* on the buses of every valid MCFG table, other than the functions above 0 of
\* a slot whose function 0 answers and does not call itself multi-function.
Expected ==
  {<<>>} \cup {d \in PcieTrees : tables[d[1]].type = "MCFG"}
         \cup {d \in Controllers :
                 /\ tables[d[1]].type = "MCFG"
                 /\ \E k \in DOMAIN tables[d[1]].ranges :
                      d[2] \in tables[d[1]].ranges[k].first .. tables[d[1]].ranges[k].last
                 /\ Header(d).type = "normal" /\ Header(d).xhci
                 /\ d[4] # 0 => LET first == config[d[2]][d[3]][0]
                                IN  first.type = "absent" \/ first.multi}

\* When a device's completion is signalled, the tree below it is exactly the
\* devices there are, each signalled before, although every child loads in a
\* thread of its own: no table or function is missed, loaded twice or left
\* unfinished (drivers/tree.cpp:37-43, acpiTree.cpp:31-51, pcieTree.cpp:44-83).
\* A load touches only what is mapped for it, unless a bus range does not begin
\* at 0 (mcfg.cpp:28) or a controller's BAR 0 is an I/O one (pcieBars.cpp:35).
TreeIsWhole ==
  /\ DeviceTypeOK
  /\ \A d \in completed :
       /\ \A e \in Devices : Len(d) <= Len(e) /\ SubSeq(e, 1, Len(d)) = d =>
            IF e \in Expected THEN e \in completed ELSE dpc[e] = "none"
       /\ \A j, k \in DOMAIN children[d] : children[d][j] = children[d][k] => j = k
  /\ \A d \in DOMAIN dpc : dpc[d] = "outside" =>
       \/ Len(d) = 1 /\ \E k \in DOMAIN tables[d[1]].ranges : tables[d[1]].ranges[k].first > 0
       \/ Len(d) = 4 /\ ~Header(d).memory
=============================================================================
