------------------------------- MODULE MCIrqs -------------------------------
(* Two I/O APICs with two and one inputs, and devices wired to them: two    *)
(* that share an input, two on one and on two I/O APICs, messages, a GSI    *)
(* that does not exist, and three handlers for two slots.                   *)
EXTENDS Irqs
CONSTANTS d1, d2, d3, x, y

Device(class, irq, level) == [class |-> class, irq |-> irq, level |-> level]
IoApic(address, gsiBase) == [type |-> "IO_APIC", address |-> address, gsiBase |-> gsiBase]
Contiguous == <<IoApic(1, 0), [type |-> "LOCAL_APIC"], IoApic(2, 2), IoApic(2, 5)>>
MCPins == <<2, 1>>

Machine(wiring) == [wiring |-> wiring, madt |-> Contiguous, numCpus |-> 2, apicId |-> 1, leftover |-> 0]
Shared == Machine((d1 :> Device("STANDARD", 1, TRUE)) @@ (d2 :> Device("STANDARD", 1, TRUE)))
Near == Machine((d1 :> Device("STANDARD", 0, FALSE)) @@ (d2 :> Device("STANDARD", 1, TRUE)))
Far == Machine((d1 :> Device("STANDARD", 1, TRUE)) @@ (d2 :> Device("STANDARD", 2, FALSE)))
Messages == Machine((d1 :> Device("STANDARD", 3, TRUE)) @@ (d2 :> Device("MSI", 0, FALSE)) @@ (d3 :> Device("MSI", 1, FALSE)))
Full == Machine([d \in {d1, d2, d3} |-> Device("LOCAL_INTERRUPT", 7, FALSE)])

Bare == Machine(<<>>)

MCMachines ==
  {Bare, Shared, Near, Far, Messages, Full, [Near EXCEPT !.numCpus = 1], [Near EXCEPT !.leftover = 4],
   [Far EXCEPT !.madt = <<IoApic(1, 0), IoApic(2, 3)>>]}
=============================================================================
