------------------------------- MODULE MCBoot -------------------------------
(* Three CPUs in every MADT order, booting on APIC id 0 or 1; MCFG tables    *)
(* with two buses, with a range that does not begin at bus 0, and one with a *)
(* bad checksum; slots with two functions.                                   *)
EXTENDS Boot, TLC

Table(s, ok, ranges) == [signature |-> s, sized |-> TRUE, checksum |-> ok, ranges |-> ranges]

Entry(type, enabled, id) == [type |-> type, enabled |-> enabled, apicId |-> id]
Orders == {m \in [1 .. N -> Cpus] : Range(m) = Cpus}

\* A disabled CPU and an I/O APIC are listed as well.
MCMadts == {<<Entry("LOCAL_APIC", FALSE, 7), Entry("IO_APIC", TRUE, 8)>>
              \o [k \in 1 .. N |-> Entry("LOCAL_APIC", TRUE, m[k])] : m \in Orders}

MCRsdts == {<<Table("APIC", TRUE, <<>>), Table("HPET", TRUE, <<>>), Table("MCFG", FALSE, <<>>),
               Table("MCFG", TRUE, <<range>>)>> : range \in {[first |-> 0, last |-> 1], [first |-> 1, last |-> 1]}}
           \cup {<<Table("APIC", TRUE, <<>>), Table("HPET", FALSE, <<>>)>>}

Absent == [type |-> "absent", multi |-> TRUE, xhci |-> FALSE, memory |-> FALSE]
Bridge == [type |-> "bridge", multi |-> FALSE, xhci |-> FALSE, memory |-> FALSE]
Normal(multi, xhci, memory) == [type |-> "normal", multi |-> multi, xhci |-> xhci, memory |-> memory]

\* Bus 0 in many ways; bus 1 has a controller in one of them.
Space(f0, f1, other) ==
  [b \in Buses |-> [s \in Slots |-> [f \in Functions |->
     IF b = 1 THEN (IF f = 0 THEN other ELSE Absent) ELSE IF f = 0 THEN f0 ELSE f1]]]
MCSpaces ==
  {Space(f0, Normal(FALSE, TRUE, TRUE), Absent) :
     f0 \in {Absent, Bridge} \cup {Normal(m, x, TRUE) : m, x \in BOOLEAN}}
    \cup {Space(Normal(TRUE, TRUE, TRUE), Absent, Normal(FALSE, TRUE, TRUE)),
          Space(Normal(TRUE, TRUE, TRUE), Normal(FALSE, TRUE, FALSE), Absent)}
=============================================================================
