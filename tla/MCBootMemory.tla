---------------------------- MODULE MCBootMemory ----------------------------
(* Memory maps of two entries anywhere in five pages of two bytes, the first *)
(* page being the low memory; a module before or after the map; and RSDPs.   *)
EXTENDS BootMemory
CONSTANTS rsdt, xsdt, rsdtOld, xsdtOld, screen

Top == 10
Memory(entries) == [type |-> "MEMORY", entries |-> entries]
Module(s, e) == [type |-> "MODULE", start |-> s, end |-> e]
Entry(base, length, type) == [base |-> base, length |-> length, type |-> type]
New == [revision |-> 2, rsdt |-> rsdt, xsdt |-> xsdt, head |-> 0, tail |-> 0]
Broken == [New EXCEPT !.tail = 1]
Old(revision) == [revision |-> revision, rsdt |-> rsdtOld, xsdt |-> xsdtOld, head |-> 0, tail |-> 0]
OldTag(r) == [type |-> "RSDP_OLD", rsdp |-> r]
NewTag(r) == [type |-> "RSDP_NEW", rsdp |-> r]
Kernel == Block(3, 5)
Rest == <<NewTag(New), [type |-> "FRAME_BUFFER", address |-> screen], [type |-> "OTHER"]>>

MemoryMaps ==
  {<<Entry(p[1], p[2] - p[1], 1), Entry(p[3], p[4] - p[3], p[5])>> :
     p \in {p \in (0 .. 4) \X (1 .. Top) \X (1 .. Top) \X {9, 10} \X {1, 2} :
              p[1] < p[2] /\ p[2] <= p[3] /\ p[3] < p[4]}}
Modules == {<<Module(6, 8)>>, <<Module(7, 9)>>, <<Module(1, 2), Module(9, 10)>>, <<>>}
Plain == Memory(<<Entry(0, 10, 1)>>)

MCFirmwares ==
  {[tags |-> <<Memory(m)>> \o o \o Rest, kernel |-> Kernel] : m \in MemoryMaps, o \in Modules}
  \cup {[tags |-> o \o <<Memory(m)>>, kernel |-> Kernel] : m \in MemoryMaps, o \in Modules}
  \cup {[tags |-> r \o <<Plain>>, kernel |-> Kernel] :
          r \in {<<>>, <<OldTag(Old(0))>>, <<OldTag(Old(2))>>, <<OldTag([Old(0) EXCEPT !.head = 1])>>}
             \cup {<<NewTag(n), OldTag(o)>> : n \in {New, Broken}, o \in {New, Old(0), Old(2)}}
             \cup {<<OldTag(o), NewTag(n)>> : n \in {New, Broken}, o \in {New, Old(0), Old(2)}}}
=============================================================================
