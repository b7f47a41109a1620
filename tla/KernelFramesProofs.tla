------------------------- MODULE KernelFramesProofs -------------------------
(***************************************************************************)
(* That no frame of the kernel's heap is lost or used twice, and that what *)
(* clients have is mapped, for any number of CPUs, pages, frames and sizes,*)
(* as long as no two CPUs meet in the creation of a page table: the one    *)
(* thing that the page tables would need a lock for.                       *)
(***************************************************************************)
EXTENDS KernelHeapProofs

\* A thread holds a frame from allocateFrame() to mapPage(), for a page that
\* nobody can reach.
HandOK(c) ==
  /\ pc[c] \in Mapping \ {"frame"} /\ job[c].kind # "allocated" => job[c].frame = Device
  /\ pc[c] \notin Mapping \ {"frame"} => job[c].frame = Null
  /\ pc[c] \in Mapping => \A p \in job[c].pages : Clear(p)

EntryOK(p) ==
  \/ entry[p] = NoEntry
  \/ entry[p].allocated /\ entry[p].frame \in Frames
  \/ ~entry[p].allocated /\ entry[p].frame = Device

\* The table of a region is made by one thread, before anything is entered.
TableOK ==
  /\ \A p \in Pages : entry[p] # NoEntry => table[Region(p)] # Null /\ Makers(Region(p)) = {}
  /\ \A c \in CPUs : /\ pc[c] = "table" => table[RegionOf(c)] = Null
                     /\ pc[c] \in {"clear", "write"} => table[RegionOf(c)] # Null
  /\ \A c, d \in CPUs :
       pc[c] \in {"table", "clear"} /\ pc[d] \in {"table", "clear", "write"} /\ c # d =>
         RegionOf(c) # RegionOf(d)

\* Who holds frame f: a page table, the entry of a page, unless it has been
\* given back and is about to be erased, or a thread.
Slots == {"table", "page", "cpu"} \X (Regions \cup Pages \cup CPUs)
Erasing(p) == \E c \in CPUs : pc[c] = "erase" /\ PageOf(c) = p
Holds(x, f) ==
  \/ x[1] = "table" /\ x[2] \in Regions /\ table[x[2]] = f
  \/ x[1] = "page" /\ x[2] \in Pages /\ entry[x[2]].frame = f /\ ~Erasing(x[2])
  \/ x[1] = "cpu" /\ x[2] \in CPUs /\ job[x[2]].frame = f

\* A frame is free or held, once.
HeldOnce ==
  \A f \in Frames :
    /\ f \in freeFrames \/ \E x \in Slots : Holds(x, f)
    /\ \A x \in Slots : Holds(x, f) => f \notin freeFrames /\ \A y \in Slots : Holds(y, f) => x = y

\* Page p is mapped for a client of this kind.
MappedAs(p, kind) ==
  /\ entry[p].allocated = (kind = "allocated") /\ entry[p].frame # Null
  /\ \A c \in CPUs : tlb[c][p] \in {Null, entry[p].frame}
AllMapped ==
  /\ \A a \in live : \A p \in PagesOf(a) : MappedAs(p, a.kind)
  /\ \A c \in CPUs : pc[c] \in Mapping => \A p \in job[c].all \ job[c].pages : MappedAs(p, job[c].kind)

FrameInv ==
  /\ Inv /\ (\A c \in CPUs : HandOK(c)) /\ (\A p \in Pages : EntryOK(p))
  /\ ~raced => TableOK /\ HeldOnce /\ AllMapped

\* Only mapping a page changes its entry to something; its translations are
\* forgotten or follow the entry.
LEMMA StepEntry ==
  ASSUME Inv, NEW c \in CPUs, Step(c), NEW p \in Pages
  PROVE  /\ \/ entry'[p] = entry[p]
            \/ (MakeTable(c) \/ ClearTable(c)) /\ Region(p) = RegionOf(c) /\ entry'[p] = NoEntry
            \/ (WriteEntry(c) \/ EraseEntry(c)) /\ p = PageOf(c)
         /\ \A e \in CPUs : tlb'[e][p] \in {tlb[e][p], Null, entry[p].frame}
  <1>T. entry \in [Pages -> Entries] /\ tlb \in [CPUs -> [Pages -> Values]]
    BY Zenon DEF Inv, TypeOK, Entries, Values
  <1>1. UNCHANGED entry \/ MakeTable(c) \/ ClearTable(c) \/ WriteEntry(c) \/ EraseEntry(c)
    BY DEF Step, AllocateMemory, MapAddress, Start, TakeFrame, LookUp, UnmapMemory, ReturnFrame,
           Invalidate, Call, GivePages, Shootdown, CacheTranslation, tables
  <1>2. MakeTable(c) \/ ClearTable(c) =>
          entry'[p] = entry[p] \/ (Region(p) = RegionOf(c) /\ entry'[p] = NoEntry)
    BY DEF MakeTable, ClearTable
  <1>3. WriteEntry(c) \/ EraseEntry(c) => entry'[p] = entry[p] \/ p = PageOf(c)
    BY ZenonT(40), <1>T DEF WriteEntry, EraseEntry
  <1>4. \/ UNCHANGED tlb \/ Invalidate(c) \/ \E d \in CPUs : Shootdown(c, d)
        \/ \E q \in Pages : CacheTranslation(c, q)
    BY DEF Step, AllocateMemory, MapAddress, Start, TakeFrame, LookUp, MakeTable, ClearTable,
           WriteEntry, UnmapMemory, ReturnFrame, EraseEntry, Call, GivePages
  <1>5. ASSUME NEW e \in CPUs PROVE tlb'[e][p] \in {tlb[e][p], Null, entry[p].frame}
    <2>1. Invalidate(c) => tlb'[e][p] \in {tlb[e][p], Null}
      BY <1>T DEF Invalidate
    <2>2. ASSUME NEW d \in CPUs, Shootdown(c, d) PROVE tlb'[e][p] \in {tlb[e][p], Null}
      BY <1>T, <2>2 DEF Shootdown
    <2>3. ASSUME NEW q \in Pages, CacheTranslation(c, q) PROVE tlb'[e][p] \in {tlb[e][p], entry[p].frame}
      BY <1>T, <2>3 DEF CacheTranslation
    <2> QED
      BY <1>4, <2>1, <2>2, <2>3
  <1> QED
    BY Zenon, <1>1, <1>2, <1>3, <1>5

\* What mapPage() stores.
LEMMA WrittenEntry ==
  ASSUME Inv, NEW c \in CPUs, WriteEntry(c)
  PROVE  /\ PageOf(c) \in Pages /\ entry'[PageOf(c)].frame = job[c].frame
         /\ entry'[PageOf(c)].allocated = (job[c].kind = "allocated")
  <1>1. PageOf(c) \in Pages
    BY PageOfType DEF WriteEntry, Mapping
  <1>2. entry'[PageOf(c)] = [frame |-> job[c].frame, allocated |-> job[c].kind = "allocated"]
    BY <1>1 DEF WriteEntry, Inv, TypeOK
  <1> QED
    BY <1>1, <1>2

\* What a thread holds is for a page that nobody can reach.
LEMMA StepHand ==
  ASSUME Inv, \A e \in CPUs : HandOK(e), NEW c \in CPUs, Step(c), NEW e \in CPUs
  PROVE  HandOK(e)'
  <1>T. /\ pc \in [CPUs -> Labels] /\ job \in [CPUs -> Jobs] /\ job[c] \in Jobs /\ HandOK(c)
        /\ job[c].all \subseteq Pages /\ job[c].pages \subseteq job[c].all /\ FreeUnmapped
    BY DEF Inv, MapOK, TypeOK, Jobs, Labels, Mapping, PerPage
  <1>0. pc[c] \in Mapping \cup PerPage =>
          PageOf(c) \in job[c].pages /\ PageOf(c) \in job[c].all /\ PageOf(c) \in Pages
    BY PageOfType
  <1>Q. \A p \in Pages : Clear(p) => Clear(p)' \/ (pc[c] = "write" /\ p = PageOf(c))
    BY StepQuiet DEF QuietBut, Quiet, Clear
  <1>1. CASE e # c
    <2>1. job'[e] = job[e] /\ pc'[e] = pc[e]
      BY <1>1, StepOthers DEF OthersKept
    <2>2. HandOK(e) /\ job[e].pages \subseteq job[e].all /\ job[e].all \subseteq Pages
      BY DEF Inv, MapOK, TypeOK, Jobs
    <2>3. pc[c] = "write" => PageOf(c) \notin job[e].all
      BY <1>1, <1>0 DEF Inv, JobOwned, Mapping
    <2> QED
      BY <2>1, <2>2, <2>3, <1>Q DEF HandOK
  <1>3. ASSUME NEW j, Takes(c, j) PROVE HandOK(c)'
    <2>1. pc'[c] = "frame" /\ job'[c] = j /\ j.pages \subseteq freePages /\ j.frame = Null /\ pc[c] = "idle"
      BY <1>3, <1>T DEF Takes
    <2>2. \A p \in freePages : Clear(p)'
      BY <1>Q, <1>T, <2>1 DEF FreeUnmapped, Inv, TypeOK
    <2> QED
      BY <2>1, <2>2 DEF HandOK, Mapping
  <1>4. ASSUME NEW a \in live, NEW j, Frees(c, a, j) PROVE HandOK(c)'
    BY <1>4, <1>T DEF Frees, HandOK, Mapping
  <1>5. ASSUME TakeFrame(c) PROVE HandOK(c)'
    <2>1. pc[c] = "frame" /\ job'[c].pages = job[c].pages /\ job'[c].kind = job[c].kind
      BY <1>5, <1>T DEF TakeFrame, Jobs
    <2>2. \/ pc'[c] = "lookup" /\ (job[c].kind # "allocated" => job'[c].frame = Device)
          \/ pc'[c] = "panic" /\ job'[c] = job[c]
      BY <1>5, <1>T DEF TakeFrame, Goto, Jobs
    <2> QED
      BY <2>1, <2>2, <1>T, <1>Q DEF HandOK, Mapping
  <1>6. ASSUME LookUp(c) \/ MakeTable(c) \/ ClearTable(c) PROVE HandOK(c)'
    <2>1. /\ job'[c] = job[c] /\ pc[c] \in {"lookup", "table", "clear"}
          /\ pc'[c] \in {"table", "clear", "write"}
      BY <1>6, <1>T DEF LookUp, MakeTable, ClearTable, Goto
    <2> QED
      BY <2>1, <1>T, <1>Q DEF HandOK, Mapping
  <1>7. ASSUME WriteEntry(c) PROVE HandOK(c)'
    <2>1. CASE job[c].pages \ {PageOf(c)} # {}
      <3>1. job' = [job EXCEPT ![c].pages = job[c].pages \ {PageOf(c)}, ![c].frame = Null]
        BY <1>7, <2>1, Zenon DEF WriteEntry
      <3>2. job'[c].pages = job[c].pages \ {PageOf(c)} /\ job'[c].frame = Null
        BY <3>1, <1>T DEF Jobs
      <3>3. pc[c] = "write" /\ pc'[c] = "frame"
        BY <1>7, <2>1, <1>T DEF WriteEntry, Goto
      <3> QED
        BY <3>2, <3>3, <1>T, <1>Q DEF HandOK, Mapping
    <2>2. CASE job[c].pages \ {PageOf(c)} = {}
      BY <1>7, <2>2, <1>T DEF WriteEntry, Goto, Idle, HandOK, Mapping
    <2> QED
      BY <2>1, <2>2
  <1>8. ASSUME Invalidate(c) PROVE HandOK(c)'
    <2>1. pc[c] = "invalidate" /\ pc'[c] \in {"unmap", "call"} /\ job'[c].frame = job[c].frame
      BY <1>8, <1>T DEF Invalidate, Goto, Jobs
    <2> QED
      BY <2>1, <1>T DEF HandOK, Mapping
  <1>9. ASSUME ReturnFrame(c) \/ EraseEntry(c) \/ Call(c) \/ \E d \in CPUs : Shootdown(c, d) PROVE HandOK(c)'
    <2>1. job'[c] = job[c] /\ pc[c] \notin Mapping /\ pc'[c] \notin Mapping
      BY <1>9, <1>T DEF ReturnFrame, EraseEntry, Call, Shootdown, Goto, Mapping
    <2> QED
      BY Zenon, <2>1, <1>T DEF HandOK
  <1>10. ASSUME GivePages(c) PROVE HandOK(c)'
    BY <1>10, <1>T DEF GivePages, Goto, Idle, HandOK, Mapping
  <1>11. ASSUME NEW p \in Pages, CacheTranslation(c, p) PROVE HandOK(c)'
    <2>1. job'[c] = job[c] /\ pc'[c] = pc[c] /\ UNCHANGED entry /\ entry[p] # NoEntry
      BY Zenon, <1>11 DEF CacheTranslation, threads, tables
    <2>2. \A q \in Pages : Clear(q) => Clear(q)'
      BY <2>1, <1>11, <1>Q DEF CacheTranslation, Clear, Inv, TypeOK
    <2> QED
      BY <2>1, <2>2, <1>T DEF HandOK
  <1> QED
    BY Zenon, <1>1, <1>3, <1>4, <1>5, <1>6, <1>7, <1>8, <1>9, <1>10, <1>11, AllocationTakes, UnmapFrees
       DEF Step

\* An entry is empty, or has a frame of ours, or one of a device.
LEMMA StepEntryOK ==
  ASSUME Inv, NEW c \in CPUs, HandOK(c), \A p \in Pages : EntryOK(p), Step(c), NEW p \in Pages
  PROVE  EntryOK(p)'
  <1>1. CASE entry'[p] = entry[p] \/ entry'[p] = NoEntry
    BY <1>1 DEF EntryOK
  <1>2. CASE WriteEntry(c) /\ p = PageOf(c)
    <2>1. entry'[p].frame = job[c].frame /\ entry'[p].allocated = (job[c].kind = "allocated")
      BY <1>2, WrittenEntry
    <2>2. CASE job[c].kind = "allocated"
      <3>1. job[c].frame \in Frames
        BY <1>2, <2>2 DEF Inv, MapOK, WriteEntry, Mapping
      <3> QED
        BY <2>1, <2>2, <3>1, Zenon DEF EntryOK
    <2>3. CASE job[c].kind # "allocated"
      <3>1. job[c].frame = Device
        BY <1>2, <2>3 DEF HandOK, WriteEntry, Mapping
      <3> QED
        BY <2>1, <2>3, <3>1, Zenon DEF EntryOK
    <2> QED
      BY <2>2, <2>3
  <1>3. CASE EraseEntry(c)
    BY <1>3, <1>1 DEF EraseEntry, Inv, TypeOK
  <1> QED
    BY <1>1, <1>2, <1>3, StepEntry

\* A race stays on record.
LEMMA StepRaced ==
  ASSUME NEW c \in CPUs, Step(c), ~raced'
  PROVE  ~raced /\ (LookUp(c) => Makers(RegionOf(c)) = {})
  <1>1. LookUp(c) => ~raced /\ Makers(RegionOf(c)) = {}
    BY ZenonT(40) DEF LookUp
  <1>2. LookUp(c) \/ UNCHANGED raced
    BY DEF Step, AllocateMemory, MapAddress, Start, TakeFrame, MakeTable, ClearTable, WriteEntry,
           UnmapMemory, ReturnFrame, EraseEntry, Invalidate, Call, GivePages, Shootdown,
           CacheTranslation, history
  <1> QED
    BY <1>1, <1>2

\* While one thread makes the table of a region, nothing of it is in use.
LEMMA StepTable ==
  ASSUME FrameInv, ~raced, TableOK, NEW c \in CPUs, Step(c), ~raced'
  PROVE  TableOK'
  <1>T. Inv /\ Typed /\ job \in [CPUs -> Jobs]
    BY DEF FrameInv, Inv, TypeOK, Typed, Allocations, Entries, Values, Labels, Mapping, PerPage
  <1>R. \A e \in CPUs : pc[e] \in {"lookup", "table", "clear", "write"} => RegionOf(e) \in Regions
    BY <1>T, PageOfType DEF RegionOf, Regions, Mapping
  <1>O. \A e \in CPUs \ {c} : pc'[e] = pc[e] /\ RegionOf(e)' = RegionOf(e)
    BY <1>T, StepOthers DEF OthersKept, RegionOf, PageOf
  <1> DEFINE Busy == {"table", "clear", "write"}
  <1>1. ASSUME LookUp(c) PROVE TableOK'
    <2>1. Makers(RegionOf(c)) = {} /\ UNCHANGED <<table, entry, job>>
      BY <1>1, StepRaced DEF LookUp, tables
    <2>2. RegionOf(c)' = RegionOf(c) /\ pc'[c] = IF table[RegionOf(c)] = Null THEN "table" ELSE "write"
      BY Zenon, <1>1, <1>T, <2>1 DEF LookUp, Goto, RegionOf, PageOf, Typed
    <2> QED
      BY <2>1, <2>2, <1>O DEF TableOK, Makers
  <1>2. ASSUME MakeTable(c) PROVE TableOK'
    <2>1. RegionOf(c)' = RegionOf(c) /\ pc[c] = "table" /\ pc'[c] = "clear"
      BY <1>2, <1>T DEF MakeTable, Goto, RegionOf, PageOf, Typed
    <2>2. \A r \in Regions : table'[r] = table[r] \/ (r = RegionOf(c) /\ table'[r] # Null)
      BY Zenon, <1>2, <1>T, <1>R, HeapConstants DEF MakeTable, Typed
    <2>3. table'[RegionOf(c)] # Null
      BY <1>2, <1>T, <1>R, <2>1, HeapConstants DEF MakeTable, Typed
    <2>4. \A p \in Pages : entry'[p] = IF Region(p) = RegionOf(c) THEN NoEntry ELSE entry[p]
      BY <1>2 DEF MakeTable
    <2>5. \A p \in Pages : Region(p) \in Regions
      BY DEF Regions
    <2> QED
      BY <2>1, <2>2, <2>3, <2>4, <2>5, <1>O, <1>R DEF TableOK, Makers
  <1>3. ASSUME ClearTable(c) PROVE TableOK'
    <2>1. RegionOf(c)' = RegionOf(c) /\ pc[c] = "clear" /\ pc'[c] = "write" /\ UNCHANGED table
      BY <1>3, <1>T DEF ClearTable, Goto, RegionOf, PageOf, Typed
    <2>2. \A p \in Pages : entry'[p] = IF Region(p) = RegionOf(c) THEN NoEntry ELSE entry[p]
      BY <1>3 DEF ClearTable
    <2> QED
      BY <2>1, <2>2, <1>O DEF TableOK, Makers
  <1>4. ASSUME WriteEntry(c) PROVE TableOK'
    <2>1. pc[c] = "write" /\ pc'[c] \in {"frame", "idle"} /\ UNCHANGED table
      BY <1>4, <1>T, Zenon DEF WriteEntry, Goto, Typed
    <2>2. \A p \in Pages : entry'[p] = entry[p] \/ Region(p) = RegionOf(c)
      BY Zenon, <1>4, <1>T DEF WriteEntry, Typed, RegionOf
    <2>3. Makers(RegionOf(c)) = {} /\ table[RegionOf(c)] # Null
      BY <2>1 DEF TableOK, Makers
    <2>4. \A r : r \in {Region(p) : p \in Pages} => (Makers(r) = {} => Makers(r)' = {})
      BY Zenon, <2>1, <1>O DEF Makers
    <2> QED
      BY <2>1, <2>2, <2>3, <2>4, <1>O DEF TableOK
  <1>5. ASSUME UNCHANGED table, pc[c] \notin Busy, pc'[c] \notin Busy,
               \A p \in Pages : entry'[p] \in {entry[p], NoEntry}
        PROVE  TableOK'
    BY <1>5, <1>O DEF TableOK, Makers
  <1>6. LookUp(c) \/ MakeTable(c) \/ ClearTable(c) \/ WriteEntry(c)
        \/ (UNCHANGED table /\ pc[c] \notin Busy /\ pc'[c] \notin Busy)
        \/ (UNCHANGED <<table, entry, pc, job>>)
    <2> USE <1>T DEF Typed, Goto, tables, threads, Busy
    <2>1. ASSUME NEW j, Takes(c, j) PROVE UNCHANGED table /\ pc[c] \notin Busy /\ pc'[c] \notin Busy
      BY <2>1 DEF Takes
    <2>2. ASSUME NEW a \in live, NEW j, Frees(c, a, j)
          PROVE  UNCHANGED table /\ pc[c] \notin Busy /\ pc'[c] \notin Busy
      BY ZenonT(40), <2>2 DEF Frees
    <2>3. ASSUME \/ TakeFrame(c) \/ ReturnFrame(c) \/ EraseEntry(c) \/ Invalidate(c) \/ Call(c)
                 \/ GivePages(c) \/ \E d \in CPUs : Shootdown(c, d)
          PROVE  UNCHANGED table /\ pc[c] \notin Busy /\ pc'[c] \notin Busy
      BY <2>3 DEF TakeFrame, ReturnFrame, EraseEntry, Invalidate, Call, GivePages, Shootdown
    <2>4. ASSUME NEW p \in Pages, CacheTranslation(c, p) PROVE UNCHANGED <<table, entry, pc, job>>
      BY <2>4 DEF CacheTranslation
    <2> HIDE DEF Typed, Goto, tables, threads, Busy
    <2> QED
      BY ZenonT(40), <2>1, <2>2, <2>3, <2>4, <1>T, AllocationTakes, UnmapFrees DEF Step
  <1>7. pc[c] # "write" => \A p \in Pages : entry'[p] \in {entry[p], NoEntry}
    BY Zenon, <1>T, StepQuiet DEF QuietBut, Quiet
  <1>8. ASSUME UNCHANGED <<table, entry, pc, job>> PROVE TableOK'
    BY <1>8 DEF TableOK, Makers, RegionOf, PageOf
  <1> QED
    BY ZenonT(40), <1>1, <1>2, <1>3, <1>4, <1>5, <1>6, <1>7, <1>8

\* A frame that nobody else holds is taken from the free ones, ...
LEMMA HeldTaken ==
  ASSUME HeldOnce, NEW v \in Slots, NEW g \in freeFrames, freeFrames' = freeFrames \ {g},
         \A x \in Slots, f \in Frames : Holds(x, f)' <=> Holds(x, f) \/ (x = v /\ f = g)
  PROVE  HeldOnce'
  BY DEF HeldOnce

\* ... given back, ...
LEMMA HeldReturned ==
  ASSUME HeldOnce, NEW u \in Slots, NEW g \in Frames, Holds(u, g), freeFrames' = freeFrames \cup {g},
         \A x \in Slots, f \in Frames : Holds(x, f)' <=> Holds(x, f) /\ ~(x = u /\ f = g)
  PROVE  HeldOnce'
  BY DEF HeldOnce

\* ... or left.
LEMMA HeldSame ==
  ASSUME HeldOnce, UNCHANGED freeFrames,
         \A x \in Slots, f \in Frames : Holds(x, f)' <=> Holds(x, f)
  PROVE  HeldOnce'
  BY DEF HeldOnce

\* A page that a thread is at is being erased by that thread or by none.
LEMMA ErasingOwn ==
  ASSUME Inv, NEW c \in CPUs, pc[c] \in Mapping \cup PerPage
  PROVE  Erasing(PageOf(c)) <=> pc[c] = "erase"
  <1>1. \A d \in CPUs : pc[d] \in Mapping \cup PerPage => PageOf(d) \in job[d].all
    BY PageOfType
  <1>2. \A d \in CPUs : pc[d] = "erase" /\ PageOf(d) = PageOf(c) => d = c
    BY Zenon, <1>1 DEF Inv, JobOwned, PerPage
  <1> QED
    BY <1>2 DEF Erasing

\* Frames go from the free ones to page tables and threads, from threads to
\* entries and back.
LEMMA StepHeld ==
  ASSUME FrameInv, ~raced, TableOK, HeldOnce, NEW c \in CPUs, Step(c)
  PROVE  HeldOnce'
  <1>T. /\ Inv /\ Typed /\ job \in [CPUs -> Jobs] /\ job[c] \in Jobs /\ HandOK(c)
        /\ \A p \in Pages : EntryOK(p)
    BY DEF FrameInv, Inv, TypeOK, Typed, Allocations, Entries, Values, Labels, Mapping, PerPage
  <1>N. Null \notin Frames /\ Device \notin Frames /\ Zero \notin Frames /\ NoEntry.frame = Null
    BY HeapConstants DEF NoEntry
  <1>O. \A e \in CPUs \ {c} : pc'[e] = pc[e] /\ PageOf(e)' = PageOf(e) /\ job'[e] = job[e]
    BY <1>T, StepOthers DEF OthersKept, PageOf
  <1>P. pc[c] \in Mapping \cup PerPage => PageOf(c) \in Pages
    BY <1>T, PageOfType
  <1>E. pc[c] # "erase" /\ pc'[c] # "erase" => \A p \in Pages : Erasing(p)' <=> Erasing(p)
    BY Zenon, <1>O DEF Erasing
  \* Nothing changes hands.
  <1>S. ASSUME UNCHANGED freeFrames, UNCHANGED table, pc[c] # "erase", pc'[c] # "erase",
               \A p \in Pages : entry'[p] = entry[p], job'[c].frame = job[c].frame
        PROVE  HeldOnce'
    <2>1. \A x \in Slots, f \in Frames : Holds(x, f)' <=> Holds(x, f)
      BY <1>S, <1>E, <1>O DEF Holds
    <2> QED
      BY Zenon, <1>S, <2>1, HeldSame
  <1>1. ASSUME NEW j, Takes(c, j) PROVE HeldOnce'
    <2>1. pc[c] = "idle" /\ pc'[c] = "frame" /\ job'[c].frame = Null /\ UNCHANGED <<freeFrames, table, entry>>
      BY Zenon, <1>1, <1>T DEF Takes, Typed, tables
    <2>2. job[c].frame = Null
      BY <1>T, <2>1 DEF HandOK, Mapping
    <2> QED
      BY Zenon, <1>S, <2>1, <2>2
  <1>2. ASSUME NEW a \in live, NEW j, Frees(c, a, j) PROVE HeldOnce'
    <2>1. /\ pc[c] = "idle" /\ pc'[c] \in {"call", "unmap"} /\ job'[c].frame = Null
          /\ UNCHANGED <<freeFrames, table, entry>>
      BY Zenon, <1>2, <1>T DEF Frees, Typed, tables, allocators
    <2>2. job[c].frame = Null
      BY <1>T, <2>1 DEF HandOK, Mapping
    <2> QED
      BY Zenon, <1>S, <2>1, <2>2
  <1>3. ASSUME TakeFrame(c) PROVE HeldOnce'
    <2>1. /\ pc[c] = "frame" /\ pc'[c] \in {"lookup", "panic"} /\ UNCHANGED <<table, entry>>
          /\ job[c].frame = Null
      BY <1>3, <1>T DEF TakeFrame, Goto, Typed, tables, HandOK, Mapping
    <2>2. CASE UNCHANGED freeFrames /\ job'[c].frame \in {Null, Device}
      <3>1. \A x \in Slots, f \in Frames : Holds(x, f)' <=> Holds(x, f)
        BY ZenonT(40), <2>1, <2>2, <1>E, <1>O, <1>N DEF Holds
      <3> QED
        BY Zenon, <2>2, <3>1, HeldSame
    <2>3. CASE \E f \in freeFrames : freeFrames' = freeFrames \ {f} /\ job'[c].frame = f
      <3>1. PICK g \in freeFrames : freeFrames' = freeFrames \ {g} /\ job'[c].frame = g
        BY Zenon, <2>3
      <3>2. \A x \in Slots, f \in Frames : Holds(x, f)' <=> Holds(x, f) \/ (x = <<"cpu", c>> /\ f = g)
        BY <2>1, <3>1, <1>E, <1>O, <1>N DEF Holds, Slots
      <3>3. <<"cpu", c>> \in Slots
        BY DEF Slots
      <3> QED
        BY <3>1, <3>2, <3>3, HeldTaken
    <2>4. \/ UNCHANGED freeFrames /\ job'[c].frame \in {Null, Device}
          \/ \E f \in freeFrames : freeFrames' = freeFrames \ {f} /\ job'[c].frame = f
      BY <1>3, <1>T, <2>1 DEF TakeFrame, Jobs
    <2> QED
      BY <2>2, <2>3, <2>4
  <1>4. ASSUME LookUp(c) PROVE HeldOnce'
    <2>1. pc[c] = "lookup" /\ pc'[c] \in {"table", "write"} /\ UNCHANGED <<freeFrames, table, entry, job>>
      BY Zenon, <1>4, <1>T DEF LookUp, Goto, Typed, tables, allocators
    <2> QED
      BY <1>S, <2>1
  <1>5. ASSUME MakeTable(c) PROVE HeldOnce'
    <2>1. pc[c] = "table" /\ pc'[c] = "clear" /\ UNCHANGED job
      BY <1>5, <1>T DEF MakeTable, Goto, Typed
    <2>2. RegionOf(c) \in Regions /\ table[RegionOf(c)] = Null /\ c \in Makers(RegionOf(c))
      BY Zenon, <2>1, <1>P DEF RegionOf, Regions, TableOK, Makers, Mapping
    <2>3. \A p \in Pages : entry'[p] = entry[p]
      BY <1>5, <2>2 DEF MakeTable, TableOK
    <2>4. CASE UNCHANGED freeFrames /\ table' = [table EXCEPT ![RegionOf(c)] = Zero]
      <3>1. \A r \in Regions, f \in Frames : table'[r] = f <=> table[r] = f
        BY Zenon, <2>2, <2>4, <1>T, <1>N DEF Typed
      <3>2. \A x \in Slots, f \in Frames : Holds(x, f)' <=> Holds(x, f)
        BY ZenonT(40), <2>1, <2>3, <3>1, <1>E DEF Holds
      <3> QED
        BY Zenon, <2>4, <3>2, HeldSame
    <2>5. CASE \E f \in freeFrames : freeFrames' = freeFrames \ {f} /\ table' = [table EXCEPT ![RegionOf(c)] = f]
      <3>1. PICK g \in freeFrames : freeFrames' = freeFrames \ {g} /\ table' = [table EXCEPT ![RegionOf(c)] = g]
        BY Zenon, <2>5
      <3>2. \A r \in Regions, f \in Frames : table'[r] = f <=> table[r] = f \/ (r = RegionOf(c) /\ f = g)
        BY <2>2, <3>1, <1>T, <1>N DEF Typed
      <3>3. <<"table", RegionOf(c)>> \in Slots
        BY Zenon, <2>2 DEF Slots
      <3>4. \A x \in Slots, f \in Frames :
              Holds(x, f)' <=> Holds(x, f) \/ (x = <<"table", RegionOf(c)>> /\ f = g)
        BY <2>1, <2>2, <2>3, <3>2, <1>E DEF Holds, Slots
      <3> QED
        BY <3>1, <3>3, <3>4, HeldTaken
    <2> QED
      BY Zenon, <1>5, <2>4, <2>5 DEF MakeTable
  <1>6. ASSUME ClearTable(c) PROVE HeldOnce'
    <2>1. pc[c] = "clear" /\ pc'[c] = "write" /\ UNCHANGED <<freeFrames, table, job>>
      BY <1>6, <1>T DEF ClearTable, Goto, Typed, allocators
    <2>2. c \in Makers(RegionOf(c))
      BY <2>1 DEF Makers
    <2>3. \A p \in Pages : entry'[p] = entry[p]
      BY <1>6, <2>2 DEF ClearTable, TableOK
    <2> QED
      BY Zenon, <1>S, <2>1, <2>3
  <1>7. ASSUME WriteEntry(c) PROVE HeldOnce'
    <2>1. pc[c] = "write" /\ pc'[c] \in {"frame", "idle"} /\ UNCHANGED <<freeFrames, table>>
      BY <1>7, <1>T, Zenon DEF WriteEntry, Goto, Typed, allocators
    <2>2. job'[c].frame = Null
      BY Zenon, <2>1, <1>T, StepHand DEF HandOK, Mapping, FrameInv
    <2>3. /\ PageOf(c) \in Pages /\ entry[PageOf(c)] = NoEntry /\ ~Erasing(PageOf(c))
          /\ entry'[PageOf(c)].frame = job[c].frame
      BY Zenon, <2>1, <1>7, <1>T, PageOfType, ErasingOwn, WrittenEntry DEF HandOK, Mapping, Clear
    <2>4. \A p \in Pages \ {PageOf(c)} : entry'[p] = entry[p]
      BY Zenon, <1>7, <1>T DEF WriteEntry, Typed
    <2>5. CASE job[c].frame \in Frames
      <3>0. PageOf(c) \in Pages /\ <<"cpu", c>> \in Slots /\ <<"page", PageOf(c)>> \in Slots
        BY <2>3 DEF Slots
      <3> SUFFICES ASSUME NEW g \in Frames, g = job[c].frame, NEW q \in Pages, q = PageOf(c),
                          NEW u \in Slots, u = <<"cpu", c>>, NEW v \in Slots, v = <<"page", q>>
                   PROVE  HeldOnce'
        BY Zenon, <2>5, <3>0
      <3>1. Holds(u, g) /\ UNCHANGED freeFrames
        BY Zenon, <2>1 DEF Holds
      <3>2. ASSUME NEW x \in Slots, NEW f \in Frames
            PROVE  Holds(x, f)' <=> (Holds(x, f) /\ ~(x = u /\ f = g)) \/ (x = v /\ f = g)
        <4>1. CASE x[1] = "table"
          BY <4>1, <2>1 DEF Holds
        <4>2. CASE x[1] = "page"
          BY <4>2, <2>1, <2>3, <2>4, <1>E, <1>N DEF Holds, Slots
        <4>3. CASE x[1] = "cpu"
          BY <4>3, <2>2, <1>O, <1>N DEF Holds, Slots
        <4> QED
          BY Zenon, <4>1, <4>2, <4>3 DEF Slots
      <3> QED
        BY <3>1, <3>2 DEF HeldOnce
    <2>6. CASE job[c].frame \notin Frames
      <3>1. \A x \in Slots, f \in Frames : Holds(x, f)' <=> Holds(x, f)
        BY <2>1, <2>2, <2>3, <2>4, <2>6, <1>E, <1>O, <1>N DEF Holds
      <3> QED
        BY Zenon, <2>1, <3>1, HeldSame
    <2> QED
      BY <2>5, <2>6
  <1>8. ASSUME ReturnFrame(c) PROVE HeldOnce'
    <2> DEFINE p == PageOf(c)
    <2>1. pc[c] = "unmap" /\ pc'[c] = "erase" /\ UNCHANGED <<table, entry, job>> /\ p' = p
      BY Zenon, <1>8, <1>T DEF ReturnFrame, Goto, Typed, tables, PageOf
    <2>2. p \in Pages /\ ~Erasing(p)
      BY Zenon, <2>1, <1>T, <1>P, ErasingOwn DEF PerPage
    <2>3. \A q \in Pages : Erasing(q)' <=> Erasing(q) \/ q = p
      BY Zenon, <2>1, <1>O DEF Erasing
    <2>4. CASE entry[p].allocated
      <3>1. entry[p].frame \in Frames /\ entry[p] # NoEntry
        BY <2>2, <2>4, <1>T DEF EntryOK, NoEntry
      <3>2. table[RegionOf(c)] # Null
        BY <2>2, <3>1 DEF TableOK, RegionOf
      <3>3. freeFrames' = freeFrames \cup {entry[p].frame}
        BY Zenon, <1>8, <2>4, <3>2 DEF ReturnFrame
      <3>4. <<"page", p>> \in Slots /\ Holds(<<"page", p>>, entry[p].frame)
        BY Zenon, <2>2 DEF Slots, Holds
      <3>5. \A x \in Slots, f \in Frames :
              Holds(x, f)' <=> Holds(x, f) /\ ~(x = <<"page", p>> /\ f = entry[p].frame)
        BY <2>1, <2>2, <2>3 DEF Holds, Slots
      <3> QED
        BY Zenon, <3>1, <3>3, <3>4, <3>5, HeldReturned
    <2>5. CASE ~entry[p].allocated
      <3>1. entry[p].frame \notin Frames
        BY Zenon, <2>2, <2>5, <1>T, <1>N DEF EntryOK
      <3>2. UNCHANGED freeFrames
        BY Zenon, <1>8, <2>5 DEF ReturnFrame
      <3>3. \A x \in Slots, f \in Frames : Holds(x, f)' <=> Holds(x, f)
        BY ZenonT(40), <2>1, <2>3, <3>1 DEF Holds
      <3> QED
        BY Zenon, <3>2, <3>3, HeldSame
    <2> QED
      BY Zenon, <2>4, <2>5
  <1>9. ASSUME EraseEntry(c) PROVE HeldOnce'
    <2> DEFINE p == PageOf(c)
    <2>1. pc[c] = "erase" /\ pc'[c] = "invalidate" /\ UNCHANGED <<freeFrames, table, job>>
      BY Zenon, <1>9, <1>T DEF EraseEntry, Goto, Typed, allocators
    <2>2. p \in Pages /\ Erasing(p)
      BY Zenon, <2>1, <1>T, <1>P, ErasingOwn DEF PerPage
    <2>3. entry'[p] = NoEntry /\ \A q \in Pages \ {p} : entry'[q] = entry[q]
      BY Zenon, <1>9, <2>2, <1>T DEF EraseEntry, Typed
    <2>4. \A q \in Pages \ {p} : Erasing(q)' <=> Erasing(q)
      BY Zenon, <2>1, <1>O DEF Erasing
    <2>5. \A x \in Slots, f \in Frames : Holds(x, f)' <=> Holds(x, f)
      BY ZenonT(40), <2>1, <2>2, <2>3, <2>4, <1>N DEF Holds
    <2> QED
      BY Zenon, <2>1, <2>5, HeldSame
  <1>10. ASSUME Invalidate(c) PROVE HeldOnce'
    <2>1. /\ pc[c] = "invalidate" /\ pc'[c] \in {"unmap", "call"} /\ job'[c].frame = job[c].frame
          /\ UNCHANGED <<freeFrames, table, entry>>
      BY Zenon, <1>10, <1>T DEF Invalidate, Goto, Typed, tables, allocators, Jobs
    <2> QED
      BY <1>S, <2>1
  <1>11. ASSUME Call(c) \/ \E d \in CPUs : Shootdown(c, d) PROVE HeldOnce'
    <2>1. pc[c] # "erase" /\ pc'[c] # "erase" /\ UNCHANGED <<freeFrames, table, entry, job>>
      BY Zenon, <1>11, <1>T DEF Call, Shootdown, Goto, Typed, tables, allocators
    <2> QED
      BY Zenon, <1>S, <2>1
  <1>12. ASSUME GivePages(c) PROVE HeldOnce'
    <2>1. /\ pc[c] = "give" /\ pc'[c] = "idle" /\ job'[c].frame = Null
          /\ UNCHANGED <<freeFrames, table, entry>>
      BY Zenon, <1>12, <1>T DEF GivePages, Goto, Typed, tables, Idle
    <2>2. job[c].frame = Null
      BY Zenon, <1>T, <2>1 DEF HandOK, Mapping
    <2> QED
      BY Zenon, <1>S, <2>1, <2>2
  <1>13. ASSUME NEW p \in Pages, CacheTranslation(c, p) PROVE HeldOnce'
    <2>1. UNCHANGED <<freeFrames, table, entry, job, pc>>
      BY Zenon, <1>13 DEF CacheTranslation, tables, allocators, threads
    <2>2. \A x \in Slots, f \in Frames : Holds(x, f)' <=> Holds(x, f)
      BY ZenonT(40), <2>1 DEF Holds, Erasing, PageOf
    <2> QED
      BY Zenon, <2>1, <2>2, HeldSame
  <1> QED
    BY ZenonT(40), <1>1, <1>2, <1>3, <1>4, <1>5, <1>6, <1>7, <1>8, <1>9, <1>10, <1>11, <1>12, <1>13, <1>T,
       AllocationTakes, UnmapFrees DEF Step

\* A page that is mapped stays mapped unless its thread works on it: its region
\* has a table, so nobody makes one.
LEMMA KeepsMapped ==
  ASSUME Inv, TableOK, NEW c \in CPUs, Step(c), NEW p \in Pages, NEW kind, MappedAs(p, kind),
         p # PageOf(c) \/ pc[c] \notin {"write", "erase"}
  PROVE  MappedAs(p, kind)'
  <1>1. entry[p] # NoEntry
    BY DEF MappedAs, NoEntry
  <1>2. c \notin Makers(Region(p))
    BY Zenon, <1>1 DEF TableOK
  <1>3. ~((MakeTable(c) \/ ClearTable(c)) /\ Region(p) = RegionOf(c))
    BY <1>2 DEF MakeTable, ClearTable, Makers
  <1>4. ~((WriteEntry(c) \/ EraseEntry(c)) /\ p = PageOf(c))
    BY Zenon DEF WriteEntry, EraseEntry
  <1>5. entry'[p] = entry[p] /\ \A e \in CPUs : tlb'[e][p] \in {tlb[e][p], Null, entry[p].frame}
    BY Zenon, <1>3, <1>4, StepEntry
  <1> QED
    BY Zenon, <1>5 DEF MappedAs

\* mapPage() maps the page.
LEMMA WritesMapped ==
  ASSUME Inv, NEW c \in CPUs, HandOK(c), WriteEntry(c), NEW p, p = PageOf(c),
         NEW kind, kind = job[c].kind
  PROVE  MappedAs(p, kind)'
  <1>1. /\ PageOf(c) \in Pages /\ entry'[PageOf(c)].frame = job[c].frame
        /\ entry'[PageOf(c)].allocated = (job[c].kind = "allocated")
    BY WrittenEntry
  <1>2. job[c].frame # Null
    BY HeapConstants DEF Inv, MapOK, HandOK, WriteEntry, Mapping
  <1>3. \A e \in CPUs : tlb'[e][PageOf(c)] = Null
    BY PageOfType DEF HandOK, WriteEntry, Mapping, Clear
  <1> QED
    BY Zenon, <1>1, <1>2, <1>3 DEF MappedAs

\* What clients have, and what threads have mapped for them, stays mapped.
LEMMA StepMapped ==
  ASSUME FrameInv, TableOK, AllMapped, NEW c \in CPUs, Step(c)
  PROVE  AllMapped'
  <1>T. /\ Inv /\ Typed /\ job \in [CPUs -> Jobs] /\ job[c] \in Jobs /\ HandOK(c) /\ MapOK(c)
        /\ LiveOwned /\ JobOwned
    BY Zenon DEF FrameInv, Inv, TypeOK, Typed, Allocations, Entries, Values, Labels, Mapping, PerPage
  <1>P. pc[c] \in Mapping \cup PerPage => PageOf(c) \in job[c].pages /\ PageOf(c) \in job[c].all
    BY <1>T, PageOfType
  <1>1. \A a \in live : \A p \in PagesOf(a) : MappedAs(p, a.kind)'
    <2> SUFFICES ASSUME NEW a \in live, NEW p \in PagesOf(a) PROVE MappedAs(p, a.kind)'
      BY Zenon
    <2>1. p \in Pages /\ MappedAs(p, a.kind)
      BY Zenon, <1>T DEF LiveOwned, AllMapped
    <2>2. pc[c] \in {"write", "erase"} => p # PageOf(c)
      BY Zenon, <1>T, <1>P DEF JobOwned, Mapping, PerPage
    <2> QED
      BY <1>T, <2>1, <2>2, KeepsMapped
  <1>2. \A d \in CPUs \ {c} : pc[d] \in Mapping =>
          \A p \in job[d].all \ job[d].pages, k \in {job[d].kind} : MappedAs(p, k)'
    <2> SUFFICES ASSUME NEW d \in CPUs \ {c}, pc[d] \in Mapping,
                        NEW p \in job[d].all \ job[d].pages, NEW k \in {job[d].kind}
                 PROVE  MappedAs(p, k)'
      OBVIOUS
    <2>1. p \in Pages /\ MappedAs(p, k)
      BY ZenonT(40), <1>T DEF Jobs, AllMapped
    <2>2. pc[c] \in {"write", "erase"} => p # PageOf(c)
      BY Zenon, <1>T, <1>P DEF JobOwned, Mapping, PerPage
    <2> QED
      BY Zenon, <1>T, <2>1, <2>2, KeepsMapped
  <1>3. pc[c] \in Mapping =>
          \A p \in job[c].all \ job[c].pages, k \in {job[c].kind} : MappedAs(p, k)'
    <2> SUFFICES ASSUME pc[c] \in Mapping, NEW p \in job[c].all \ job[c].pages,
                        NEW k \in {job[c].kind}
                 PROVE  MappedAs(p, k)'
      BY Zenon
    <2>1. p \in Pages /\ MappedAs(p, k)
      BY Zenon, <1>T DEF Jobs, AllMapped
    <2>2. p # PageOf(c)
      BY Zenon, <1>P
    <2> QED
      BY Zenon, <1>T, <2>1, <2>2, KeepsMapped
  <1>O. \A e \in CPUs \ {c} : pc'[e] = pc[e] /\ job'[e] = job[e]
    BY Zenon, <1>T, StepOthers DEF OthersKept
  <1>4. CASE WriteEntry(c)
    <2>1. pc[c] = "write"
      BY Zenon, <1>4 DEF WriteEntry
    <2>2. \A p \in job[c].all \ (job[c].pages \ {PageOf(c)}), k \in {job[c].kind} : MappedAs(p, k)'
      BY Zenon, <1>T, <1>3, <1>4, <2>1, WritesMapped DEF Mapping
    <2>3. CASE job[c].pages \ {PageOf(c)} # {}
      <3>1. job' = [job EXCEPT ![c].pages = job[c].pages \ {PageOf(c)}, ![c].frame = Null] /\ live' = live
        BY <1>4, <2>3, Zenon DEF WriteEntry
      <3>2. job'[c].pages = job[c].pages \ {PageOf(c)} /\ job'[c].all = job[c].all /\ job'[c].kind = job[c].kind
        BY Zenon, <3>1, <1>T DEF Jobs
      <3> QED
        BY <1>1, <1>2, <1>O, <2>2, <3>1, <3>2, ZenonT(40) DEF AllMapped
    <2>4. CASE job[c].pages \ {PageOf(c)} = {}
      <3>1. /\ live' = live \cup {Allocation(job[c])} /\ pc'[c] = "idle"
            /\ job[c].all = PagesOf(Allocation(job[c])) /\ Allocation(job[c]).kind = job[c].kind
        BY Zenon, <1>4, <2>1, <2>4, <1>T DEF WriteEntry, Allocation, Goto, Typed, MapOK, Mapping
      <3>2. \A a \in live' : \A p \in PagesOf(a) : MappedAs(p, a.kind)'
        BY Zenon, <1>1, <2>2, <2>4, <3>1
      <3> QED
        BY Zenon, <1>2, <1>O, <3>1, <3>2 DEF AllMapped, Mapping
    <2> QED
      BY <2>3, <2>4
  <1>5. CASE \E j : Takes(c, j)
    <2>1. PICK j : Takes(c, j)
      BY <1>5
    <2>2. job'[c].all \ job'[c].pages = {} /\ live' = live
      BY Zenon, <2>1, <1>T DEF Takes
    <2> QED
      BY Zenon, <1>1, <1>2, <1>O, <2>2 DEF AllMapped
  <1>6. CASE live' \subseteq live /\ pc'[c] \notin Mapping
    BY Zenon, <1>6, <1>1, <1>2, <1>O DEF AllMapped
  <1>7. CASE /\ live' = live /\ pc[c] \in Mapping /\ job'[c].pages = job[c].pages
             /\ job'[c].all = job[c].all /\ job'[c].kind = job[c].kind
    BY Zenon, <1>7, <1>1, <1>2, <1>3, <1>O DEF AllMapped
  <1>8. ASSUME NEW a \in live, NEW j, Frees(c, a, j) PROVE live' \subseteq live /\ pc'[c] \notin Mapping
    BY Zenon, <1>8, <1>T DEF Frees, Typed, Mapping
  <1>9. ASSUME TakeFrame(c) \/ LookUp(c) \/ MakeTable(c) \/ ClearTable(c)
        PROVE  /\ live' = live /\ pc[c] \in Mapping /\ job'[c].pages = job[c].pages
               /\ job'[c].all = job[c].all /\ job'[c].kind = job[c].kind
    BY <1>9, <1>T DEF TakeFrame, LookUp, MakeTable, ClearTable, Mapping, Jobs
  <1>10. ASSUME \/ ReturnFrame(c) \/ EraseEntry(c) \/ Invalidate(c) \/ Call(c) \/ GivePages(c)
                \/ \E d \in CPUs : Shootdown(c, d)
         PROVE  live' \subseteq live /\ pc'[c] \notin Mapping
    BY Zenon, <1>10, <1>T DEF ReturnFrame, EraseEntry, Invalidate, Call, GivePages, Shootdown, Goto,
       Typed, Mapping
  <1>11. ASSUME NEW p \in Pages, CacheTranslation(c, p)
         PROVE  \/ live' \subseteq live /\ pc'[c] \notin Mapping
                \/ /\ live' = live /\ pc[c] \in Mapping /\ job'[c].pages = job[c].pages
                   /\ job'[c].all = job[c].all /\ job'[c].kind = job[c].kind
    BY <1>11 DEF CacheTranslation, threads
  <1> QED
    BY <1>4, <1>5, <1>6, <1>7, <1>8, <1>9, <1>10, <1>11, <1>T, AllocationTakes, UnmapFrees, ZenonT(40) DEF Step

\* All frames are free at first.
LEMMA InitFrames == Init => FrameInv
  <1> SUFFICES ASSUME Init PROVE FrameInv
    OBVIOUS
  <1>1. Inv /\ Null \notin Frames
    BY Zenon, InitInv, HeapConstants
  <1>2. \A c \in CPUs : pc[c] = "idle" /\ job[c].frame = Null
    BY DEF Init, Idle
  <1>3. \A p \in Pages : entry[p] = NoEntry
    BY Zenon DEF Init
  <1>4. (\A c \in CPUs : HandOK(c)) /\ (\A p \in Pages : EntryOK(p)) /\ TableOK /\ AllMapped
    BY Zenon, <1>2, <1>3 DEF HandOK, EntryOK, TableOK, AllMapped, Mapping, Init
  <1>5. \A x \in Slots, f \in Frames : ~Holds(x, f)
    BY Zenon, <1>1, <1>2, <1>3 DEF Holds, Init, NoEntry
  <1>6. HeldOnce
    BY <1>5 DEF HeldOnce, Init
  <1> QED
    BY <1>1, <1>4, <1>6 DEF FrameInv

\* The invariant of the frames holds in every state.
LEMMA HeapFrames == Spec => []FrameInv
  <1>1. ASSUME FrameInv, NEW c \in CPUs, Step(c), Inv' PROVE FrameInv'
    <2>1. Inv /\ (\A e \in CPUs : HandOK(e)) /\ (\A p \in Pages : EntryOK(p))
      BY <1>1 DEF FrameInv
    <2>2. (\A e \in CPUs : HandOK(e)') /\ (\A p \in Pages : EntryOK(p)')
      BY Zenon, <1>1, <2>1, StepHand, StepEntryOK
    <2>3. ASSUME ~raced' PROVE TableOK' /\ HeldOnce' /\ AllMapped'
      <3>1. ~raced /\ TableOK /\ HeldOnce /\ AllMapped
        BY Zenon, <1>1, <2>3, StepRaced DEF FrameInv
      <3> QED
        BY Zenon, <1>1, <2>3, <3>1, StepTable, StepHeld, StepMapped
    <2> QED
      BY <1>1, <2>2, <2>3 DEF FrameInv
  <1>2. ASSUME FrameInv, UNCHANGED vars, Inv' PROVE FrameInv'
    <2> USE <1>2 DEF vars, allocators, tables, threads, history
    <2>1. \A c \in CPUs : PageOf(c)' = PageOf(c) /\ RegionOf(c)' = RegionOf(c)
      BY Zenon DEF RegionOf, PageOf
    <2>2. (\A c \in CPUs : HandOK(c)') /\ (\A p \in Pages : EntryOK(p)')
      BY Zenon DEF FrameInv, HandOK, EntryOK, Clear
    <2>3. TableOK' <=> TableOK
      BY <2>1 DEF TableOK, Makers
    <2>4. HeldOnce' <=> HeldOnce
      <3>1. \A x \in Slots, f \in Frames : Holds(x, f)' <=> Holds(x, f)
        BY ZenonT(40), <2>1 DEF Holds, Erasing
      <3> QED
        BY Zenon, <3>1 DEF HeldOnce
    <2>5. AllMapped' <=> AllMapped
      BY DEF AllMapped, MappedAs
    <2> QED
      BY Zenon, <2>2, <2>3, <2>4, <2>5 DEF FrameInv
  <1>3. Inv' /\ FrameInv /\ [Next]_vars => FrameInv'
    BY <1>1, <1>2 DEF Next
  <1> QED
    BY InitFrames, HeapInv, <1>3, PTL DEF Spec

\* As long as no two CPUs meet in the creation of a page table, which no lock
\* prevents, every page of a client is mapped to a frame of its own, and every
\* CPU that has cached a translation of it has the current one (paging.cpp and
\* kmalloc.cpp; LivePagesMapped).
THEOREM HeapPagesMapped == Spec => []LivePagesMapped
  <1>1. ASSUME FrameInv PROVE LivePagesMapped
    <2> SUFFICES ASSUME ~raced, NEW a \in live, NEW p \in PagesOf(a)
                 PROVE  /\ entry[p].allocated = (a.kind = "allocated") /\ entry[p].frame # Null
                        /\ table[Region(p)] # Null
                        /\ \A c \in CPUs : tlb[c][p] \in {Null, entry[p].frame}
                        /\ entry[p].allocated =>
                             /\ entry[p].frame \notin freeFrames
                             /\ \A r \in Regions : table[r] # entry[p].frame
                             /\ \A q \in LivePages \ {p} : entry[q].frame # entry[p].frame
      BY DEF LivePagesMapped
    <2>1. Inv /\ TableOK /\ HeldOnce /\ AllMapped /\ (\A q \in Pages : EntryOK(q))
      BY Zenon, <1>1 DEF FrameInv
    <2>2. MappedAs(p, a.kind) /\ p \in Pages
      BY Zenon, <2>1 DEF AllMapped, Inv, LiveOwned
    <2>3. entry[p] # NoEntry
      BY <2>2 DEF MappedAs, NoEntry
    <2>4. table[Region(p)] # Null
      BY Zenon, <2>1, <2>2, <2>3 DEF TableOK
    <2>5. \A q \in LivePages : q \in Pages /\ ~Erasing(q)
      <3>1. \A c \in CPUs : pc[c] = "erase" => PageOf(c) \in job[c].all
        BY <2>1, PageOfType DEF PerPage
      <3>2. \A q \in LivePages : \E b \in live : q \in PagesOf(b)
        BY DEF LivePages
      <3>3. \A b \in live : \A q \in PagesOf(b) : q \in Pages
        BY Zenon, <2>1 DEF Inv, LiveOwned
      <3>4. \A c \in CPUs, b \in live : \A q \in PagesOf(b) : q \notin job[c].all
        BY <2>1 DEF Inv, JobOwned
      <3> QED
        BY Zenon, <2>1, <3>1, <3>2, <3>3, <3>4 DEF Erasing
    <2>6. p \in LivePages
      BY Zenon DEF LivePages
    <2>7. ASSUME entry[p].allocated
          PROVE  /\ entry[p].frame \notin freeFrames
                 /\ \A r \in Regions : table[r] # entry[p].frame
                 /\ \A q \in LivePages \ {p} : entry[q].frame # entry[p].frame
      <3> DEFINE f == entry[p].frame
      <3>1. f \in Frames
        BY <2>1, <2>2, <2>7 DEF EntryOK, NoEntry
      <3>2. \A q \in LivePages : entry[q].frame = f => <<"page", q>> \in Slots /\ Holds(<<"page", q>>, f)
        BY Zenon, <2>5 DEF Slots, Holds
      <3>3. \A r \in Regions : table[r] = f => <<"table", r>> \in Slots /\ Holds(<<"table", r>>, f)
        BY DEF Slots, Holds
      <3>4. \A q \in LivePages, r \in Regions : <<"page", p>> # <<"table", r>> /\ (q # p => <<"page", p>> # <<"page", q>>)
        OBVIOUS
      <3> HIDE DEF f
      <3>5. /\ f \notin freeFrames /\ \A r \in Regions : table[r] # f
            /\ \A q \in LivePages \ {p} : entry[q].frame # f
        BY <2>1, <2>6, <3>1, <3>2, <3>3, <3>4, ZenonT(40) DEF HeldOnce, f
      <3> QED
        BY Zenon, <3>5 DEF f
    <2> QED
      BY Zenon, <2>2, <2>4, <2>7 DEF MappedAs
  <1> QED
    BY HeapFrames, <1>1, PTL

\* As long as no two CPUs meet in the creation of a page table, no frame is lost
\* (FramesAccounted).
THEOREM HeapFramesAccounted == Spec => []FramesAccounted
  <1>1. ASSUME FrameInv PROVE FramesAccounted
    <2> SUFFICES ASSUME ~raced, NEW f \in Frames, f \notin freeFrames
                 PROVE  f \in {table[r] : r \in Regions} \cup {entry[p].frame : p \in Pages}
                               \cup {job[c].frame : c \in CPUs}
      BY Zenon DEF FramesAccounted
    <2>1. PICK x \in Slots : Holds(x, f)
      BY Zenon, <1>1 DEF FrameInv, HeldOnce
    <2> QED
      BY Zenon, <2>1 DEF Holds
  <1> QED
    BY HeapFrames, <1>1, PTL
=============================================================================
