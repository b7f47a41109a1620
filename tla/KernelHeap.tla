----------------------------- MODULE KernelHeap -----------------------------
(***************************************************************************)
(* Kernel memory (memory/kmalloc.cpp, arch/x86_64/kernel/paging/paging.cpp *)
(* and physicalMemory.h): allocateMemory(), mapAddress() and unmapMemory() *)
(* run by one thread on each CPU, with the page tables, which no lock      *)
(* protects, and the translations that each CPU caches.                    *)
(*                                                                         *)
(* The two block maps are the sets of their free pages and frames:         *)
(* allocate() takes any free range or fails, as BlockMap allows.  One      *)
(* level of page tables stands for the three that are allocated on demand. *)
(* runOn() of the shootdown is the wait and the callback of Processors.    *)
(***************************************************************************)
EXTENDS Naturals, FiniteSetsExt

CONSTANTS CPUs,      \* CPU numbers 0 .. n-1
          Pages,     \* kernelHeapStart .. kernelHeapEnd, in pages
          Frames,    \* the frames of physicalMemory
          Zero,      \* frame 0, which allocateFrame() returns when there is none
          Device,    \* a frame outside physicalMemory
          Null,
          Span,      \* how many pages the entries of a page table cover
          PageSize, HeaderSize,
          Sizes,       \* the sizes that clients allocate
          DeviceSizes  \* and map

ASSUME HeapConstants ==
  /\ CPUs \subseteq Nat /\ Pages \subseteq Nat
  /\ {Zero, Device, Null} \cap Frames = {} /\ Null \notin {Zero, Device}
  /\ Span \in Nat \ {0} /\ PageSize \in Nat \ {0} /\ HeaderSize \in Nat
  /\ Sizes \subseteq Nat /\ DeviceSizes \subseteq Nat

NoEntry == [frame |-> Null, allocated |-> FALSE]
Region(p) == p \div Span
Regions == {Region(p) : p \in Pages}
PageCount(bytes) == (bytes + PageSize - 1) \div PageSize
PagesFrom(base, n) == base .. (base + n - 1)

VARIABLES
  freePages, freeFrames,  \* virtualMemory, physicalMemory
  table,      \* the frame of the page table of each region, or Null: not present
  entry,      \* the page table entry of each page
  tlb,        \* the frame that each CPU has cached for each page, or Null
  live,       \* what clients have been given: base, size and kind
  pc,         \* where the thread of each CPU is
  job,        \* its allocation, the pages left of it and the frame in hand
  shot,       \* the CPU it waits for in the shootdown
  raced,      \* history: two CPUs met in the creation of one page table
  exhausted   \* history: a page table was made of frame 0

allocators == <<freePages, freeFrames>>
tables == <<table, entry>>
threads == <<pc, job, shot>>
history == <<raced, exhausted>>
vars == <<allocators, tables, tlb, live, threads, history>>

Idle == [base |-> 0, size |-> 0, kind |-> "none", pages |-> {}, all |-> {}, frame |-> Null]

Init ==
  /\ freePages = Pages /\ freeFrames = Frames
  /\ table = [r \in Regions |-> Null]
  /\ entry = [p \in Pages |-> NoEntry]
  /\ tlb = [c \in CPUs |-> [p \in Pages |-> Null]]
  /\ live = {}
  /\ pc = [c \in CPUs |-> "idle"] /\ job = [c \in CPUs |-> Idle] /\ shot = [c \in CPUs |-> 0]
  /\ raced = FALSE /\ exhausted = FALSE

Goto(c, l) == pc' = [pc EXCEPT ![c] = l]
PageOf(c) == Min(job[c].pages)
RegionOf(c) == Region(PageOf(c))

\* The CPUs that have found the page table of region r missing and have not
\* cleared the one they make.
Makers(r) == {c \in CPUs : pc[c] \in {"table", "clear"} /\ RegionOf(c) = r}
-----------------------------------------------------------------------------
(* allocateMemory() and mapAddress() *)

Start(c, kind, size, n) ==
  \E base \in Pages :
    LET range == PagesFrom(base, n) IN
    /\ pc[c] = "idle" /\ n > 0 /\ range \subseteq freePages
    /\ freePages' = freePages \ range
    /\ job' = [job EXCEPT ![c] = [base |-> base, size |-> size, kind |-> kind, pages |-> range,
                                  all |-> range, frame |-> Null]]
    /\ Goto(c, "frame")
    /\ UNCHANGED <<freeFrames, tables, tlb, live, shot, history>>

AllocateMemory(c, size) == Start(c, "allocated", size, PageCount(size + HeaderSize))

\* The address is page aligned; an offset only adds to the size.
MapAddress(c, size) == Start(c, "device", size, PageCount(size))

\* Mutant: the frame stays in the free list.
TakeFrameKeepsIt(c) ==
  /\ pc[c] = "frame"
  /\ IF job[c].kind = "device" THEN job' = [job EXCEPT ![c].frame = Device]
     ELSE \E f \in freeFrames : job' = [job EXCEPT ![c].frame = f]
  /\ Goto(c, "lookup")
  /\ UNCHANGED <<allocators, tables, tlb, live, shot, history>>

\* allocateFrame() for the next page; kpanic() if there is none.
TakeFrame(c) ==
  /\ pc[c] = "frame"
  /\ \/ /\ job[c].kind = "device"
        /\ job' = [job EXCEPT ![c].frame = Device] /\ Goto(c, "lookup")
        /\ UNCHANGED freeFrames
     \/ /\ job[c].kind = "allocated" /\ freeFrames = {}
        /\ Goto(c, "panic")
        /\ UNCHANGED <<job, freeFrames>>
     \/ \E f \in freeFrames :
          /\ job[c].kind = "allocated"
          /\ freeFrames' = freeFrames \ {f}
          /\ job' = [job EXCEPT ![c].frame = f] /\ Goto(c, "lookup")
  /\ UNCHANGED <<freePages, tables, tlb, live, shot, history>>

\* getPageTableEntry(..., true): is the table present?
LookUp(c) ==
  /\ pc[c] = "lookup"
  /\ Goto(c, IF table[RegionOf(c)] = Null THEN "table" ELSE "write")
  /\ raced' = (raced \/ Makers(RegionOf(c)) # {})
  /\ UNCHANGED <<allocators, tables, tlb, live, job, shot, exhausted>>

\* allocatePageTable() and the store of its entry; a frame of 0 is not noticed.
MakeTable(c) ==
  /\ pc[c] = "table" /\ Goto(c, "clear")
  /\ \/ /\ freeFrames = {}
        /\ table' = [table EXCEPT ![RegionOf(c)] = Zero]
        /\ exhausted' = TRUE
        /\ UNCHANGED freeFrames
     \/ \E f \in freeFrames :
          /\ freeFrames' = freeFrames \ {f}
          /\ table' = [table EXCEPT ![RegionOf(c)] = f]
          /\ UNCHANGED exhausted
  /\ entry' = [p \in Pages |-> IF Region(p) = RegionOf(c) THEN NoEntry ELSE entry[p]]
  /\ UNCHANGED <<freePages, tlb, live, job, shot, raced>>

\* memset() of the new table.
ClearTable(c) ==
  /\ pc[c] = "clear" /\ Goto(c, "write")
  /\ entry' = [p \in Pages |-> IF Region(p) = RegionOf(c) THEN NoEntry ELSE entry[p]]
  /\ UNCHANGED <<allocators, table, tlb, live, job, shot, history>>

\* The store of mapPage(), then the next page or the return to the client.
WriteEntry(c) ==
  LET rest == job[c].pages \ {PageOf(c)} IN
  /\ pc[c] = "write"
  /\ entry' = [entry EXCEPT ![PageOf(c)] =
                 [frame |-> job[c].frame, allocated |-> job[c].kind = "allocated"]]
  /\ IF rest # {}
     THEN /\ Goto(c, "frame") /\ job' = [job EXCEPT ![c].pages = rest, ![c].frame = Null]
          /\ UNCHANGED live
     ELSE /\ Goto(c, "idle") /\ job' = [job EXCEPT ![c] = Idle]
          /\ live' = live \cup {[base |-> job[c].base, size |-> job[c].size, kind |-> job[c].kind]}
  /\ UNCHANGED <<allocators, table, tlb, shot, history>>
-----------------------------------------------------------------------------
(* unmapMemory(), which kfree() and freeStack() call with the size that the  *)
(* client asked for                                                          *)

UnmapMemory(c, a) ==
  LET range == PagesFrom(a.base, PageCount(a.size)) IN
  /\ pc[c] = "idle" /\ a \in live
  /\ live' = live \ {a}
  /\ job' = [job EXCEPT ![c] = [base |-> a.base, size |-> a.size, kind |-> a.kind, pages |-> range,
                                all |-> range, frame |-> Null]]
  /\ Goto(c, IF range = {} THEN "call" ELSE "unmap")
  /\ UNCHANGED <<allocators, tables, tlb, shot, history>>

\* Mutant: the frame is not returned.
ReturnNoFrame(c) ==
  /\ pc[c] = "unmap" /\ Goto(c, "erase")
  /\ UNCHANGED <<allocators, tables, tlb, live, job, shot, history>>

\* returnFrame() of unmapPage(), if there is a table and the frame is ours.
ReturnFrame(c) ==
  LET e == entry[PageOf(c)] IN
  /\ pc[c] = "unmap" /\ Goto(c, "erase")
  /\ freeFrames' = IF table[RegionOf(c)] # Null /\ e.allocated
                   THEN freeFrames \cup {e.frame} ELSE freeFrames
  /\ UNCHANGED <<freePages, tables, tlb, live, job, shot, history>>

EraseEntry(c) ==
  /\ pc[c] = "erase" /\ Goto(c, "invalidate")
  /\ entry' = [entry EXCEPT ![PageOf(c)] = NoEntry]
  /\ UNCHANGED <<allocators, table, tlb, live, job, shot, history>>

\* invalidateTlb() on this CPU, then the next page or the first CPU to call.
Invalidate(c) ==
  LET rest == job[c].pages \ {PageOf(c)} IN
  /\ pc[c] = "invalidate"
  /\ tlb' = [tlb EXCEPT ![c][PageOf(c)] = Null]
  /\ job' = [job EXCEPT ![c].pages = rest]
  /\ Goto(c, IF rest # {} THEN "unmap" ELSE "call")
  /\ UNCHANGED <<allocators, tables, live, shot, history>>

\* The loop over the processors: runOn() for every one but this.
Call(c) ==
  LET left == {d \in CPUs \ {c} : d >= shot[c]} IN
  /\ pc[c] = "call"
  /\ Goto(c, IF left = {} THEN "give" ELSE "wait")
  /\ shot' = [shot EXCEPT ![c] = IF left = {} THEN 0 ELSE Min(left)]
  /\ UNCHANGED <<allocators, tables, tlb, live, job, history>>

\* Mutant: the callback lets the caller go without invalidating.
ShootdownMissing(c, d) ==
  /\ pc[c] = "wait" /\ shot[c] = d /\ pc[d] \notin {"wait", "panic"}
  /\ shot' = [shot EXCEPT ![c] = d + 1]
  /\ Goto(c, "call")
  /\ UNCHANGED <<allocators, tables, tlb, live, job, history>>

\* tlbInvalidationCode runs on CPU d unless d itself waits in runOn(), with
\* its interrupts off, or has stopped.
Shootdown(c, d) ==
  /\ pc[c] = "wait" /\ shot[c] = d /\ pc[d] \notin {"wait", "panic"}
  /\ tlb' = [tlb EXCEPT ![d] = [p \in Pages |-> IF p \in job[c].all THEN Null ELSE @[p]]]
  /\ shot' = [shot EXCEPT ![c] = d + 1]
  /\ Goto(c, "call")
  /\ UNCHANGED <<allocators, tables, live, job, history>>

\* virtualMemory.returnMemory(address, size)
GivePages(c) ==
  /\ pc[c] = "give" /\ Goto(c, "idle")
  /\ freePages' = freePages \cup job[c].all
  /\ job' = [job EXCEPT ![c] = Idle]
  /\ UNCHANGED <<freeFrames, tables, tlb, live, shot, history>>

\* The processor caches the translation of a page that is present, whenever
\* it likes.
CacheTranslation(c, p) ==
  /\ table[Region(p)] # Null /\ entry[p] # NoEntry
  /\ tlb' = [tlb EXCEPT ![c][p] = entry[p].frame]
  /\ UNCHANGED <<allocators, tables, live, threads, history>>

Step(c) ==
  \/ \E size \in Sizes : AllocateMemory(c, size)
  \/ \E size \in DeviceSizes : MapAddress(c, size)
  \/ TakeFrame(c) \/ LookUp(c) \/ MakeTable(c) \/ ClearTable(c) \/ WriteEntry(c)
  \/ \E a \in live : UnmapMemory(c, a)
  \/ ReturnFrame(c) \/ EraseEntry(c) \/ Invalidate(c) \/ Call(c) \/ GivePages(c)
  \/ \E d \in CPUs : Shootdown(c, d)
  \/ \E p \in Pages : CacheTranslation(c, p)

Next == \E c \in CPUs : Step(c)

Spec == Init /\ [][Next]_vars
-----------------------------------------------------------------------------
Jobs ==
  [base : Nat, size : Nat, kind : {"none", "allocated", "device"},
   pages : SUBSET Pages, all : SUBSET Pages, frame : Frames \cup {Null, Device}]

TypeOK ==
  /\ freePages \subseteq Pages /\ freeFrames \subseteq Frames
  /\ table \in [Regions -> Frames \cup {Zero, Null}]
  /\ entry \in [Pages -> [frame : Frames \cup {Null, Device}, allocated : BOOLEAN]]
  /\ tlb \in [CPUs -> [Pages -> Frames \cup {Null, Device}]]
  /\ live \subseteq [base : Pages, size : Sizes \cup DeviceSizes, kind : {"allocated", "device"}]
  /\ pc \in [CPUs -> {"idle", "frame", "lookup", "table", "clear", "write", "unmap", "erase",
                      "invalidate", "call", "wait", "give", "panic"}]
  /\ job \in [CPUs -> Jobs]
  /\ shot \in [CPUs -> Nat]
  /\ raced \in BOOLEAN /\ exhausted \in BOOLEAN

\* The pages a client may use.
PagesOf(a) ==
  PagesFrom(a.base, PageCount(a.size + IF a.kind = "allocated" THEN HeaderSize ELSE 0))
LivePages == UNION {PagesOf(a) : a \in live}

\* No page belongs to two clients, or to a client and to the free list, however
\* the allocations and the frees of the CPUs overlap; and a page that the
\* allocator can hand out has no entry, and no CPU has a translation of it left:
\* its next owner never reaches the old frame (kmalloc.cpp:84-109).
PagesExclusive ==
  /\ TypeOK
  /\ \A a, b \in live : a # b => PagesOf(a) \cap PagesOf(b) = {}
  /\ LivePages \cap freePages = {}
  /\ \A c \in CPUs : job[c].all \cap (LivePages \cup freePages) = {}
  /\ \A p \in freePages : entry[p] = NoEntry /\ \A c \in CPUs : tlb[c][p] = Null

\* Every page of a client is mapped, to its own frame, on all CPUs, and that
\* frame is not free and not a page table: as long as no two CPUs met in the
\* creation of a page table and no table was made of frame 0.
LivePagesMapped ==
  ~raced /\ ~exhausted =>
    \A a \in live : \A p \in PagesOf(a) :
      /\ entry[p].allocated = (a.kind = "allocated") /\ entry[p].frame # Null
      /\ table[Region(p)] # Null
      /\ \A c \in CPUs : tlb[c][p] \in {Null, entry[p].frame}
      /\ entry[p].allocated =>
           /\ entry[p].frame \notin freeFrames
           /\ \A r \in Regions : table[r] # entry[p].frame
           /\ \A q \in LivePages \ {p} : entry[q].frame # entry[p].frame

\* No frame is lost: each one is free, a page table, in an entry or in the hand
\* of a thread that is about to map it; also an entry that unmapMemory() missed,
\* because it rounds the size without the header, keeps its frame.
FramesAccounted ==
  ~raced => Frames \subseteq freeFrames \cup {table[r] : r \in Regions}
                            \cup {entry[p].frame : p \in Pages} \cup {job[c].frame : c \in CPUs}
=============================================================================
