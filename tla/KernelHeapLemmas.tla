-------------------------- MODULE KernelHeapLemmas --------------------------
(***************************************************************************)
(* The inductive invariant of KernelHeap, that it holds at first, and what *)
(* its actions have in common: they keep the types, they are of one thread *)
(* each, and only mapPage() fills an entry.                                *)
(***************************************************************************)
EXTENDS KernelHeap, TLAPS, WellFoundedInduction

Mapping == {"frame", "lookup", "table", "clear", "write"}
PerPage == {"unmap", "erase", "invalidate"}
Labels == Mapping \cup PerPage \cup {"idle", "call", "wait", "give", "panic"}
Unmapping == PerPage \cup {"call", "wait", "give"}
Allocations == [base : Pages, size : Sizes \cup DeviceSizes, kind : {"allocated", "device"}]
Values == Frames \cup {Null, Device}
Entries == [frame : Values, allocated : BOOLEAN]
Allocation(j) == [base |-> j.base, size |-> j.size, kind |-> j.kind]

\* A page is free, or of one client, or of one thread (or of nobody: the page
\* that kfree() forgets).
LiveOwned ==
  \A a \in live : \A p \in PagesOf(a) :
    p \in Pages /\ p \notin freePages /\ \A b \in live : p \in PagesOf(b) => b = a
JobOwned ==
  \A c \in CPUs : \A p \in job[c].all :
    /\ p \notin freePages
    /\ \A a \in live : p \notin PagesOf(a)
    /\ \A d \in CPUs : p \in job[d].all => d = c

\* A free page cannot be reached.
Clear(p) == entry[p] = NoEntry /\ \A c \in CPUs : tlb[c][p] = Null
FreeUnmapped == \A p \in freePages : Clear(p)
FramesOurs == \A p \in Pages : entry[p].allocated => entry[p].frame \in Frames

\* A thread that maps has all pages of what it will give to its client, and a
\* frame once it is past allocateFrame().
MapOK(c) ==
  /\ job[c].pages \subseteq job[c].all
  /\ pc[c] = "idle" => job[c].all = {}
  /\ pc[c] \in Mapping => /\ Allocation(job[c]) \in Allocations
                          /\ job[c].all = PagesOf(Allocation(job[c]))
  /\ pc[c] \in Mapping \ {"frame"} => (job[c].kind = "allocated" => job[c].frame \in Frames)
  /\ pc[c] \in Mapping \cup PerPage => job[c].pages # {}

\* What a thread has unmapped so far: by itself, and on the CPUs it has called.
UnmapOK(c) ==
  /\ pc[c] \notin {"call", "wait"} => shot[c] = 0
  /\ pc[c] \in {"call", "wait", "give"} => job[c].pages = {}
  /\ pc[c] \in Unmapping =>
       \A p \in job[c].all \ job[c].pages : entry[p] = NoEntry /\ tlb[c][p] = Null
  /\ pc[c] = "invalidate" => entry[PageOf(c)] = NoEntry
  /\ pc[c] \in {"call", "wait"} =>
       \A p \in job[c].all : \A d \in CPUs : d < shot[c] => tlb[d][p] = Null
  /\ pc[c] = "give" => \A p \in job[c].all : Clear(p)

Inv ==
  /\ TypeOK /\ LiveOwned /\ JobOwned /\ FreeUnmapped /\ FramesOurs
  /\ \A c \in CPUs : MapOK(c) /\ UnmapOK(c)
-----------------------------------------------------------------------------
\* A set of natural numbers has a least element, which Min() gives.
LEMMA MinLeast ==
  ASSUME NEW S \in SUBSET Nat, S # {}
  PROVE  Min(S) \in S /\ \A x \in S : Min(S) <= x
  <1> DEFINE R == {ss \in Nat \X Nat : ss[1] < ss[2]}
  <1>1. IsWellFoundedOn(R, Nat)
    BY NatLessThanWellFounded, Zenon DEF OpToRel
  <1>A. S \subseteq Nat
    OBVIOUS
  <1>3. \A x, y \in Nat : <<y, x>> \in R <=> y < x
    OBVIOUS
  <1> HIDE DEF R
  <1>2. PICK x \in S : \A y \in S : ~(<<y, x>> \in R)
    BY <1>1, <1>A, WFMin, Zenon
  <1>B. ASSUME NEW y \in S PROVE x <= y
    <2>1. x \in Nat /\ y \in Nat
      BY <1>A
    <2>2. ~(y < x)
      BY <2>1, <1>2, <1>3, Zenon
    <2> QED
      BY <2>1, <2>2
  <1>4. \A y \in S : x <= y
    BY <1>B
  <1> QED
    BY <1>4, Zenon DEF Min

\* More bytes need no fewer pages.
LEMMA Monotone ==
  ASSUME NEW m \in Nat, NEW n \in Nat, m <= n
  PROVE  PageCount(m) \in Int /\ PageCount(n) \in Int /\ PageCount(m) <= PageCount(n)
  <1>0. PageSize \in Nat /\ PageSize > 0
    BY HeapConstants
  <1>1. m + PageSize - 1 \in Nat /\ n + PageSize - 1 \in Nat /\ m + PageSize - 1 <= n + PageSize - 1
    BY <1>0
  <1>2. \A a, b \in Nat : a <= b =>
          /\ a \div PageSize \in Int /\ b \div PageSize \in Int
          /\ a \div PageSize <= b \div PageSize
    BY <1>0
  <1> QED
    BY <1>1, <1>2 DEF PageCount

\* The page that a thread works on is one of its own.
LEMMA PageOfType ==
  ASSUME Inv, NEW c \in CPUs, pc[c] \in Mapping \cup PerPage
  PROVE  PageOf(c) \in job[c].pages /\ PageOf(c) \in job[c].all /\ PageOf(c) \in Pages
  <1>1. job[c] \in Jobs /\ MapOK(c)
    BY DEF Inv, TypeOK
  <1>2. job[c].pages \in SUBSET Nat /\ job[c].pages # {}
    BY <1>1, HeapConstants, Zenon DEF MapOK, Jobs
  <1>3. PageOf(c) \in job[c].pages
    BY <1>2, MinLeast DEF PageOf
  <1> QED
    BY <1>1, <1>3 DEF MapOK, Jobs

\* What unmapMemory() goes through is part of what the client has been given.
LEMMA UnmapRange ==
  ASSUME NEW a \in Allocations
  PROVE  PagesFrom(a.base, PageCount(a.size)) \subseteq PagesOf(a)
  <1>1. a.base \in Nat /\ a.size \in Nat /\ HeaderSize \in Nat
    BY HeapConstants, Zenon DEF Allocations
  <1>2. a.size <= a.size + HeaderSize /\ a.size + HeaderSize \in Nat
    BY <1>1
  <1>3. CASE a.kind = "allocated"
    BY <1>1, <1>2, <1>3, Monotone DEF PagesOf, PagesFrom
  <1>4. CASE a.kind # "allocated"
    BY <1>1, <1>4, Monotone DEF PagesOf, PagesFrom
  <1> QED
    BY <1>3, <1>4

\* All pages are free at first.
LEMMA InitInv == Init => Inv
  <1> SUFFICES ASSUME Init PROVE Inv
    OBVIOUS
  <1>0. \A c \in CPUs : pc[c] = "idle" /\ shot[c] = 0 /\ job[c] = Idle
    BY DEF Init
  <1>1. Idle \in Jobs
    BY DEF Idle, Jobs
  <1>2. TypeOK
    BY <1>1, HeapConstants, Zenon DEF Init, TypeOK, NoEntry
  <1>3. LiveOwned /\ JobOwned
    BY <1>0 DEF LiveOwned, JobOwned, Init, Idle
  <1>4. FreeUnmapped /\ FramesOurs
    BY DEF FreeUnmapped, FramesOurs, Clear, Init, NoEntry
  <1>5. ASSUME NEW c \in CPUs PROVE MapOK(c) /\ UnmapOK(c)
    BY <1>0 DEF MapOK, UnmapOK, Mapping, Unmapping, PerPage, Idle
  <1> QED
    BY <1>2, <1>3, <1>4, <1>5 DEF Inv
-----------------------------------------------------------------------------
\* allocateMemory() or mapAddress() takes the pages of j from the free ones.
Takes(c, j) ==
  /\ pc[c] = "idle" /\ j \in Jobs /\ j.frame = Null /\ j.pages = j.all
  /\ Allocation(j) \in Allocations /\ j.all = PagesOf(Allocation(j)) /\ j.all # {}
  /\ j.all \subseteq freePages /\ freePages' = freePages \ j.all
  /\ job' = [job EXCEPT ![c] = j] /\ pc' = [pc EXCEPT ![c] = "frame"]
  /\ UNCHANGED <<freeFrames, tables, tlb, live, shot, history>>

\* That is what the two functions have in common.
LEMMA StartTakes ==
  ASSUME Inv, NEW c \in CPUs, NEW kind \in {"allocated", "device"},
         NEW size \in Sizes \cup DeviceSizes,
         Start(c, kind, size, PageCount(size + IF kind = "allocated" THEN HeaderSize ELSE 0))
  PROVE  \E j : Takes(c, j)
  <1> DEFINE n == PageCount(size + IF kind = "allocated" THEN HeaderSize ELSE 0)
             J(b) == [base |-> b, size |-> size, kind |-> kind, pages |-> PagesFrom(b, n),
                      all |-> PagesFrom(b, n), frame |-> Null]
  <1>1. size + (IF kind = "allocated" THEN HeaderSize ELSE 0) \in Nat /\ size \in Nat
    BY HeapConstants
  <1>2. n \in Int
    BY <1>1, Monotone
  <1>3. PICK b \in Pages :
          /\ pc[c] = "idle" /\ n > 0 /\ PagesFrom(b, n) \subseteq freePages
          /\ freePages' = freePages \ PagesFrom(b, n)
          /\ job' = [job EXCEPT ![c] = J(b)] /\ pc' = [pc EXCEPT ![c] = "frame"]
          /\ UNCHANGED <<freeFrames, tables, tlb, live, shot, history>>
    BY Zenon DEF Start, Goto
  <1>4. b \in Nat /\ b \in PagesFrom(b, n)
    BY <1>2, <1>3, HeapConstants DEF PagesFrom
  <1>5. PagesOf(Allocation(J(b))) = PagesFrom(b, n)
    BY DEF PagesOf, Allocation
  <1>6. Allocation(J(b)) \in Allocations
    BY DEF Allocation, Allocations
  <1>7. PagesFrom(b, n) \subseteq Pages
    BY <1>3 DEF Inv, TypeOK
  <1> HIDE DEF n
  <1>8. J(b) \in Jobs
    BY <1>1, <1>4, <1>7 DEF Jobs
  <1>9. Takes(c, J(b))
    BY <1>3, <1>4, <1>5, <1>6, <1>8 DEF Takes
  <1> QED
    BY <1>9

\* Both functions do it.
LEMMA AllocationTakes ==
  ASSUME Inv, NEW c \in CPUs,
         \/ \E size \in Sizes : AllocateMemory(c, size)
         \/ \E size \in DeviceSizes : MapAddress(c, size)
  PROVE  \E j : Takes(c, j)
  <1>1. ASSUME NEW size \in Sizes, AllocateMemory(c, size) PROVE \E j : Takes(c, j)
    <2>1. Start(c, "allocated", size, PageCount(size + IF "allocated" = "allocated" THEN HeaderSize ELSE 0))
      BY <1>1 DEF AllocateMemory
    <2> QED
      BY <2>1, StartTakes
  <1>2. ASSUME NEW size \in DeviceSizes, MapAddress(c, size) PROVE \E j : Takes(c, j)
    <2>0. size + 0 = size
      BY HeapConstants
    <2>1. Start(c, "device", size, PageCount(size + IF "device" = "allocated" THEN HeaderSize ELSE 0))
      BY <1>2, <2>0 DEF MapAddress
    <2> QED
      BY <2>1, StartTakes
  <1> QED
    BY <1>1, <1>2

\* unmapMemory() takes the pages of j, which are a client's, from it.
Frees(c, a, j) ==
  /\ pc[c] = "idle" /\ a \in live /\ live' = live \ {a}
  /\ j \in Jobs /\ j.frame = Null /\ j.pages = j.all /\ j.all \subseteq PagesOf(a)
  /\ job' = [job EXCEPT ![c] = j]
  /\ pc' = [pc EXCEPT ![c] = IF j.all = {} THEN "call" ELSE "unmap"]
  /\ UNCHANGED <<allocators, tables, tlb, shot, history>>

\* That is how unmapMemory() begins, with the size that the client has passed.
LEMMA UnmapFrees ==
  ASSUME Inv, NEW c \in CPUs, NEW a \in live, UnmapMemory(c, a)
  PROVE  \E j : Frees(c, a, j)
  <1> DEFINE r == PagesFrom(a.base, PageCount(a.size))
             j == [base |-> a.base, size |-> a.size, kind |-> a.kind, pages |-> r,
                   all |-> r, frame |-> Null]
  <1>1. a \in Allocations
    BY DEF Inv, TypeOK, Allocations
  <1>2. r \subseteq PagesOf(a) /\ r \subseteq Pages
    BY <1>1, UnmapRange DEF Inv, LiveOwned
  <1>3. a.base \in Nat /\ a.size \in Nat /\ a.kind \in {"allocated", "device"}
    BY <1>1, HeapConstants, Zenon DEF Allocations
  <1>4. j \in Jobs
    BY <1>2, <1>3 DEF Jobs
  <1>5. Frees(c, a, j)
    BY <1>2, <1>4 DEF UnmapMemory, Goto, Frees
  <1> QED
    BY <1>5
-----------------------------------------------------------------------------
\* Every step keeps the type of the jobs.
LEMMA StepJobs ==
  ASSUME Inv, NEW c \in CPUs, Step(c)
  PROVE  job' \in [CPUs -> Jobs]
  <1>0. job \in [CPUs -> Jobs] /\ job[c] \in Jobs
    BY DEF Inv, TypeOK
  <1>A. \A f \in Frames \cup {Null, Device} : [job[c] EXCEPT !.frame = f] \in Jobs
    BY <1>0 DEF Jobs
  <1>B. \A r \in SUBSET job[c].pages : [job[c] EXCEPT !.pages = r] \in Jobs
    BY <1>0 DEF Jobs
  <1>C. \A r \in SUBSET job[c].pages, f \in Frames \cup {Null, Device} :
          [job[c] EXCEPT !.pages = r, !.frame = f] \in Jobs
    BY <1>0, Zenon DEF Jobs
  <1>D. Idle \in Jobs
    BY DEF Idle, Jobs
  <1>1. ASSUME NEW j, Takes(c, j) PROVE job' \in [CPUs -> Jobs]
    BY <1>1, <1>0 DEF Takes
  <1>2. ASSUME NEW a \in live, NEW j, Frees(c, a, j) PROVE job' \in [CPUs -> Jobs]
    BY <1>2, <1>0 DEF Frees
  <1>3. ASSUME TakeFrame(c) PROVE job' \in [CPUs -> Jobs]
    <2>1. freeFrames \subseteq Frames
      BY DEF Inv, TypeOK
    <2> QED
      BY <1>3, <2>1, <1>0, <1>A DEF TakeFrame
  <1>4. ASSUME LookUp(c) PROVE job' \in [CPUs -> Jobs]
    BY <1>4, <1>0 DEF LookUp
  <1>5. ASSUME MakeTable(c) PROVE job' \in [CPUs -> Jobs]
    BY <1>5, <1>0 DEF MakeTable
  <1>6. ASSUME ClearTable(c) PROVE job' \in [CPUs -> Jobs]
    BY <1>6, <1>0 DEF ClearTable
  <1>7. ASSUME WriteEntry(c) PROVE job' \in [CPUs -> Jobs]
    <2>1. CASE job[c].pages \ {PageOf(c)} # {}
      <3>1. job' = [job EXCEPT ![c] = [job[c] EXCEPT !.pages = job[c].pages \ {PageOf(c)}, !.frame = Null]]
        BY <1>7, <1>0, <2>1, Zenon DEF WriteEntry
      <3>2. [job[c] EXCEPT !.pages = job[c].pages \ {PageOf(c)}, !.frame = Null] \in Jobs
        BY <1>C, Zenon
      <3> QED
        BY <1>0, <3>1, <3>2
    <2>2. CASE job[c].pages \ {PageOf(c)} = {}
      BY <1>7, <1>0, <1>D, <2>2 DEF WriteEntry
    <2> QED
      BY <2>1, <2>2
  <1>8. ASSUME ReturnFrame(c) PROVE job' \in [CPUs -> Jobs]
    BY <1>8, <1>0 DEF ReturnFrame
  <1>9. ASSUME EraseEntry(c) PROVE job' \in [CPUs -> Jobs]
    BY <1>9, <1>0 DEF EraseEntry
  <1>10. ASSUME Invalidate(c) PROVE job' \in [CPUs -> Jobs]
    BY <1>10, <1>0, <1>B DEF Invalidate
  <1>11. ASSUME Call(c) PROVE job' \in [CPUs -> Jobs]
    BY <1>11, <1>0 DEF Call
  <1>12. ASSUME GivePages(c) PROVE job' \in [CPUs -> Jobs]
    BY <1>12, <1>0, <1>D DEF GivePages
  <1>13. ASSUME NEW d \in CPUs, Shootdown(c, d) PROVE job' \in [CPUs -> Jobs]
    BY <1>13, <1>0 DEF Shootdown
  <1>14. ASSUME NEW p \in Pages, CacheTranslation(c, p) PROVE job' \in [CPUs -> Jobs]
    BY <1>14, <1>0 DEF CacheTranslation, threads
  <1> QED
    BY <1>1, <1>2, <1>3, <1>4, <1>5, <1>6, <1>7, <1>8, <1>9, <1>10,
       <1>11, <1>12, <1>13, <1>14, AllocationTakes, UnmapFrees DEF Step

OthersKept(c) ==
  \A e \in CPUs \ {c} : job'[e] = job[e] /\ pc'[e] = pc[e] /\ shot'[e] = shot[e]

\* A step is of one thread.
LEMMA StepOthers ==
  ASSUME Inv, NEW c \in CPUs, Step(c)
  PROVE  OthersKept(c)
  <1> USE DEF Inv, TypeOK, OthersKept
  <1>1. ASSUME NEW j, Takes(c, j) PROVE OthersKept(c)
    BY <1>1 DEF Takes
  <1>2. ASSUME NEW a \in live, NEW j, Frees(c, a, j) PROVE OthersKept(c)
    BY <1>2 DEF Frees
  <1>3. ASSUME TakeFrame(c) PROVE OthersKept(c)
    BY <1>3 DEF TakeFrame, Goto
  <1>4. ASSUME LookUp(c) PROVE OthersKept(c)
    BY <1>4 DEF LookUp, Goto
  <1>5. ASSUME MakeTable(c) PROVE OthersKept(c)
    BY <1>5 DEF MakeTable, Goto
  <1>6. ASSUME ClearTable(c) PROVE OthersKept(c)
    BY <1>6 DEF ClearTable, Goto
  <1>7. ASSUME WriteEntry(c) PROVE OthersKept(c)
    BY <1>7 DEF WriteEntry, Goto
  <1>8. ASSUME ReturnFrame(c) PROVE OthersKept(c)
    BY <1>8 DEF ReturnFrame, Goto
  <1>9. ASSUME EraseEntry(c) PROVE OthersKept(c)
    BY <1>9 DEF EraseEntry, Goto
  <1>10. ASSUME Invalidate(c) PROVE OthersKept(c)
    BY <1>10 DEF Invalidate, Goto
  <1>11. ASSUME Call(c) PROVE OthersKept(c)
    BY <1>11 DEF Call, Goto
  <1>12. ASSUME GivePages(c) PROVE OthersKept(c)
    BY <1>12 DEF GivePages, Goto
  <1>13. ASSUME NEW d \in CPUs, Shootdown(c, d) PROVE OthersKept(c)
    BY <1>13 DEF Shootdown, Goto
  <1>14. ASSUME NEW p \in Pages, CacheTranslation(c, p) PROVE OthersKept(c)
    BY <1>14 DEF CacheTranslation, threads
  <1> HIDE DEF Inv, TypeOK, OthersKept
  <1> QED
    BY <1>1, <1>2, <1>3, <1>4, <1>5, <1>6, <1>7, <1>8, <1>9, <1>10,
       <1>11, <1>12, <1>13, <1>14, AllocationTakes, UnmapFrees DEF Step

\* TypeOK without the jobs.
Typed ==
  /\ freePages \subseteq Pages /\ freeFrames \subseteq Frames
  /\ table \in [Regions -> Frames \cup {Zero, Null}]
  /\ entry \in [Pages -> Entries]
  /\ tlb \in [CPUs -> [Pages -> Values]]
  /\ live \subseteq Allocations /\ shot \in [CPUs -> Nat] /\ pc \in [CPUs -> Labels]
  /\ raced \in BOOLEAN /\ exhausted \in BOOLEAN

\* Every step keeps the types.
LEMMA StepTyped ==
  ASSUME Inv, NEW c \in CPUs, Step(c)
  PROVE  Typed'
  <1>T. Typed /\ FramesOurs /\ MapOK(c) /\ job[c] \in Jobs
    BY DEF Inv, TypeOK, Typed, Allocations, Entries, Values, Labels, Mapping, PerPage
  <1>0. pc[c] \in Mapping \cup PerPage =>
          PageOf(c) \in job[c].pages /\ PageOf(c) \in job[c].all /\ PageOf(c) \in Pages
    BY PageOfType
  <1> USE <1>T, <1>0 DEF Typed, allocators, tables, threads, history, Labels, Mapping, PerPage
  <1>1. ASSUME NEW j, Takes(c, j) PROVE Typed'
    BY <1>1 DEF Takes
  <1>2. ASSUME NEW a \in live, NEW j, Frees(c, a, j) PROVE Typed'
    BY <1>2 DEF Frees
  <1>3. ASSUME TakeFrame(c) PROVE Typed'
    BY <1>3 DEF TakeFrame, Goto
  <1>4. ASSUME LookUp(c) PROVE Typed'
    BY <1>4 DEF LookUp, Goto
  <1>5. ASSUME MakeTable(c) PROVE Typed'
    <2>1. RegionOf(c) \in Regions
      BY <1>5 DEF MakeTable, RegionOf, Regions
    <2>2. NoEntry \in Entries
      BY DEF NoEntry, Entries, Values
    <2>3. entry' \in [Pages -> Entries]
      BY <1>5, <2>2 DEF MakeTable
    <2>4. table' \in [Regions -> Frames \cup {Zero, Null}] /\ freeFrames' \subseteq Frames
      BY <1>5, <2>1, Zenon DEF MakeTable
    <2> QED
      BY <1>5, <2>3, <2>4, Zenon DEF MakeTable, Goto
  <1>6. ASSUME ClearTable(c) PROVE Typed'
    BY <1>6 DEF ClearTable, Goto, NoEntry, Entries, Values
  <1>7. ASSUME WriteEntry(c) PROVE Typed'
    <2>1. [frame |-> job[c].frame, allocated |-> job[c].kind = "allocated"]
             \in Entries
      BY DEF Jobs, Entries, Values
    <2>2. entry' \in [Pages -> Entries]
      BY <1>7, <2>1 DEF WriteEntry
    <2>3. live' \subseteq Allocations
      BY <1>7 DEF WriteEntry, MapOK, Allocation
    <2>4. pc' \in [CPUs -> Labels]
      BY <1>7, Zenon DEF WriteEntry, Goto
    <2> QED
      BY <1>7, <2>2, <2>3, <2>4 DEF WriteEntry
  <1>8. ASSUME ReturnFrame(c) PROVE Typed'
    <2>1. freeFrames' \subseteq Frames
      BY <1>8 DEF ReturnFrame, FramesOurs
    <2> QED
      BY <1>8, <2>1 DEF ReturnFrame, Goto
  <1>9. ASSUME EraseEntry(c) PROVE Typed'
    BY <1>9 DEF EraseEntry, Goto, NoEntry, Entries, Values
  <1>10. ASSUME Invalidate(c) PROVE Typed'
    BY <1>10 DEF Invalidate, Goto, Values
  <1>11. ASSUME Call(c) PROVE Typed'
    <2> DEFINE left == {d \in CPUs \ {c} : d >= shot[c]}
    <2>1. left \in SUBSET Nat
      BY HeapConstants, Zenon
    <2>2. left # {} => Min(left) \in Nat
      BY <2>1, MinLeast, Zenon
    <2>3. shot' = [shot EXCEPT ![c] = IF left = {} THEN 0 ELSE Min(left)]
      BY <1>11 DEF Call
    <2> HIDE DEF left
    <2>4. shot' \in [CPUs -> Nat]
      BY <2>2, <2>3
    <2> QED
      BY <1>11, <2>4 DEF Call, Goto
  <1>12. ASSUME GivePages(c) PROVE Typed'
    BY <1>12 DEF GivePages, Goto, Jobs
  <1>13. ASSUME NEW d \in CPUs, Shootdown(c, d) PROVE Typed'
    <2>1. shot' \in [CPUs -> Nat]
      BY <1>13, HeapConstants DEF Shootdown
    <2>2. tlb' \in [CPUs -> [Pages -> Values]]
      BY <1>13 DEF Shootdown, Values
    <2> QED
      BY <1>13, <2>1, <2>2 DEF Shootdown, Goto
  <1>14. ASSUME NEW p \in Pages, CacheTranslation(c, p) PROVE Typed'
    BY <1>14 DEF CacheTranslation, Entries
  <1> HIDE <1>T, <1>0 DEF Typed, allocators, tables, threads, history, Labels, Mapping, PerPage
  <1> QED
    BY <1>1, <1>2, <1>3, <1>4, <1>5, <1>6, <1>7, <1>8, <1>9, <1>10,
       <1>11, <1>12, <1>13, <1>14, AllocationTakes, UnmapFrees DEF Step

\* A step takes a page out of the page tables and the TLBs, or puts one that is
\* in the tables into a TLB.
Quiet(p) ==
  /\ entry'[p] \in {entry[p], NoEntry}
  /\ \A d \in CPUs : tlb'[d][p] \in {tlb[d][p], Null} \/ entry[p] # NoEntry
QuietBut(c) == \A p \in Pages : Quiet(p) \/ (pc[c] = "write" /\ p = PageOf(c))

\* Only mapPage() fills an entry, that of the page it is at.
LEMMA StepQuiet ==
  ASSUME Inv, NEW c \in CPUs, Step(c)
  PROVE  QuietBut(c)
  <1>T. Typed
    BY DEF Inv, TypeOK, Typed, Allocations, Entries, Values, Labels, Mapping, PerPage
  <1>0. pc[c] \in Mapping \cup PerPage =>
          PageOf(c) \in job[c].pages /\ PageOf(c) \in job[c].all /\ PageOf(c) \in Pages
    BY PageOfType
  <1> USE <1>T, <1>0 DEF Typed, Quiet, QuietBut, allocators, tables, threads, history, Mapping, PerPage
  <1>1. ASSUME NEW j, Takes(c, j) PROVE QuietBut(c)
    BY <1>1 DEF Takes
  <1>2. ASSUME NEW a \in live, NEW j, Frees(c, a, j) PROVE QuietBut(c)
    BY <1>2 DEF Frees
  <1>3. ASSUME TakeFrame(c) PROVE QuietBut(c)
    BY <1>3 DEF TakeFrame
  <1>4. ASSUME LookUp(c) PROVE QuietBut(c)
    BY <1>4 DEF LookUp
  <1>5. ASSUME MakeTable(c) PROVE QuietBut(c)
    BY <1>5 DEF MakeTable
  <1>6. ASSUME ClearTable(c) PROVE QuietBut(c)
    BY <1>6 DEF ClearTable
  <1>7. ASSUME WriteEntry(c) PROVE QuietBut(c)
    BY <1>7 DEF WriteEntry
  <1>8. ASSUME ReturnFrame(c) PROVE QuietBut(c)
    BY <1>8 DEF ReturnFrame
  <1>9. ASSUME EraseEntry(c) PROVE QuietBut(c)
    BY <1>9 DEF EraseEntry
  <1>10. ASSUME Invalidate(c) PROVE QuietBut(c)
    BY <1>10 DEF Invalidate
  <1>11. ASSUME Call(c) PROVE QuietBut(c)
    BY <1>11 DEF Call
  <1>12. ASSUME GivePages(c) PROVE QuietBut(c)
    BY <1>12 DEF GivePages
  <1>13. ASSUME NEW d \in CPUs, Shootdown(c, d) PROVE QuietBut(c)
    BY <1>13 DEF Shootdown
  <1>14. ASSUME NEW p \in Pages, CacheTranslation(c, p) PROVE QuietBut(c)
    BY <1>14 DEF CacheTranslation
  <1> HIDE <1>T, <1>0 DEF Typed, Quiet, QuietBut, allocators, tables, threads, history, Mapping, PerPage
  <1> QED
    BY <1>1, <1>2, <1>3, <1>4, <1>5, <1>6, <1>7, <1>8, <1>9, <1>10,
       <1>11, <1>12, <1>13, <1>14, AllocationTakes, UnmapFrees DEF Step
=============================================================================
