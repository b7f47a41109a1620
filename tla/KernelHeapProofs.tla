-------------------------- MODULE KernelHeapProofs --------------------------
(***************************************************************************)
(* That no page of the kernel's heap has two owners, and none is handed    *)
(* out while some CPU can still reach what it was mapped to, for any number*)
(* of CPUs, pages, frames and sizes.  The page tables need no lock for it: *)
(* a page belongs to the free list, to a client or to one thread, and what *)
(* a thread has erased nobody else can map or cache.                       *)
(***************************************************************************)
EXTENDS KernelHeapLemmas

\* The CPUs before the next one.
LEMMA NextOrLess == \A m, n \in Nat : m < n + 1 => m = n \/ m < n
  OBVIOUS

\* Pages go to a client from the thread that has mapped them.
LEMMA StepLiveOwned ==
  ASSUME Inv, NEW c \in CPUs, Step(c)
  PROVE  LiveOwned'
  <1>T. Typed /\ MapOK(c) /\ UnmapOK(c) /\ job \in [CPUs -> Jobs] /\ job[c] \in Jobs
    BY DEF Inv, TypeOK, Typed, Allocations, Entries, Values, Labels, Mapping, PerPage
  <1>0. pc[c] \in Mapping \cup PerPage =>
          PageOf(c) \in job[c].pages /\ PageOf(c) \in job[c].all /\ PageOf(c) \in Pages
    BY PageOfType
  <1>1A. LiveOwned /\ JobOwned /\ freePages \subseteq Pages /\ job[c].all \subseteq Pages
    BY <1>T DEF Inv, Typed, Jobs
  <1> USE <1>T, <1>1A DEF LiveOwned, JobOwned, MapOK, Mapping, Allocation, allocators, threads
  <1>1. ASSUME NEW j, Takes(c, j) PROVE LiveOwned'
    BY <1>1 DEF Takes
  <1>2. ASSUME NEW a \in live, NEW j, Frees(c, a, j) PROVE LiveOwned'
    BY <1>2 DEF Frees
  <1>3. ASSUME TakeFrame(c) PROVE LiveOwned'
    BY <1>3 DEF TakeFrame
  <1>4. ASSUME LookUp(c) PROVE LiveOwned'
    BY <1>4 DEF LookUp
  <1>5. ASSUME MakeTable(c) PROVE LiveOwned'
    BY <1>5 DEF MakeTable
  <1>6. ASSUME ClearTable(c) PROVE LiveOwned'
    BY <1>6 DEF ClearTable
  <1>7. ASSUME WriteEntry(c) PROVE LiveOwned'
    BY <1>7 DEF WriteEntry
  <1>8. ASSUME ReturnFrame(c) PROVE LiveOwned'
    BY <1>8 DEF ReturnFrame
  <1>9. ASSUME EraseEntry(c) PROVE LiveOwned'
    BY <1>9 DEF EraseEntry
  <1>10. ASSUME Invalidate(c) PROVE LiveOwned'
    BY <1>10 DEF Invalidate
  <1>11. ASSUME Call(c) PROVE LiveOwned'
    BY <1>11 DEF Call
  <1>12. ASSUME GivePages(c) PROVE LiveOwned'
    BY <1>12 DEF GivePages
  <1>13. ASSUME NEW d \in CPUs, Shootdown(c, d) PROVE LiveOwned'
    BY <1>13 DEF Shootdown
  <1>14. ASSUME NEW p \in Pages, CacheTranslation(c, p) PROVE LiveOwned'
    BY <1>14 DEF CacheTranslation
  <1> HIDE <1>T, <1>1A DEF LiveOwned, JobOwned, MapOK, Mapping, Allocation, allocators, threads
  <1> QED
    BY Zenon, <1>1, <1>2, <1>3, <1>4, <1>5, <1>6, <1>7, <1>8, <1>9, <1>10,
       <1>11, <1>12, <1>13, <1>14, AllocationTakes, UnmapFrees DEF Step

\* Pages go to a thread from the free list or from a client.
LEMMA StepJobOwned ==
  ASSUME Inv, NEW c \in CPUs, Step(c)
  PROVE  JobOwned'
  <1>T. Typed /\ MapOK(c) /\ UnmapOK(c) /\ job \in [CPUs -> Jobs] /\ job[c] \in Jobs
    BY Zenon DEF Inv, TypeOK, Typed, Allocations, Entries, Values, Labels, Mapping, PerPage
  <1>0. pc[c] \in Mapping \cup PerPage =>
          PageOf(c) \in job[c].pages /\ PageOf(c) \in job[c].all /\ PageOf(c) \in Pages
    BY PageOfType
  <1>O. \A e \in CPUs \ {c} : job'[e].all = job[e].all
    BY StepOthers DEF OthersKept
  <1>1A. LiveOwned /\ JobOwned
    BY DEF Inv
  <1> USE <1>T, <1>1A DEF LiveOwned, JobOwned, allocators, threads
  <1>1. ASSUME NEW j, Takes(c, j) PROVE JobOwned'
    <2>1. job'[c].all = j.all
      BY <1>1 DEF Takes
    <2> QED
      BY <1>1, <2>1, <1>O DEF Takes
  <1>2. ASSUME NEW a \in live, NEW j, Frees(c, a, j) PROVE JobOwned'
    <2>1. job'[c].all = j.all
      BY <1>2 DEF Frees
    <2> QED
      BY <1>2, <2>1, <1>O DEF Frees
  <1>3. ASSUME TakeFrame(c) PROVE JobOwned'
    <2>1. job'[c].all = job[c].all
      BY <1>3 DEF TakeFrame, Jobs
    <2> QED
      BY <1>3, <2>1, <1>O DEF TakeFrame
  <1>4. ASSUME LookUp(c) PROVE JobOwned'
    BY <1>4 DEF LookUp
  <1>5. ASSUME MakeTable(c) PROVE JobOwned'
    BY <1>5 DEF MakeTable
  <1>6. ASSUME ClearTable(c) PROVE JobOwned'
    BY <1>6 DEF ClearTable
  <1>7. ASSUME WriteEntry(c) PROVE JobOwned'
    <2>1. \/ job'[c].all = job[c].all /\ live' = live
          \/ job'[c].all = {} /\ live' = live \cup {Allocation(job[c])}
      <3>1. CASE job[c].pages \ {PageOf(c)} # {}
        <4>1. job' = [job EXCEPT ![c].pages = job[c].pages \ {PageOf(c)}, ![c].frame = Null] /\ live' = live
          BY <1>7, <3>1, Zenon DEF WriteEntry
        <4>2. job'[c].all = job[c].all
          BY <4>1 DEF Jobs
        <4> QED
          BY <4>1, <4>2
      <3>2. CASE job[c].pages \ {PageOf(c)} = {}
        BY <1>7, <3>2 DEF WriteEntry, Idle, Allocation
      <3> QED
        BY <3>1, <3>2
    <2> QED
      BY <1>7, <2>1, <1>O DEF WriteEntry, MapOK, Mapping
  <1>8. ASSUME ReturnFrame(c) PROVE JobOwned'
    BY <1>8 DEF ReturnFrame
  <1>9. ASSUME EraseEntry(c) PROVE JobOwned'
    BY <1>9 DEF EraseEntry
  <1>10. ASSUME Invalidate(c) PROVE JobOwned'
    <2>1. job'[c].all = job[c].all
      BY <1>10 DEF Invalidate, Jobs
    <2> QED
      BY <1>10, <2>1, <1>O DEF Invalidate
  <1>11. ASSUME Call(c) PROVE JobOwned'
    BY <1>11 DEF Call
  <1>12. ASSUME GivePages(c) PROVE JobOwned'
    <2>1. job'[c].all = {} /\ freePages' = freePages \cup job[c].all /\ live' = live
      BY <1>12 DEF GivePages, Idle
    <2> QED
      BY <1>12, <2>1, <1>O
  <1>13. ASSUME NEW d \in CPUs, Shootdown(c, d) PROVE JobOwned'
    BY <1>13 DEF Shootdown
  <1>14. ASSUME NEW p \in Pages, CacheTranslation(c, p) PROVE JobOwned'
    BY <1>14 DEF CacheTranslation
  <1> HIDE <1>T, <1>1A DEF LiveOwned, JobOwned, allocators, threads
  <1> QED
    BY <1>1, <1>2, <1>3, <1>4, <1>5, <1>6, <1>7, <1>8, <1>9, <1>10,
       <1>11, <1>12, <1>13, <1>14, AllocationTakes, UnmapFrees DEF Step

\* The free pages stay unmapped; GivePages() adds pages that no CPU knows.
LEMMA StepFreeUnmapped ==
  ASSUME Inv, NEW c \in CPUs, Step(c)
  PROVE  FreeUnmapped'
  <1>1. \A p \in Pages : Quiet(p) \/ (pc[c] = "write" /\ p = PageOf(c))
    BY StepQuiet DEF QuietBut
  <1>2. pc[c] = "write" => PageOf(c) \notin freePages
    BY PageOfType DEF Inv, JobOwned, Mapping
  <1>3. freePages \subseteq Pages /\ FreeUnmapped /\ UnmapOK(c)
    BY DEF Inv, TypeOK
  <1>4. \A p \in freePages : Clear(p)'
    BY <1>1, <1>2, <1>3 DEF FreeUnmapped, Clear, Quiet
  <1>5. CASE freePages' \subseteq freePages
    BY <1>4, <1>5 DEF FreeUnmapped
  <1>6. CASE GivePages(c)
    BY Zenon, <1>3, <1>4, <1>6 DEF GivePages, FreeUnmapped, UnmapOK, Clear, tables
  <1>7. freePages' \subseteq freePages \/ GivePages(c)
    BY Zenon, AllocationTakes, UnmapFrees
       DEF Step, Takes, Frees, TakeFrame, LookUp, MakeTable, ClearTable, WriteEntry, ReturnFrame,
           EraseEntry, Invalidate, Call, Shootdown, CacheTranslation, allocators
  <1> QED
    BY <1>5, <1>6, <1>7

\* An entry that is ours has a frame of ours.
LEMMA StepFramesOurs ==
  ASSUME Inv, NEW c \in CPUs, Step(c)
  PROVE  FramesOurs'
  <1>1. \A p \in Pages : entry'[p] \in {entry[p], NoEntry} \/ (pc[c] = "write" /\ p = PageOf(c))
    BY StepQuiet DEF Quiet, QuietBut
  <1>2. /\ ~NoEntry.allocated /\ FramesOurs /\ MapOK(c)
        /\ entry \in [Pages -> [frame : Frames \cup {Null, Device}, allocated : BOOLEAN]]
    BY Zenon DEF Inv, TypeOK, NoEntry
  <1>3. pc[c] = "write" => WriteEntry(c) \/ UNCHANGED entry
    BY DEF Step, AllocateMemory, MapAddress, Start, TakeFrame, LookUp, MakeTable, ClearTable,
           UnmapMemory, ReturnFrame, EraseEntry, Invalidate, Call, GivePages, Shootdown,
           CacheTranslation, tables
  <1>4. WriteEntry(c) => (entry'[PageOf(c)].allocated => entry'[PageOf(c)].frame \in Frames)
    <2> SUFFICES ASSUME WriteEntry(c), entry'[PageOf(c)].allocated PROVE entry'[PageOf(c)].frame \in Frames
      OBVIOUS
    <2>1. entry'[PageOf(c)] = [frame |-> job[c].frame, allocated |-> job[c].kind = "allocated"]
      BY <1>2, PageOfType DEF WriteEntry, Mapping
    <2>2. entry'[PageOf(c)].frame = job[c].frame
      BY <2>1
    <2>3. job[c].kind = "allocated"
      <3> SUFFICES ASSUME job[c].kind # "allocated" PROVE FALSE
        OBVIOUS
      <3>1. (job[c].kind = "allocated") = FALSE
        OBVIOUS
      <3>2. entry'[PageOf(c)] = [frame |-> job[c].frame, allocated |-> FALSE]
        BY <2>1, <3>1, Zenon
      <3> QED
        BY <3>2
    <2> QED
      BY <1>2, <2>2, <2>3 DEF WriteEntry, MapOK, Mapping
  <1> QED
    BY <1>1, <1>2, <1>3, <1>4 DEF FramesOurs

\* What a thread maps stays its own.
LEMMA StepMapOK ==
  ASSUME Inv, NEW c \in CPUs, Step(c)
  PROVE  MapOK(c)'
  <1>T. /\ freeFrames \subseteq Frames /\ pc \in [CPUs -> Labels]
        /\ MapOK(c) /\ job \in [CPUs -> Jobs] /\ job[c] \in Jobs
    BY Zenon DEF Inv, TypeOK, Typed, Allocations, Entries, Values, Labels, Mapping, PerPage
  <1>0. pc[c] \in Mapping \cup PerPage =>
          PageOf(c) \in job[c].pages /\ PageOf(c) \in job[c].all /\ PageOf(c) \in Pages
    BY PageOfType
  <1> USE <1>T, <1>0 DEF MapOK, Mapping, PerPage, Allocation, threads
  <1>1. ASSUME NEW j, Takes(c, j) PROVE MapOK(c)'
    BY <1>1 DEF Takes
  <1>2. ASSUME NEW a \in live, NEW j, Frees(c, a, j) PROVE MapOK(c)'
    BY <1>2 DEF Frees
  <1>3. ASSUME TakeFrame(c) PROVE MapOK(c)'
    <2>1. CASE UNCHANGED job
      BY <1>3, <2>1 DEF TakeFrame, Goto, Jobs
    <2>2. CASE \E f \in freeFrames \cup {Device} :
                 job' = [job EXCEPT ![c].frame = f] /\ (job[c].kind = "allocated" => f \in Frames)
      <3>1. PICK f \in freeFrames \cup {Device} :
              job' = [job EXCEPT ![c].frame = f] /\ (job[c].kind = "allocated" => f \in Frames)
        BY <2>2, Zenon
      <3>2. /\ job'[c].pages = job[c].pages /\ job'[c].all = job[c].all /\ job'[c].frame = f
            /\ job'[c].base = job[c].base /\ job'[c].size = job[c].size /\ job'[c].kind = job[c].kind
        BY <3>1 DEF Jobs
      <3>3. pc[c] = "frame" /\ pc'[c] \in {"lookup", "panic"}
        BY Zenon, <1>3 DEF TakeFrame, Goto
      <3> QED
        BY <1>3, <3>1, <3>2, <3>3 DEF TakeFrame
    <2> QED
      BY <1>3, <2>1, <2>2 DEF TakeFrame
  <1>4. ASSUME LookUp(c) PROVE MapOK(c)'
    BY Zenon, <1>4 DEF LookUp, Goto
  <1>5. ASSUME MakeTable(c) PROVE MapOK(c)'
    BY Zenon, <1>5 DEF MakeTable, Goto
  <1>6. ASSUME ClearTable(c) PROVE MapOK(c)'
    BY <1>6 DEF ClearTable, Goto
  <1>7. ASSUME WriteEntry(c) PROVE MapOK(c)'
    <2>1. CASE job[c].pages \ {PageOf(c)} # {}
      <3>1. job' = [job EXCEPT ![c].pages = job[c].pages \ {PageOf(c)}, ![c].frame = Null]
        BY <1>7, <2>1, Zenon DEF WriteEntry
      <3>2. /\ job'[c].pages = job[c].pages \ {PageOf(c)} /\ job'[c].all = job[c].all
            /\ job'[c].base = job[c].base /\ job'[c].size = job[c].size /\ job'[c].kind = job[c].kind
        BY <3>1 DEF Jobs
      <3>3. pc[c] = "write" /\ pc'[c] = "frame"
        BY <1>7, <2>1 DEF WriteEntry, Goto
      <3> QED
        BY <2>1, <3>2, <3>3
    <2>2. CASE job[c].pages \ {PageOf(c)} = {}
      BY <1>7, <2>2 DEF WriteEntry, Goto, Idle
    <2> QED
      BY ZenonT(40), <2>1, <2>2
  <1>8. ASSUME ReturnFrame(c) PROVE MapOK(c)'
    BY Zenon, <1>8 DEF ReturnFrame, Goto
  <1>9. ASSUME EraseEntry(c) PROVE MapOK(c)'
    BY <1>9 DEF EraseEntry, Goto
  <1>10. ASSUME Invalidate(c) PROVE MapOK(c)'
    BY Zenon, <1>10 DEF Invalidate, Goto, Jobs
  <1>11. ASSUME Call(c) PROVE MapOK(c)'
    BY Zenon, <1>11 DEF Call, Goto
  <1>12. ASSUME GivePages(c) PROVE MapOK(c)'
    BY Zenon, <1>12 DEF GivePages, Goto, Idle
  <1>13. ASSUME NEW d \in CPUs, Shootdown(c, d) PROVE MapOK(c)'
    BY Zenon, <1>13 DEF Shootdown, Goto
  <1>14. ASSUME NEW p \in Pages, CacheTranslation(c, p) PROVE MapOK(c)'
    BY <1>14 DEF CacheTranslation
  <1> HIDE <1>T, <1>0 DEF MapOK, Mapping, PerPage, Allocation, threads
  <1> QED
    BY Zenon, <1>1, <1>2, <1>3, <1>4, <1>5, <1>6, <1>7, <1>8, <1>9, <1>10,
       <1>11, <1>12, <1>13, <1>14, AllocationTakes, UnmapFrees DEF Step

\* What the other threads have unmapped stays unmapped: nobody else maps it.
LEMMA StepUnmapOthers ==
  ASSUME Inv, NEW c \in CPUs, Step(c), NEW e \in CPUs \ {c}
  PROVE  MapOK(e)' /\ UnmapOK(e)'
  <1>1. job'[e] = job[e] /\ pc'[e] = pc[e] /\ shot'[e] = shot[e]
    BY StepOthers DEF OthersKept
  <1>2. MapOK(e) /\ UnmapOK(e) /\ job[e] \in Jobs /\ job[e].all \subseteq Pages
    BY DEF Inv, TypeOK, Jobs
  <1>3. \A p \in job[e].all : Quiet(p)
    <2>1. pc[c] = "write" => PageOf(c) \notin job[e].all
      BY PageOfType DEF Inv, JobOwned, Mapping
    <2> QED
      BY <1>2, <2>1, StepQuiet DEF QuietBut
  <1>4. PageOf(e)' = PageOf(e)
    BY <1>1 DEF PageOf
  <1>5. pc[e] = "invalidate" => PageOf(e) \in job[e].all
    BY PageOfType DEF PerPage
  <1>6. MapOK(e)'
    BY Zenon, <1>1, <1>2 DEF MapOK, Allocation
  <1>7. UnmapOK(e)'
    <2>1. pc[e] \in Unmapping =>
            \A p \in job[e].all \ job[e].pages : entry'[p] = NoEntry /\ tlb'[e][p] = Null
      BY <1>2, <1>3 DEF UnmapOK, Quiet
    <2>2. pc[e] = "invalidate" => entry'[PageOf(e)] = NoEntry
      BY Zenon, <1>2, <1>3, <1>5 DEF UnmapOK, Quiet
    <2>3. pc[e] \in {"call", "wait"} =>
            \A p \in job[e].all : \A d \in CPUs : d < shot[e] => tlb'[d][p] = Null
      BY <1>2, <1>3 DEF UnmapOK, Quiet, Unmapping
    <2>4. pc[e] = "give" => \A p \in job[e].all : Clear(p)'
      BY ZenonT(40), <1>2, <1>3 DEF UnmapOK, Quiet, Clear
    <2> QED
      BY Zenon, <1>1, <1>2, <1>4, <2>1, <2>2, <2>3, <2>4 DEF UnmapOK
  <1> QED
    BY <1>6, <1>7

\* A thread gives up its pages when all CPUs have forgotten them.
LEMMA StepUnmapOK ==
  ASSUME Inv, NEW c \in CPUs, Step(c)
  PROVE  UnmapOK(c)'
  <1>T. /\ entry \in [Pages -> Entries] /\ tlb \in [CPUs -> [Pages -> Values]]
        /\ pc \in [CPUs -> Labels] /\ shot \in [CPUs -> Nat]
        /\ job \in [CPUs -> Jobs] /\ job[c] \in Jobs
        /\ UnmapOK(c) /\ job[c].pages \subseteq job[c].all /\ (pc[c] = "idle" => job[c].all = {})
    BY Zenon DEF Inv, MapOK, TypeOK, Allocations, Entries, Values, Labels, Mapping, PerPage
  <1>0. pc[c] \in Mapping \cup PerPage =>
          PageOf(c) \in job[c].pages /\ PageOf(c) \in job[c].all /\ PageOf(c) \in Pages
    BY PageOfType
  <1> USE <1>T, <1>0 DEF UnmapOK, Mapping, PerPage, Unmapping, allocators, tables, threads
  <1>1. ASSUME NEW j, Takes(c, j) PROVE UnmapOK(c)'
    BY Zenon, <1>1 DEF Takes
  <1>2. ASSUME NEW a \in live, NEW j, Frees(c, a, j) PROVE UnmapOK(c)'
    BY <1>2 DEF Frees
  <1>3. ASSUME TakeFrame(c) PROVE UnmapOK(c)'
    BY ZenonT(40), <1>3 DEF TakeFrame, Goto
  <1>4. ASSUME LookUp(c) PROVE UnmapOK(c)'
    BY Zenon, <1>4 DEF LookUp, Goto
  <1>5. ASSUME MakeTable(c) PROVE UnmapOK(c)'
    BY Zenon, <1>5 DEF MakeTable, Goto
  <1>6. ASSUME ClearTable(c) PROVE UnmapOK(c)'
    BY <1>6 DEF ClearTable, Goto
  <1>7. ASSUME WriteEntry(c) PROVE UnmapOK(c)'
    BY ZenonT(40), <1>7 DEF WriteEntry, Goto
  <1>8. ASSUME ReturnFrame(c) PROVE UnmapOK(c)'
    BY Zenon, <1>8 DEF ReturnFrame, Goto
  <1>9. ASSUME EraseEntry(c) PROVE UnmapOK(c)'
    <2>1. entry'[PageOf(c)] = NoEntry /\ \A p \in Pages : entry'[p] \in {entry[p], NoEntry}
      BY <1>9 DEF EraseEntry
    <2>2. PageOf(c)' = PageOf(c)
      BY Zenon, <1>9 DEF EraseEntry, PageOf
    <2> QED
      BY Zenon, <1>9, <2>1, <2>2 DEF EraseEntry, Goto, Jobs
  <1>10. ASSUME Invalidate(c) PROVE UnmapOK(c)'
    <2>1. job'[c].all = job[c].all /\ job'[c].pages = job[c].pages \ {PageOf(c)} /\ entry' = entry
      BY <1>10 DEF Invalidate, Jobs
    <2>2. entry[PageOf(c)] = NoEntry /\ tlb'[c][PageOf(c)] = Null
      BY <1>10 DEF Invalidate
    <2>3. \A p \in Pages : tlb'[c][p] \in {tlb[c][p], Null}
      BY <1>10 DEF Invalidate
    <2>4. \A p \in job'[c].all \ job'[c].pages : entry'[p] = NoEntry /\ tlb'[c][p] = Null
      BY <1>10, <2>1, <2>2, <2>3 DEF Invalidate, Jobs
    <2>5. shot'[c] = 0 /\ (pc'[c] # "unmap" => pc'[c] = "call" /\ job'[c].pages = {})
      <3>1. shot'[c] = 0
        BY <1>10 DEF Invalidate
      <3>2. pc'[c] = IF job[c].pages \ {PageOf(c)} # {} THEN "unmap" ELSE "call"
        BY Zenon, <1>10 DEF Invalidate, Goto
      <3> QED
        BY <2>1, <3>1, <3>2
    <2> QED
      BY <2>4, <2>5, HeapConstants
  <1>11. ASSUME Call(c) PROVE UnmapOK(c)'
    <2> DEFINE left == {d \in CPUs \ {c} : d >= shot[c]}
    <2>1. left \in SUBSET Nat /\ c \in Nat /\ CPUs \subseteq Nat
      BY HeapConstants, Zenon
    <2>2. left # {} => Min(left) \in Nat /\ \A d \in left : Min(left) <= d
      BY <2>1, MinLeast, Zenon
    <2>3. shot'[c] = IF left = {} THEN 0 ELSE Min(left)
      BY Zenon, <1>11 DEF Call
    <2>4. pc'[c] = (IF left = {} THEN "give" ELSE "wait") /\ pc[c] = "call"
      BY Zenon, <1>11 DEF Call, Goto
    <2>5. \A p \in job[c].all : entry[p] = NoEntry /\ tlb[c][p] = Null
      BY Zenon, <2>4
    <2>6. \A d \in CPUs : d = c \/ d \in left \/ d < shot[c]
      BY <2>1
    <2>7. \A p \in job[c].all : \A d \in CPUs \ left : tlb[d][p] = Null
      BY Zenon, <2>4, <2>5, <2>6
    <2> HIDE DEF left
    <2>8. left # {} => \A d \in CPUs : d < Min(left) => d \notin left
      BY <2>1, <2>2
    <2>9. UNCHANGED <<entry, tlb, job>>
      BY Zenon, <1>11 DEF Call
    <2>10. CASE left = {}
      BY Zenon, <2>3, <2>4, <2>5, <2>7, <2>9, <2>10 DEF Clear
    <2>11. CASE left # {}
      BY Zenon, <2>3, <2>4, <2>5, <2>7, <2>8, <2>9, <2>11
    <2> QED
      BY <2>10, <2>11
  <1>12. ASSUME GivePages(c) PROVE UnmapOK(c)'
    BY Zenon, <1>12 DEF GivePages, Goto, Idle
  <1>13. ASSUME NEW d \in CPUs, Shootdown(c, d) PROVE UnmapOK(c)'
    <2>1. \A e \in CPUs : \A p \in job[c].all :
            (e = d \/ tlb[e][p] = Null) => tlb'[e][p] = Null
      BY Zenon, <1>13 DEF Shootdown, Jobs
    <2>2. \A e \in CPUs : e < d + 1 => e = d \/ e < shot[c]
      <3>1. shot[c] = d /\ CPUs \subseteq Nat
        BY Zenon, <1>13, HeapConstants DEF Shootdown
      <3> QED
        BY <3>1, NextOrLess, Zenon
    <2>3. shot'[c] = d + 1 /\ pc'[c] = "call" /\ pc[c] = "wait" /\ UNCHANGED <<entry, job>>
      BY Zenon, <1>13 DEF Shootdown, Goto
    <2> QED
      BY Zenon, <2>1, <2>2, <2>3
  <1>14. ASSUME NEW p \in Pages, CacheTranslation(c, p) PROVE UnmapOK(c)'
    <2>1. UNCHANGED <<pc, job, shot, entry>> /\ PageOf(c)' = PageOf(c) /\ entry[p] # NoEntry
      BY Zenon, <1>14 DEF CacheTranslation, PageOf
    <2>2. \A e \in CPUs : \A q \in Pages \ {p} : tlb'[e][q] = tlb[e][q]
      BY Zenon, <1>14 DEF CacheTranslation
    <2>3. job[c].all \subseteq Pages
      BY Zenon DEF Jobs
    <2>4. \A q \in job[c].all \ job[c].pages : pc[c] \in Unmapping => entry[q] = NoEntry /\ q # p
      BY Zenon, <2>1
    <2>5. pc[c] \in Unmapping => \A q \in job[c].all \ job[c].pages : tlb'[c][q] = Null
      BY Zenon, <2>2, <2>3, <2>4
    <2>6. pc[c] \in {"call", "wait"} =>
            \A q \in job[c].all : \A d \in CPUs : d < shot[c] => tlb'[d][q] = Null
      BY ZenonT(40), <2>2, <2>3, <2>4
    <2>7. pc[c] = "give" => \A q \in job[c].all : Clear(q)'
      <3> SUFFICES ASSUME pc[c] = "give", NEW q \in job[c].all PROVE Clear(q)'
        BY Zenon
      <3>1. Clear(q) /\ q # p /\ q \in Pages
        BY Zenon, <2>3, <2>4
      <3> QED
        BY ZenonT(40), <2>1, <2>2, <3>1 DEF Clear
    <2> QED
      BY Zenon, <2>1, <2>4, <2>5, <2>6, <2>7
  <1> HIDE <1>T, <1>0 DEF UnmapOK, Mapping, PerPage, Unmapping, allocators, tables, threads
  <1> QED
    BY Zenon, <1>1, <1>2, <1>3, <1>4, <1>5, <1>6, <1>7, <1>8, <1>9, <1>10,
       <1>11, <1>12, <1>13, <1>14, AllocationTakes, UnmapFrees DEF Step

\* The invariant holds in every state.
LEMMA HeapInv == Spec => []Inv
  <1>1. ASSUME Inv, NEW c \in CPUs, Step(c) PROVE Inv'
    <2>1. TypeOK'
      BY Zenon, <1>1, StepJobs, StepTyped DEF TypeOK, Typed, Allocations, Entries, Values, Labels,
         Mapping, PerPage
    <2>2. \A e \in CPUs : MapOK(e)' /\ UnmapOK(e)'
      BY <1>1, StepMapOK, StepUnmapOK, StepUnmapOthers
    <2>3. LiveOwned' /\ JobOwned' /\ FreeUnmapped' /\ FramesOurs'
      BY Zenon, <1>1, StepLiveOwned, StepJobOwned, StepFreeUnmapped, StepFramesOurs
    <2> QED
      BY <2>1, <2>2, <2>3 DEF Inv
  <1>2. ASSUME Inv, UNCHANGED vars PROVE Inv'
    <2> USE <1>2 DEF Inv, vars, allocators, tables, threads, history
    <2>1. TypeOK'
      BY Zenon DEF TypeOK
    <2>2. LiveOwned' /\ JobOwned'
      BY DEF LiveOwned, JobOwned
    <2>3. FreeUnmapped' /\ FramesOurs'
      BY Zenon DEF FreeUnmapped, FramesOurs, Clear
    <2>4. ASSUME NEW c \in CPUs PROVE MapOK(c)'
      BY ZenonT(40) DEF MapOK
    <2>5. ASSUME NEW c \in CPUs PROVE UnmapOK(c)'
      <3>1. PageOf(c)' = PageOf(c)
        BY DEF PageOf
      <3>2. UnmapOK(c)
        OBVIOUS
      <3> QED
        BY <3>1, <3>2 DEF UnmapOK, Clear
    <2> QED
      BY <2>1, <2>2, <2>3, <2>4, <2>5
  <1>3. Inv /\ [Next]_vars => Inv'
    BY <1>1, <1>2 DEF Next
  <1> QED
    BY InitInv, <1>3, PTL DEF Spec

\* However many CPUs allocate, map and free pages of the kernel heap, of any
\* size: a page has one owner, and the page that allocate() hands out has no
\* entry and is in no TLB, because unmapMemory() gives it back after the last
\* CPU has answered (kmalloc.cpp:84-109).
THEOREM HeapPagesExclusive == Spec => []PagesExclusive
  <1>1. ASSUME Inv PROVE PagesExclusive
    <2> USE <1>1 DEF Inv
    <2>1. \A a, b \in live : a # b => PagesOf(a) \cap PagesOf(b) = {}
      BY DEF LiveOwned
    <2>2. LivePages \cap freePages = {}
      BY DEF LiveOwned, LivePages
    <2>3. \A c \in CPUs : job[c].all \cap (LivePages \cup freePages) = {}
      BY DEF JobOwned, LivePages
    <2> QED
      BY <2>1, <2>2, <2>3 DEF PagesExclusive, FreeUnmapped, Clear
  <1> QED
    BY HeapInv, <1>1, PTL
=============================================================================
