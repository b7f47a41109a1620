------------------------------ MODULE BlockMap ------------------------------
(***************************************************************************)
(* memory::BlockMap (memory/memoryBlock.cpp): the array of free blocks     *)
(* behind the allocators of physical frames and of kernel addresses.  Every*)
(* operation runs under the map's spinlock and is one step.  Addresses are *)
(* numbered in units of the smallest amount; 0 is the null pointer.        *)
(***************************************************************************)
EXTENDS Naturals, Sequences, SequencesExt, FiniteSets

CONSTANTS MaxAddress,  \* blocks lie in 1 .. MaxAddress, their end is exclusive
          MapSize,     \* BLOCKMAP_SIZE
          Amounts      \* the amounts that clients allocate

ASSUME BlockMapConstants ==
  MaxAddress \in Nat /\ MapSize \in Nat \ {0} /\ Amounts \subseteq Nat \ {0}

VARIABLES blocks,   \* blocks[0 .. numBlocks - 1]
          managed,  \* every address that addBlock() was given
          held,     \* blocks that clients have allocated
          removed,  \* addresses that reserve() took out
          dropped   \* addresses that a full array could not take

vars == <<blocks, managed, held, removed, dropped>>

Block(s, e) == [start |-> s, end |-> e]
Empty == Block(0, 0)
AllBlocks == {b \in [start : 1 .. MaxAddress, end : 1 .. MaxAddress] : b.start < b.end}
Capacity(b) == b.end - b.start
Addresses(b) == b.start .. (b.end - 1)
AddressesOf(bs) == UNION {Addresses(bs[i]) : i \in DOMAIN bs}

\* One turn of the loop of merge(): b joins the first block that it touches.
MergeInto(bs, b) ==
  LET touching == {j \in DOMAIN bs : bs[j].start = b.end \/ bs[j].end = b.start}
      j == Min(touching)
  IN  IF Capacity(b) = 0 THEN bs
      ELSE IF touching = {} THEN Append(bs, b)
      ELSE IF bs[j].start = b.end THEN [bs EXCEPT ![j].start = b.start]
      ELSE [bs EXCEPT ![j].end = b.end]

Merge(bs) == FoldLeft(MergeInto, <<>>, bs)

AddTo(bs, b) ==
  IF Capacity(b) = 0 THEN bs
  ELSE IF Len(bs) < MapSize THEN Append(bs, b)
  ELSE IF Len(Merge(bs)) < MapSize THEN Append(Merge(bs), b)
  ELSE Merge(bs)

\* The array has no room for a block, not even after a merge.
Full(bs) == Len(bs) = MapSize /\ Len(Merge(bs)) = MapSize

\* Mutant: a split keeps the whole block and adds the parts.
CarveKeepsBlock(bs, i, r) ==
  LET b == bs[i] IN
  IF b.start >= r.end \/ b.end <= r.start THEN bs
  ELSE IF b.start >= r.start /\ b.end <= r.end THEN [bs EXCEPT ![i] = Empty]
  ELSE IF b.start >= r.start THEN [bs EXCEPT ![i].start = r.end]
  ELSE IF b.end <= r.end THEN [bs EXCEPT ![i].end = r.start]
  ELSE AddTo(AddTo(bs, Block(b.start, r.start)), Block(r.end, b.end))

\* One turn of the loop of reserve().
Carve(bs, i, r) ==
  LET b == bs[i] IN
  IF b.start >= r.end \/ b.end <= r.start THEN bs
  ELSE IF b.start >= r.start /\ b.end <= r.end THEN [bs EXCEPT ![i] = Empty]
  ELSE IF b.start >= r.start THEN [bs EXCEPT ![i].start = r.end]
  ELSE IF b.end <= r.end THEN [bs EXCEPT ![i].end = r.start]
  ELSE AddTo(AddTo([bs EXCEPT ![i] = Empty], Block(b.start, r.start)), Block(r.end, b.end))

\* The loop runs to the numBlocks of the moment, which a turn may change.
ReserveIn(bs, r) ==
  LET after[i \in 0 .. MapSize] ==
        IF i = 0 THEN Merge(bs)
        ELSE IF i > Len(after[i - 1]) THEN after[i - 1] ELSE Carve(after[i - 1], i, r)
  IN  after[MapSize]

\* Block::reserve() takes memory from the start of a block.
TakeFront(b, amount) == [b EXCEPT !.start = @ + amount]

\* allocate(): the first block that is large enough, or 0.
FirstFit(bs, amount) == SelectInSeq(bs, LAMBDA b : Capacity(b) >= amount)
-----------------------------------------------------------------------------
Init == blocks = <<>> /\ managed = {} /\ held = {} /\ removed = {} /\ dropped = {}

\* Boot: the memory map's entries do not overlap.
AddBlock(b) ==
  /\ held = {} /\ Addresses(b) \cap managed = {}
  /\ blocks' = AddTo(blocks, b)
  /\ managed' = managed \cup Addresses(b)
  /\ dropped' = IF Full(blocks) THEN dropped \cup Addresses(b) ELSE dropped
  /\ UNCHANGED <<held, removed>>

\* Boot: memory in use is taken out before anything is allocated.  When the
\* array is full, the upper part of a block that is split is lost.
Reserve(r) ==
  /\ held = {}
  /\ blocks' = ReserveIn(blocks, r)
  /\ removed' = removed \cup ((Addresses(r) \cap managed) \ dropped)
  /\ dropped' = IF Len(Merge(blocks)) < MapSize THEN dropped
                ELSE dropped \cup UNION {r.end .. (b.end - 1) : b \in {b \in Range(Merge(blocks)) :
                                                    b.start < r.start /\ r.end < b.end}}
  /\ UNCHANGED <<managed, held>>

Allocate(amount) ==
  LET i == FirstFit(blocks, amount) IN
  /\ i # 0
  /\ blocks' = [blocks EXCEPT ![i] = TakeFront(@, amount)]
  /\ held' = held \cup {Block(blocks[i].start, blocks[i].start + amount)}
  /\ UNCHANGED <<managed, removed, dropped>>

ReturnMemory(b) ==
  /\ b \in held
  /\ blocks' = AddTo(blocks, b)
  /\ held' = held \ {b}
  /\ dropped' = IF Full(blocks) THEN dropped \cup Addresses(b) ELSE dropped
  /\ UNCHANGED <<managed, removed>>

\* Only the unit test clears a map, one that nothing is allocated from.
Clear ==
  /\ held = {}
  /\ blocks' = <<>> /\ managed' = {} /\ removed' = {} /\ dropped' = {}
  /\ UNCHANGED held

Next ==
  \/ Clear
  \/ \E b \in AllBlocks : AddBlock(b) \/ Reserve(b)
  \/ \E amount \in Amounts : Allocate(amount)
  \/ \E b \in held : ReturnMemory(b)
-----------------------------------------------------------------------------
\* No address is handed out twice, none disappears and none appears from nowhere,
\* whatever merge() and reserve() did to the array: free blocks and allocated
\* ones are pairwise disjoint, and together they are what was added, without
\* what reserve() removed and what a full array dropped.  A merge changes how the
\* free addresses are cut into blocks, nothing else (memoryBlock.cpp:20-106).
MemoryConserved ==
  /\ Len(blocks) <= MapSize /\ \A i \in DOMAIN blocks : blocks[i].start <= blocks[i].end
  /\ \A i, j \in DOMAIN blocks : i # j => Addresses(blocks[i]) \cap Addresses(blocks[j]) = {}
  /\ \A b \in held : Addresses(b) \cap AddressesOf(blocks) = {}
  /\ \A b, d \in held : b # d => Addresses(b) \cap Addresses(d) = {}
  /\ AddressesOf(blocks) \cup UNION {Addresses(b) : b \in held} = managed \ (removed \cup dropped)
  /\ AddressesOf(Merge(blocks)) = AddressesOf(blocks)
  /\ Len(Merge(blocks)) <= Len(blocks)
=============================================================================
