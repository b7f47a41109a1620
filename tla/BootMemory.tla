----------------------------- MODULE BootMemory -----------------------------
(***************************************************************************)
(* How the map of free physical memory comes about: parseMbi() (mbi.cpp)   *)
(* goes through the tags of the multiboot information in the order in which*)
(* the boot loader wrote them, and kstart() then looks for the root of the *)
(* ACPI tables.  Addresses are bytes.  With firmware None the block map is *)
(* on its own, as BlockMap describes it.                                   *)
(***************************************************************************)
EXTENDS BlockMap

CONSTANTS None,
          Zero,         \* address 0
          PageSize,
          LowMemory,    \* 0x100000
          Firmwares     \* [tags, kernel]: what the boot loader may have found and done

VARIABLES firmware,
          phase,        \* the tag that parseMbi() is at, then where kstart() is
          initramfs, frameBuffer, rsdp, root

bootVars == <<firmware, phase, initramfs, frameBuffer, rsdp, root>>
allVars == <<vars, bootVars>>

PAGE_ALIGN_DOWN(a) == (a \div PageSize) * PageSize
PAGE_ALIGN_UP(a) == ((a + PageSize - 1) \div PageSize) * PageSize
Pages(s, e) == Block(PAGE_ALIGN_DOWN(s), PAGE_ALIGN_UP(e))

\* The two parts of acpi::rsdp, each as a copy from one of the firmware's
\* structures, of which head and tail are the sums of the bytes of the two parts;
\* all zero at first.
NoRsdp == [v1 |-> None, v2 |-> None]

BootInit ==
  /\ Init
  /\ firmware \in Firmwares \cup {None}
  /\ phase = 1
  /\ initramfs = Empty /\ frameBuffer = None /\ rsdp = NoRsdp /\ root = None
-----------------------------------------------------------------------------
\* An entry of the memory map as parseMemoryMapTag() adds it.
EntryBlock(e) ==
  LET base == PAGE_ALIGN_UP(e.base) IN Block(base, base + PAGE_ALIGN_DOWN(e.length))

Usable(entries) == SelectSeq(entries, LAMBDA e : e.type = 1)

\* Mutant: the first MiB is not reserved.
ParseMemoryMapNoLow(entries) ==
  ReserveIn(FoldLeft(LAMBDA bs, e : AddTo(bs, EntryBlock(e)), blocks, Usable(entries)),
            Pages(firmware.kernel.start, firmware.kernel.end))

\* parseMemoryMapTag(): the usable entries, less the kernel and the first MiB.
ParseMemoryMap(entries) ==
  LET added == FoldLeft(LAMBDA bs, e : AddTo(bs, EntryBlock(e)), blocks, Usable(entries))
      kernel == Pages(firmware.kernel.start, firmware.kernel.end)
  IN  ReserveIn(ReserveIn(added, kernel), Block(0, LowMemory))

\* One turn of the loop of parseMbi().  A tag of another type is passed over.
\* Of several modules the last one is the initramfs.  The block map manages
\* what is in it when parseMbi() is through.
ParseMbiTag ==
  /\ firmware # None /\ phase \in DOMAIN firmware.tags
  /\ LET tag == firmware.tags[phase] IN
       /\ blocks' = IF tag.type = "MEMORY" THEN ParseMemoryMap(tag.entries) ELSE blocks
       /\ initramfs' = IF tag.type = "MODULE" THEN Block(tag.start, tag.end) ELSE initramfs
       /\ frameBuffer' = IF tag.type = "FRAME_BUFFER" THEN tag.address ELSE frameBuffer
       /\ rsdp' = CASE tag.type = "RSDP_OLD" -> [rsdp EXCEPT !.v1 = tag.rsdp]
                    [] tag.type = "RSDP_NEW" -> [v1 |-> tag.rsdp, v2 |-> tag.rsdp]
                    [] OTHER -> rsdp
  /\ managed' = AddressesOf(blocks')
  /\ phase' = phase + 1
  /\ UNCHANGED <<held, removed, dropped, firmware, root>>

\* The end of parseMbi().
EndOfTags ==
  /\ firmware # None /\ phase = Len(firmware.tags) + 1
  /\ blocks' = IF Capacity(initramfs) > 0 THEN ReserveIn(blocks, Pages(initramfs.start, initramfs.end))
               ELSE blocks
  /\ managed' = AddressesOf(blocks')
  /\ phase' = phase + 1
  /\ UNCHANGED <<held, removed, dropped, firmware, initramfs, frameBuffer, rsdp, root>>

\* The tail that an old tag does not write.
SecondPart == IF rsdp.v2 = None THEN [tail |-> 0, xsdt |-> Zero] ELSE rsdp.v2

\* Mutant: only the first part is summed up.
DoChecksumV1 == rsdp.v1.head = 0

\* RsdpV2::doChecksum(): the sum of the first part, or of both with revision 2.
DoChecksum ==
  LET sum == rsdp.v1.head + IF rsdp.v1.revision >= 2 THEN SecondPart.tail ELSE 0
  IN  sum % 256 = 0

\* kstart() up to the load of the root table.  kpanic() ends a boot with no
\* RSDP or with a wrong one.
FindRoot ==
  /\ firmware # None /\ phase = Len(firmware.tags) + 2
  /\ rsdp.v1 # None /\ DoChecksum
  /\ root' = IF rsdp.v1.revision >= 2 THEN SecondPart.xsdt ELSE rsdp.v1.rsdt
  /\ phase' = phase + 1
  /\ UNCHANGED <<vars, firmware, initramfs, frameBuffer, rsdp>>

\* From the end of parseMbi() on frames are allocated and returned.
Alone == firmware = None
Ready == IF Alone THEN TRUE ELSE phase > Len(firmware.tags) + 1

BootNext ==
  \/ ParseMbiTag \/ EndOfTags \/ FindRoot
  \/ Alone /\ Next /\ UNCHANGED bootVars
  \/ /\ ~Alone /\ Ready
     /\ (\E amount \in Amounts : Allocate(amount)) \/ (\E b \in held : ReturnMemory(b))
     /\ UNCHANGED bootVars

BootSpec == BootInit /\ [][BootNext]_allVars
-----------------------------------------------------------------------------
Entries == UNION {Range(t.entries) : t \in {t \in Range(firmware.tags) : t.type = "MEMORY"}}
UsableBytes == UNION {e.base .. e.base + e.length - 1 : e \in {e \in Entries : e.type = 1}}

\* Whatever the order of the tags and however the entries of the memory map
\* lie to the pages: once parseMbi() is through, no frame that can be allocated
\* meets the kernel, the first MiB or the initramfs, and each consists of usable
\* memory; the latter if usable entries begin at a page, since the length of an
\* entry is rounded by itself and not its end (mbi.cpp:98).
FreeIsUsable ==
  ~Alone /\ Ready =>
    LET free == AddressesOf(blocks) \cup UNION {Addresses(b) : b \in held}
        modules == {t \in Range(firmware.tags) : t.type = "MODULE"}
    IN  /\ free \cap (0 .. LowMemory - 1) = {}
        /\ free \cap Addresses(Pages(firmware.kernel.start, firmware.kernel.end)) = {}
        /\ free \cap Addresses(Pages(initramfs.start, initramfs.end)) = {}
        /\ (\A e \in Entries : e.type = 1 => e.base % PageSize = 0) => free \subseteq UsableBytes
        /\ Cardinality(modules) = 1 => \A t \in modules : initramfs = Block(t.start, t.end)

\* The root table is loaded from an address that a structure of the firmware
\* names in a part that sums up to zero, the XSDT's if the revision is 2,
\* whichever of the two tags comes last; except that an old tag with revision 2
\* and no new one yields address 0 (mbi.cpp:116-119, startup.cpp:91-99).
RootIsNamed ==
  LET rsdps == {t.rsdp : t \in {t \in Range(firmware.tags) : t.type \in {"RSDP_OLD", "RSDP_NEW"}}} IN
  root # None =>
    \/ \E r \in rsdps : IF r.revision >= 2 THEN root = r.xsdt /\ r.tail = 0
                                           ELSE root = r.rsdt /\ r.head = 0
    \/ root = Zero /\ \A t \in Range(firmware.tags) : t.type # "RSDP_NEW"
=============================================================================
