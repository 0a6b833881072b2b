-------------------------------- MODULE Pmm --------------------------------
(***************************************************************************)
(* The physical memory manager (pmm.c), from the memory map of the boot    *)
(* loader (arch/x86/mem.c) to alloc_pages and free_pages.                  *)
(*                                                                         *)
(* Three buddy allocators share one storage area for their bitmaps, as in  *)
(* init_physical_memory: `bits' is the set of the bits of that area which  *)
(* are 1, and bit i of the bitmap of order k of zone z is the bit          *)
(* BitOf(z, k, i) of the area.  Two bitmaps are separate only if the       *)
(* layout makes them so.                                                   *)
(*                                                                         *)
(* Addresses are page numbers.  Every operation runs under the lock of     *)
(* pmm.c, or before interrupts are enabled, and is one step.               *)
(***************************************************************************)
EXTENDS Blocks, Sequences, FiniteSetsExt

CONSTANTS
    OneMB, FourGB,  \* the zone boundaries 0x100000 and 0x100000000
    KernelEnd,      \* `end' in init_memory; the kernel starts at OneMB
    ByteBits,       \* bits in a byte of a bitmap
    PageBytes,      \* bytes in a page
    PageTables,     \* page tables that init_virtual_memory allocates
    MemoryMaps,     \* the available ranges that a boot loader may report
    MaxNum          \* bound on the pages asked for in one call

ASSUME PmmAssumption ==
    /\ {OneMB, FourGB, KernelEnd, PageTables} \subseteq Nat
    /\ {ByteBits, PageBytes, MaxNum} \subseteq Nat \ {0}
    /\ OneMB < KernelEnd /\ KernelEnd < FourGB
    /\ MemoryMaps \subseteq Seq(RangeType)
    \* the FIXME of remove_range: a range starts with the kernel and is
    \* large enough, and no other one has pages of the kernel
    /\ \A m \in MemoryMaps : \E n \in DOMAIN m : m[n].start = OneMB
    /\ \A m \in MemoryMaps : \A n \in DOMAIN m :
          /\ m[n].start = OneMB => m[n].extent >= KernelEnd
          /\ m[n].start < KernelEnd /\ m[n].start + m[n].extent > OneMB => m[n].start = OneMB

VARIABLES
    stage,          \* pmm_init_stage, or "PANIC"
    tables,         \* page tables that init_virtual_memory has still to allocate
    early_ranges,
    map,            \* the memory map
    bits,           \* the storage of all bitmaps
    registered,     \* ghost: pages in the ranges that init_physical_memory frees
    taken,          \* ghost: pages given out by early_alloc_page
    handed,         \* ghost: pages given out by alloc_pages and not freed
    last            \* the last call of alloc_pages and its result

pmm_vars == <<stage, tables, early_ranges, map, bits, registered, taken, handed, last>>

NONE == 0           \* PAGE_REQ_NONE
UNDER1MB == 1       \* PAGE_REQ_UNDER1MB
UNDER4GB == 2       \* PAGE_REQ_UNDER4GB
Zones == {NONE, UNDER1MB, UNDER4GB}

NoCall == [req |-> NONE, num |-> 0, page |-> Fail]

PagesOf(r) == r.start .. (r.start + r.extent - 1)
Reported == UNION {PagesOf(map[n]) : n \in DOMAIN map}
KernelPages == OneMB .. (KernelEnd - 1)

-----------------------------------------------------------------------------
(* Zones and the layout of their bitmaps                                   *)

MaxExtent(m) == Max({0} \cup {m[n].start + m[n].extent : n \in DOMAIN m})

ZoneStart(z) == CASE z = UNDER1MB -> 0 [] z = UNDER4GB -> OneMB [] z = NONE -> FourGB

ZoneExtent(m, z) ==
    CASE z = UNDER1MB -> Min({MaxExtent(m), OneMB})
      [] z = UNDER4GB -> Min({MaxExtent(m), FourGB}) - OneMB
      [] z = NONE -> IF MaxExtent(m) > FourGB THEN MaxExtent(m) - FourGB ELSE 0

(* max_extent of the bitmap of order k; a bitmap takes one byte more than  *)
(* its full bytes.                                                         *)
ExtentTable ==
    [m \in MemoryMaps |-> [z \in Zones |-> [k \in Orders |-> ZoneExtent(m, z) \div Size[k]]]]
Extent(z, k) == ExtentTable[map][z][k]

BitmapBytes(extent) == extent \div ByteBits + 1

(* The bytes of the bitmaps of the orders below k, for each k.             *)
BytesBelow(m, z) ==
    LET below[k \in 0 .. (MaxOrder + 1)] ==
            IF k = 0 THEN 0 ELSE below[k - 1] + BitmapBytes(ExtentTable[m][z][k - 1])
    IN  below

buddy_calc_overhead(m, z) == BytesBelow(m, z)[MaxOrder + 1]

(* overheads[i] is the overhead of rs[i], indexed by request; the storage  *)
(* is handed out in the order UNDER1MB, UNDER4GB, NONE.                    *)
StorageStart(m, z) ==
    CASE z = UNDER1MB -> 0
      [] z = UNDER4GB -> buddy_calc_overhead(m, 0)
      [] z = NONE -> buddy_calc_overhead(m, 0) + buddy_calc_overhead(m, 1)

(* The first byte of each bitmap, set by buddy_init.                       *)
ByteTable ==
    [m \in MemoryMaps |-> [z \in Zones |-> [k \in Orders |->
        StorageStart(m, z) + BytesBelow(m, z)[k]]]]

BitOf(z, k, i) == ByteBits * ByteTable[map][z][k] + i

BitmapPages ==
    LET bytes == buddy_calc_overhead(map, 0) + buddy_calc_overhead(map, 1)
                     + buddy_calc_overhead(map, 2)
    IN  (bytes + PageBytes - 1) \div PageBytes

-----------------------------------------------------------------------------
(* buddy.c on the shared storage.  A loop is a recursive function of what  *)
(* it changes, which gives the state in which the loop ends.               *)

TooLarge(num) == num > Size[MaxOrder]

log2_roundup(num) == Min({k \in Orders : num <= Size[k]})

bitmap_first_set(b, z, k) ==
    LET set == {i \in 0 .. (ByteBits * BitmapBytes(Extent(z, k)) - 1) : BitOf(z, k, i) \in b}
    IN  IF set = {} \/ Min(set) > Extent(z, k) THEN -1 ELSE Min(set)

SplitStates ==
    {s \in [bits : SUBSET Nat, zone : Zones, order : Orders, idx : Nat, want : Orders] :
        s.want <= s.order}

SplitRound(s) ==
    [bits |-> (s.bits \ {BitOf(s.zone, s.order, s.idx)})
                  \cup {BitOf(s.zone, s.order - 1, 2 * s.idx),
                        BitOf(s.zone, s.order - 1, 2 * s.idx + 1)},
     zone |-> s.zone, order |-> s.order - 1, idx |-> 2 * s.idx, want |-> s.want]

Split[s \in SplitStates] ==
    IF s.order = s.want THEN s ELSE Split[SplitRound(s)]

buddy_alloc(b, z, num) ==
    LET want == log2_roundup(num)
        found == {k \in want .. MaxOrder : bitmap_first_set(b, z, k) # -1}
        s == Split[[bits |-> b, zone |-> z, order |-> Min(found),
                    idx |-> bitmap_first_set(b, z, Min(found)), want |-> want]]
    IN  IF found = {} THEN [bits |-> b, page |-> Fail]
        ELSE [bits |-> s.bits \ {BitOf(z, want, s.idx)},
              page |-> ZoneStart(z) + s.idx * Size[want]]

MergeStates == [bits : SUBSET Nat, zone : Zones, order : Orders, idx : Nat]

MergeRound(s) ==
    [bits |-> (s.bits \ {BitOf(s.zone, s.order, s.idx),
                         BitOf(s.zone, s.order, BuddyOf(s.idx))})
                  \cup {BitOf(s.zone, s.order + 1, s.idx \div 2)},
     zone |-> s.zone, order |-> s.order + 1, idx |-> s.idx \div 2]

Merge[s \in MergeStates] ==
    IF s.order = MaxOrder \/ BitOf(s.zone, s.order, BuddyOf(s.idx)) \notin s.bits
    THEN s ELSE Merge[MergeRound(s)]

buddy_free(b, z, page, num) ==
    LET k == log2_roundup(num)
        i == (page - ZoneStart(z)) \div Size[k]
    IN  Merge[[bits |-> b \cup {BitOf(z, k, i)}, zone |-> z, order |-> k, idx |-> i]].bits

RangeStates ==
    {s \in [bits : SUBSET Nat, zone : Zones, range : RangeType] :
        ZoneStart(s.zone) <= s.range.start}

(* The largest block that fits at the start of the range.                  *)
LargestFit(z, r) ==
    Max({k \in Orders : Size[k] <= r.extent /\ (r.start - ZoneStart(z)) % Size[k] = 0})

FreeRangeRound(s) ==
    LET n == Size[LargestFit(s.zone, s.range)]
    IN  [bits |-> buddy_free(s.bits, s.zone, s.range.start, n), zone |-> s.zone,
         range |-> [start |-> s.range.start + n, extent |-> s.range.extent - n]]

FreeRangeLoop[s \in RangeStates] ==
    IF s.range.extent = 0 THEN s ELSE FreeRangeLoop[FreeRangeRound(s)]

buddy_free_range(b, z, r) == FreeRangeLoop[[bits |-> b, zone |-> z, range |-> r]].bits

-----------------------------------------------------------------------------
(* Start-up                                                                *)

PmmInit ==
    /\ stage = "START"
    /\ tables = PageTables
    /\ early_ranges = <<>>
    /\ map \in MemoryMaps
    /\ bits = {}
    /\ registered = {}
    /\ taken = {}
    /\ handed = {}
    /\ last = NoCall

(* init_memory takes the kernel off the range that starts with it; the     *)
(* extent it takes off is the address of the kernel's end.                 *)
remove_range(r) ==
    IF r.start = OneMB
    THEN [start |-> r.start + KernelEnd, extent |-> r.extent - KernelEnd]
    ELSE r

init_physical_memory_early ==
    /\ stage = "START"
    /\ early_ranges' = [n \in DOMAIN map |-> remove_range(map[n])]
    /\ stage' = "EARLY"
    /\ UNCHANGED <<tables, map, bits, registered, taken, handed, last>>

(* The ranges early_alloc_page takes pages from.                           *)
EarlyFit(rs) ==
    {n \in DOMAIN rs : rs[n].extent > 1 /\ rs[n].start < FourGB /\ rs[n].start >= OneMB}

(* Mutant: the range gets shorter but does not move on.                    *)
EarlyTakeInPlace(rs) ==
    [rs EXCEPT ![Min(EarlyFit(rs))] = [start |-> @.start, extent |-> @.extent - 1]]

(* rs after one call of early_alloc_page, which returns the first page of  *)
(* the first range that fits.                                              *)
EarlyTake(rs) ==
    [rs EXCEPT ![Min(EarlyFit(rs))] = [start |-> @.start + 1, extent |-> @.extent - 1]]

TakeStates == [ranges : Seq(RangeType), left : Nat]

(* s.left calls of early_alloc_page; some are left if it panics.           *)
EarlyTakeMany[s \in TakeStates] ==
    IF s.left = 0 \/ EarlyFit(s.ranges) = {} THEN s
    ELSE EarlyTakeMany[[ranges |-> EarlyTake(s.ranges), left |-> s.left - 1]]

RangePages(rs) == UNION {PagesOf(rs[n]) : n \in DOMAIN rs}

panic ==
    /\ stage' = "PANIC"
    /\ UNCHANGED <<tables, early_ranges, map, bits, registered, taken, handed, last>>

early_alloc_page ==
    /\ stage = "EARLY"
    /\ tables > 0
    /\ IF EarlyFit(early_ranges) = {}
       THEN panic
       ELSE /\ early_ranges' = EarlyTake(early_ranges)
            /\ taken' = taken \cup {early_ranges[Min(EarlyFit(early_ranges))].start}
            /\ tables' = tables - 1
            /\ UNCHANGED <<stage, map, bits, registered, handed, last>>

(* split_range at loc: what is below, and what is left in the range.       *)
Below(r, loc) ==
    IF r.start >= loc THEN [r EXCEPT !.extent = 0]
    ELSE [r EXCEPT !.extent = Min({@, loc - r.start})]

(* Mutant: a range that crosses loc is taken to end there.                 *)
AboveDropped(r, loc) == IF r.start >= loc THEN r ELSE [r EXCEPT !.extent = 0]

Above(r, loc) ==
    IF r.start >= loc THEN r
    ELSE IF r.start + r.extent <= loc THEN [r EXCEPT !.extent = 0]
    ELSE [start |-> loc, extent |-> r.start + r.extent - loc]

(* The last loop of init_physical_memory: each range is split at the two   *)
(* boundaries and its parts are freed.                                     *)
FreePart(b, z, r) == IF r.extent = 0 THEN b ELSE buddy_free_range(b, z, r)

RegisterStates == [bits : SUBSET Nat, ranges : Seq(RangeType)]

RegisterRound(s) ==
    LET r == Head(s.ranges)
        upper == Above(r, OneMB)
        b1 == FreePart(s.bits, UNDER1MB, Below(r, OneMB))
        b2 == FreePart(b1, UNDER4GB, Below(upper, FourGB))
    IN  [bits |-> FreePart(b2, NONE, Above(upper, FourGB)), ranges |-> Tail(s.ranges)]

FreeEarlyRanges[s \in RegisterStates] ==
    IF s.ranges = <<>> THEN s ELSE FreeEarlyRanges[RegisterRound(s)]

init_physical_memory ==
    /\ stage = "EARLY"
    /\ tables = 0
    /\ LET s == EarlyTakeMany[[ranges |-> early_ranges, left |-> BitmapPages]]
           rs == s.ranges
       IN  IF s.left > 0
           THEN panic
           ELSE /\ taken' = taken \cup (RangePages(early_ranges) \ RangePages(rs))
                /\ bits' = FreeEarlyRanges[[bits |-> {}, ranges |-> rs]].bits
                /\ registered' = RangePages(rs)
                /\ early_ranges' = [n \in DOMAIN rs |-> Above(Above(rs[n], OneMB), FourGB)]
                /\ stage' = "FULL"
                /\ UNCHANGED <<tables, map, handed, last>>

-----------------------------------------------------------------------------
(* Operation                                                               *)

BlockPages(page, num) == page .. (page + Size[log2_roundup(num)] - 1)

(* Mutant: no fallback to the memory below 4GB.                            *)
alloc_pages_strict(req, num) ==
    /\ stage = "FULL"
    /\ LET got == buddy_alloc(bits, req, num)
       IN  IF TooLarge(num)
           THEN panic
           ELSE /\ bits' = got.bits
                /\ handed' = IF got.page = Fail THEN handed
                             ELSE handed \cup BlockPages(got.page, num)
                /\ last' = [req |-> req, num |-> num, page |-> got.page]
                /\ UNCHANGED <<stage, tables, early_ranges, map, registered, taken>>

alloc_pages(req, num) ==
    /\ stage = "FULL"
    /\ LET first == buddy_alloc(bits, req, num)
           got == IF first.page = Fail /\ req = NONE
                  THEN buddy_alloc(first.bits, UNDER4GB, num) ELSE first
       IN  IF TooLarge(num)
           THEN panic
           ELSE /\ bits' = got.bits
                /\ handed' = IF got.page = Fail THEN handed
                             ELSE handed \cup BlockPages(got.page, num)
                /\ last' = [req |-> req, num |-> num, page |-> got.page]
                /\ UNCHANGED <<stage, tables, early_ranges, map, registered, taken>>

(* Mutant: the boundaries belong to the zone below.                        *)
ZoneOfInclusive(page) ==
    IF page <= OneMB THEN UNDER1MB ELSE IF page <= FourGB THEN UNDER4GB ELSE NONE

ZoneOf(page) ==
    IF page < OneMB THEN UNDER1MB ELSE IF page < FourGB THEN UNDER4GB ELSE NONE

(* The caller gives back pages it holds, in blocks of the size it was      *)
(* given or in smaller ones.                                               *)
free_pages(page, num) ==
    /\ stage = "FULL"
    /\ ~TooLarge(num)
    /\ BlockPages(page, num) \subseteq handed
    /\ \A p \in BlockPages(page, num) : ZoneOf(p) = ZoneOf(page)
    /\ (page - ZoneStart(ZoneOf(page))) % Size[log2_roundup(num)] = 0
    /\ bits' = buddy_free(bits, ZoneOf(page), page, num)
    /\ handed' = handed \ BlockPages(page, num)
    /\ last' = NoCall
    /\ UNCHANGED <<stage, tables, early_ranges, map, registered, taken>>

Stopped == stage = "PANIC" /\ UNCHANGED pmm_vars

PmmNext ==
    \/ init_physical_memory_early
    \/ early_alloc_page
    \/ init_physical_memory
    \/ \E req \in Zones, num \in 1 .. MaxNum : alloc_pages(req, num)
    \/ \E page \in Reported, num \in 1 .. MaxNum : free_pages(page, num)
    \/ Stopped

PmmSpec == PmmInit /\ [][PmmNext]_pmm_vars

-----------------------------------------------------------------------------
(* Properties                                                              *)

(* The bitmaps of zone z in the storage b, and the pages that they mark    *)
(* free.                                                                   *)
Marks(b, z) == [k \in Orders |-> {i \in 0 .. Extent(z, k) : BitOf(z, k, i) \in b}]

MarkedFree(z) == {ZoneStart(z) + p : p \in Covered(Marks(bits, z))}

AllFree == IF stage = "FULL" THEN UNION {MarkedFree(z) : z \in Zones} ELSE {}

PmmTypes ==
    /\ stage \in {"START", "EARLY", "FULL", "PANIC"}
    /\ tables \in 0 .. PageTables
    /\ map \in MemoryMaps
    /\ \A n \in DOMAIN early_ranges : early_ranges[n] \in [start : Nat, extent : Nat]
    /\ bits \subseteq Nat
    /\ registered \cup taken \cup handed \subseteq Nat
    /\ last \in [req : Zones, num : 0 .. MaxNum, page : Nat \cup {Fail}]

(* No page has two uses: the kernel's image, the page tables and bitmaps   *)
(* from early_alloc_page, the pages of callers and the free pages are      *)
(* apart, and all of them are memory that the boot loader reported.  No    *)
(* range is cut to less than nothing (extents are unsigned in the code).   *)
NoDoubleUse ==
    /\ PmmTypes
    /\ taken \cap handed = {}
    /\ AllFree \cap (handed \cup taken) = {}
    /\ KernelPages \cap (AllFree \cup handed \cup taken) = {}
    /\ AllFree \cup handed \cup taken \subseteq Reported

(* Once the allocator is up, the pages that start-up left over are all in  *)
(* circulation: none is lost where a range crosses a zone boundary, or by  *)
(* a free that goes to another zone than the allocation came from.         *)
Conserved ==
    stage = "FULL" => AllFree \cup handed = registered

(* alloc_pages keeps to the zone that is asked for, for every page of the  *)
(* block: below 1MB, or below the 4GB that the flag's name and pmm.c have. *)
(* (hal.h:123 says of UNDER4GB that the page is "< 0x10000000", which is   *)
(* 256MB; pmm.c gives out pages between the two.)                          *)
ZonePromise ==
    last.page # Fail =>
        \A p \in BlockPages(last.page, last.num) :
            /\ last.req = UNDER1MB => p < OneMB
            /\ last.req = UNDER4GB => p < FourGB

(* alloc_pages fails only if the zones it may use have no aligned block of *)
(* free pages of that size; a request without requirement falls back from  *)
(* high memory to the memory below 4GB.                                    *)
NoSpuriousFailure ==
    last.num > 0 /\ last.page = Fail =>
        \A z \in {last.req} \cup (IF last.req = NONE THEN {UNDER4GB} ELSE {}) :
            LET size == Size[log2_roundup(last.num)]
            IN  \A i \in 0 .. Extent(z, log2_roundup(last.num)) :
                    ~(\A p \in 0 .. (size - 1) :
                          ZoneStart(z) + i * size + p \in MarkedFree(z))

(* "It provides the ability to register a set of usable RAM pages, and     *)
(* later to allocate these pages for use" (include/pmm.h): pages that      *)
(* alloc_pages gives out are from the ranges init_physical_memory          *)
(* registered.                                                             *)
HandedOutRegistered == handed \subseteq registered

(* What the code needs of its surroundings.  The ranges of the boot        *)
(* loader's map are apart; and the storage of a zone's bitmaps, given out  *)
(* by the overheads of other zones, ends where the next one starts.        *)
MapsApart ==
    \A m \in MemoryMaps : \A n, l \in DOMAIN m :
        n # l => PagesOf(m[n]) \cap PagesOf(m[l]) = {}

StorageFits ==
    \A m \in MemoryMaps :
        /\ StorageStart(m, UNDER1MB) + buddy_calc_overhead(m, UNDER1MB) <= StorageStart(m, UNDER4GB)
        /\ StorageStart(m, UNDER4GB) + buddy_calc_overhead(m, UNDER4GB) <= StorageStart(m, NONE)
=============================================================================
