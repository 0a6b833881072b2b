------------------------------ MODULE Kmalloc ------------------------------
(***************************************************************************)
(* The kernel heap (kmalloc.c): blocks from slab caches or, if they are    *)
(* large, from the kernel's vmspace.  A header in front of each block says *)
(* where it came from, and everything hangs on it being there at kfree.    *)
(*                                                                         *)
(* The caches and the vmspace are taken at what they promise (Slab,        *)
(* Vmspace): a cache gives out any unused object of its slabs, takes a     *)
(* slab when it knows of none, and may return a slab that is unused; the   *)
(* vmspace gives out any aligned free block.  In slabs of small objects    *)
(* the bitmap lies over the last ones (slab.c): once one of those is given *)
(* out, payload, header and bitmap change each other, and the model stops. *)
(*                                                                         *)
(* The two allocators have locks, kmalloc and kfree have none: what they   *)
(* do before and after the call of an allocator interleaves with the calls *)
(* of other contexts.  Addresses are bytes from the start of the vmspace.  *)
(***************************************************************************)
EXTENDS Integers, FiniteSets, FiniteSetsExt

CONSTANTS
    Contexts,       \* whoever runs kernel code: the kernel, a handler
    HeaderSize,     \* sizeof(uintptr_t)
    MinLog2,        \* MIN_CACHESZ_LOG2
    MaxLog2,        \* MAX_CACHESZ_LOG2
    PageLog2,       \* get_page_shift(), also MIN_BUDDY_SZ_LOG2
    SlabLog2,       \* SLAB_SIZE = 1 << SlabLog2
    FooterSize,     \* sizeof(slab_footer_t)
    MaxBlockLog2,   \* MAX_BUDDY_SZ_LOG2
    NPages,         \* pages of the kernel's vmspace
    Requests,       \* sizes that callers ask for, short of the 32-bit limit
    Size,           \* Size[k] = 1 << k
    MaxLive         \* bound on the blocks that callers hold

ASSUME KmallocAssumption ==
    /\ {HeaderSize, MinLog2, MaxLog2, PageLog2, SlabLog2, FooterSize,
        MaxBlockLog2, NPages, MaxLive} \subseteq Nat
    /\ Size \in [0 .. 30 -> Nat] /\ Size[0] = 1
    /\ \A k \in 0 .. 29 : Size[k + 1] = 2 * Size[k]
    /\ 0 < HeaderSize /\ HeaderSize < Size[MinLog2]
    /\ MinLog2 <= MaxLog2 /\ MaxLog2 < PageLog2
    /\ PageLog2 <= SlabLog2 /\ SlabLog2 <= MaxBlockLog2 /\ MaxBlockLog2 <= 30
    /\ 0 < FooterSize /\ Size[MaxLog2] + FooterSize <= Size[SlabLog2]
    /\ \A sz \in Requests : sz \in Nat /\ sz + HeaderSize <= Size[30]

VARIABLES
    state,          \* "start", "up", "panic", "corrupt" after the assertion of
                    \* kfree, "wild" after a write through ~0, or "overlaid"
                    \* when an object is given out that holds bitmap bytes
    vfree,          \* free pages of kernel_vmspace
    slabs,          \* slabs[k]: the slabs, by address, of the cache of size 2^k
    used,           \* used[k]: the objects of that cache that are given out
    hdr,            \* the intact headers: addresses of blocks to their l2
    live,           \* ghost: the blocks that callers hold
    call            \* call[c]: the call that context c has in progress

vars == <<state, vfree, slabs, used, hdr, live, call>>

None == [op |-> "none"]

Caches == MinLog2 .. MaxLog2
Pages == 0 .. (NPages - 1)
Addresses == 0 .. (NPages * Size[PageLog2] - 1)

(* The pages of a block of 2^l2 bytes at address a.                        *)
PagesOf(a, l2) ==
    LET p == a \div Size[PageLog2]
    IN  p .. (p + Size[l2 - PageLog2] - 1)

(* Free blocks of 2^l2 bytes: vmspace_alloc returns any of them.           *)
FreeBlocks(l2) ==
    {a \in {p * Size[PageLog2] : p \in vfree} :
        a % Size[l2] = 0 /\ PagesOf(a, l2) \subseteq vfree}

(* Slabs of the cache of size 2^k: the number of objects, and the size in  *)
(* bytes of the bitmap, which ends where the footer begins.                *)
bitmap_num(k) == (Size[SlabLog2] - FooterSize) \div Size[k]

bitmap_sz(k) == bitmap_num(k) \div 8 + 1

(* The objects of slab s, and whether bitmap bytes lie in the one at a.    *)
Objects(s, k) == {s + i * Size[k] : i \in 0 .. (bitmap_num(k) - 1)}

Overlaid(s, a, k) == a + Size[k] > s + Size[SlabLog2] - FooterSize - bitmap_sz(k)

(* The slabs have room for the bitmap besides the objects.                 *)
RoomFor(k) == bitmap_num(k) * Size[k] + bitmap_sz(k) + FooterSize <= Size[SlabLog2]

(* The slab around an address.                                             *)
SlabOf(a) == a - (a % Size[SlabLog2])

-----------------------------------------------------------------------------
(* Which block a request gets                                              *)

(* Mutant: the last step, rounding up, is missing.                         *)
log2_rounddown(n) == Max({k \in 0 .. 30 : Size[k] <= n})

log2_roundup(n) ==
    LET l2 == Max({k \in 0 .. 30 : Size[k] <= n})
    IN  IF n = Size[l2] THEN l2 ELSE l2 + 1

(* Mutant: sz does not count the header.                                   *)
CacheLog2Bare(sz) == Max({MinLog2, log2_roundup(Max({sz, 1}))})

(* l2 for a request of sz bytes, at least that of the smallest cache.      *)
CacheLog2(sz) == Max({MinLog2, log2_roundup(sz + HeaderSize)})

(* l2 of what the vmspace is asked for: whole pages.                       *)
BlockLog2(l2) == IF Size[l2] < Size[PageLog2] THEN PageLog2 ELSE l2

-----------------------------------------------------------------------------
Init ==
    /\ state = "start"
    /\ vfree = {}
    /\ slabs = [k \in Caches |-> {}]
    /\ used = [k \in Caches |-> {}]
    /\ hdr = [a \in {} |-> 0]
    /\ live = {}
    /\ call = [c \in Contexts |-> None]

(* vmspace_init and slab_cache_create for every size.                      *)
kmalloc_init ==
    /\ state = "start"
    /\ vfree' = Pages
    /\ slabs' = [k \in Caches |-> {}]
    /\ state' = "up"
    /\ UNCHANGED <<used, hdr, live, call>>

(* What kmalloc does up to the return of an allocator: `got' is the size   *)
(* it was really given, `l2' what it will write to the header.             *)
Got(c, a, l2, got, sz) ==
    call' = [call EXCEPT ![c] =
                 [op |-> "alloc", addr |-> a, l2 |-> l2, got |-> got, sz |-> sz]]

Held == live \cup {call[c] : c \in {d \in Contexts : call[d] # None}}

Ready(c) == state = "up" /\ call[c] = None /\ Cardinality(Held) < MaxLive

(* slab_cache_alloc gives out the object at a of slab s.                   *)
Take(c, s, a, l2, sz) ==
    /\ used' = [used EXCEPT ![l2] = @ \cup {a}]
    /\ Got(c, a, l2, l2, sz)
    /\ state' = IF Overlaid(s, a, l2) THEN "overlaid" ELSE state

(* kmalloc with an object of a slab that the cache has.                    *)
AllocObject(c, sz) ==
    /\ Ready(c)
    /\ LET l2 == CacheLog2(sz)
       IN  /\ l2 <= MaxLog2
           /\ \E s \in slabs[l2] : \E a \in Objects(s, l2) \ used[l2] :
                 Take(c, s, a, l2, sz)
    /\ UNCHANGED <<vfree, slabs, hdr, live>>

(* kmalloc with a new slab; without address space its footer is written    *)
(* through ~0, and without memory vmspace_alloc panics.                    *)
AllocSlab(c, sz) ==
    /\ Ready(c)
    /\ LET l2 == CacheLog2(sz)
       IN  /\ l2 <= MaxLog2
           /\ \/ \E s \in FreeBlocks(SlabLog2) :
                    /\ vfree' = vfree \ PagesOf(s, SlabLog2)
                    /\ slabs' = [slabs EXCEPT ![l2] = @ \cup {s}]
                    /\ Take(c, s, s, l2, sz)
              \/ /\ state' = IF FreeBlocks(SlabLog2) = {} THEN "wild" ELSE "panic"
                 /\ UNCHANGED <<vfree, slabs, used, call>>
    /\ UNCHANGED <<hdr, live>>

(* kmalloc with pages.  buddy_alloc panics if the size is too large; when  *)
(* the vmspace is exhausted the header is written through ~0.              *)
AllocPages(c, sz) ==
    /\ Ready(c)
    /\ CacheLog2(sz) > MaxLog2
    /\ LET l2  == BlockLog2(CacheLog2(sz))
           got == Max({l2, PageLog2})
       IN  \/ /\ got <= MaxBlockLog2
              /\ \E a \in FreeBlocks(got) :
                    /\ vfree' = vfree \ PagesOf(a, got)
                    /\ Got(c, a, l2, got, sz)
              /\ UNCHANGED state
           \/ /\ state' = IF got <= MaxBlockLog2 /\ FreeBlocks(got) = {}
                          THEN "wild" ELSE "panic"
              /\ UNCHANGED <<vfree, call>>
    /\ UNCHANGED <<slabs, used, hdr, live>>

(* The end of kmalloc: it writes the header and returns the address after. *)
WriteHeader(c) ==
    /\ state = "up" /\ call[c].op = "alloc"
    /\ hdr' = [a \in DOMAIN hdr \cup {call[c].addr} |->
                  IF a = call[c].addr THEN call[c].l2 ELSE hdr[a]]
    /\ live' = live \cup
           {[addr |-> call[c].addr, ptr |-> call[c].addr + HeaderSize,
             got |-> call[c].got, sz |-> call[c].sz]}
    /\ call' = [call EXCEPT ![c] = None]
    /\ UNCHANGED <<state, vfree, slabs, used>>

-----------------------------------------------------------------------------
(* kfree reads the header and asserts that it is intact.                   *)
kfree(c, b) ==
    /\ state = "up" /\ call[c] = None
    /\ LET a == b.ptr - HeaderSize
       IN  \/ /\ a \in DOMAIN hdr
              /\ call' = [call EXCEPT ![c] =
                     [op |-> "free", addr |-> a, l2 |-> hdr[a],
                      got |-> b.got, sz |-> b.sz]]
              /\ UNCHANGED state
           \/ /\ a \notin DOMAIN hdr
              /\ state' = "corrupt"
              /\ UNCHANGED call
    /\ live' = live \ {b}
    /\ UNCHANGED <<vfree, slabs, used, hdr>>

(* What is in memory that nobody holds does not matter.                    *)
Forget(c) ==
    /\ hdr' = [a \in DOMAIN hdr \ {call[c].addr} |-> hdr[a]]
    /\ call' = [call EXCEPT ![c] = None]

(* Mutant: the largest cache is taken for the vmspace.                     *)
IsCachedBelow(l2) == l2 < MaxLog2

(* l2 names a cache.                                                       *)
IsCached(l2) == l2 <= MaxLog2

(* slab_cache_free, which panics if the cache has no slab, and may return  *)
(* a slab to the vmspace when the last object of it comes back.            *)
FreeObject(c) ==
    /\ state = "up" /\ call[c].op = "free" /\ IsCached(call[c].l2)
    /\ LET k == call[c].l2
           s == SlabOf(call[c].addr)
           u == used[k] \ {call[c].addr}
       IN  \/ /\ slabs[k] = {}
              /\ state' = "panic"
              /\ UNCHANGED <<vfree, slabs, used>>
           \/ /\ slabs[k] # {}
              /\ used' = [used EXCEPT ![k] = u]
              /\ UNCHANGED <<state, vfree, slabs>>
           \/ /\ s \in slabs[k]
              /\ u \cap Objects(s, k) = {}
              /\ used' = [used EXCEPT ![k] = u]
              /\ slabs' = [slabs EXCEPT ![k] = @ \ {s}]
              /\ vfree' = vfree \cup PagesOf(s, SlabLog2)
              /\ UNCHANGED state
    /\ Forget(c)
    /\ UNCHANGED live

(* vmspace_free of 2^l2 bytes; buddy_free does nothing below a page.       *)
FreePages(c) ==
    /\ state = "up" /\ call[c].op = "free" /\ ~IsCached(call[c].l2)
    /\ vfree' = IF call[c].l2 < PageLog2 THEN vfree
                ELSE vfree \cup PagesOf(call[c].addr, call[c].l2)
    /\ Forget(c)
    /\ UNCHANGED <<state, slabs, used, live>>

-----------------------------------------------------------------------------
Payload(b) == b.ptr .. (b.ptr + b.sz - 1)
HeaderBytes(a) == a .. (a + HeaderSize - 1)

(* The owner of a block fills it; a header that is hit is gone.            *)
Write(b) ==
    /\ state = "up"
    /\ hdr' = [a \in {h \in DOMAIN hdr : HeaderBytes(h) \cap Payload(b) = {}} |-> hdr[a]]
    /\ UNCHANGED <<state, vfree, slabs, used, live, call>>

Stopped == state \in {"panic", "corrupt", "wild", "overlaid"} /\ UNCHANGED vars

Next ==
    \/ kmalloc_init
    \/ \E c \in Contexts, sz \in Requests :
          AllocObject(c, sz) \/ AllocSlab(c, sz) \/ AllocPages(c, sz)
    \/ \E c \in Contexts : WriteHeader(c)
    \/ \E c \in Contexts : \E b \in live : kfree(c, b)
    \/ \E c \in Contexts : FreeObject(c) \/ FreePages(c)
    \/ \E b \in live : Write(b)
    \/ Stopped

Spec == Init /\ [][Next]_vars

-----------------------------------------------------------------------------
(* Properties                                                              *)

TypeOK ==
    /\ state \in {"start", "up", "panic", "corrupt", "wild", "overlaid"}
    /\ vfree \subseteq Pages
    /\ DOMAIN slabs = Caches /\ DOMAIN used = Caches
    /\ \A k \in Caches :
          /\ slabs[k] \subseteq {a \in Addresses : a % Size[SlabLog2] = 0}
          /\ used[k] \subseteq UNION {Objects(s, k) : s \in slabs[k]}
    /\ DOMAIN hdr \subseteq Addresses
    /\ \A a \in DOMAIN hdr : hdr[a] \in Caches \cup PageLog2 .. MaxBlockLog2
    /\ \A b \in live : b.addr \in Addresses /\ b.sz \in Requests
    /\ \A c \in Contexts : call[c] = None \/ call[c].addr \in Addresses

(* "Heap corruption!" (kfree) is never reported, as long as callers write  *)
(* only to the bytes they asked for and no object has been given out that  *)
(* holds bytes of its slab's bitmap; and only requests that go to a cache  *)
(* without room for the bitmap (8, 16 and 32 bytes) ever get such objects. *)
NoCorruption ==
    /\ state # "corrupt"
    /\ state = "overlaid" =>
          \E sz \in Requests : CacheLog2(sz) \in Caches /\ ~RoomFor(CacheLog2(sz))

(* What callers may write is theirs alone: the payloads of two blocks are  *)
(* apart, each lies in pages that the vmspace has given out, and none of   *)
(* it is the header of a block that somebody holds.                        *)
PayloadsApart ==
    \A b \in live :
        /\ \A d \in live :
              /\ b # d => Payload(b) \cap Payload(d) = {}
              /\ Payload(b) \cap HeaderBytes(d.addr) = {}
        /\ {x \div Size[PageLog2] : x \in Payload(b)} \subseteq Pages \ vfree

(* A block goes back where it came from, in whole: every page of the       *)
(* vmspace is free, in one slab or in one block of pages, and the objects  *)
(* in use are those of blocks that are held.  What is used of a cache are  *)
(* objects of its slabs, and a header has a size that kmalloc asks for.    *)
BlocksReturned ==
    /\ TypeOK
    /\ state = "up" =>
        LET large == {b \in Held : b.got \notin Caches}
            parts == {PagesOf(b.addr, b.got) : b \in large}
                     \cup {PagesOf(s, SlabLog2) : s \in UNION {slabs[k] : k \in Caches}}
        IN  /\ vfree \cup UNION parts = Pages
            /\ \A p \in parts : p \cap vfree = {}
            /\ \A p, q \in parts : p # q => p \cap q = {}
            /\ \A k \in Caches : used[k] = {b.addr : b \in {x \in Held : x.got = k}}
=============================================================================
