------------------------------ MODULE Vmspace ------------------------------
(***************************************************************************)
(* The allocator of kernel address space (vmspace.c).  It joins three      *)
(* parts, each taken at what it promises: a buddy allocator for addresses  *)
(* and the one behind alloc_pages (PageAllocator), and the page tables     *)
(* (PageMap).  They must agree at the end of every call, and nobody else   *)
(* may get hold of a frame that is in use.                                 *)
(*                                                                         *)
(* Pages are counted from vms->start, frames from physical address 0.      *)
(* vms->lock makes calls of one vmspace serial, but the frames are shared  *)
(* with all other users of alloc_page, who may come between any two steps. *)
(***************************************************************************)
EXTENDS Integers, FiniteSetsExt

CONSTANTS
    NPages,     \* pages of the region given to vmspace_init
    Overhead,   \* pages of it for the bitmaps of the buddy allocator
    MaxOrder,   \* largest request, as a power of two of pages
    Size,       \* Size[k] = 1 << k
    Memories,   \* frames that alloc_pages may have at first
    FourGB,     \* frames below 4GB: an address of 32 bits wraps there
    MaxOthers   \* bound on the frames that others hold

ASSUME VmspaceAssumption ==
    /\ {NPages, Overhead, MaxOrder, MaxOthers} \subseteq Nat
    /\ 0 < Overhead /\ Overhead < NPages
    /\ DOMAIN Size \subseteq Nat /\ 0 .. MaxOrder \subseteq DOMAIN Size
    /\ Size \in [DOMAIN Size -> Nat \ {0}]
    /\ Size[0] = 1
    /\ \A k \in DOMAIN Size : k + 1 \in DOMAIN Size => Size[k + 1] = 2 * Size[k]
    /\ \E k \in DOMAIN Size : Overhead <= Size[k]
    /\ FourGB \in Nat \ {0}
    /\ \A m \in Memories : m \subseteq Nat

VARIABLES
    state,      \* "start", "up", "panic" (out of memory), "assert" (any other
                \* panic), or "wild" after a mapping of the address ~0
    vfree,      \* free pages of the region
    pfree,      \* free frames
    ram,        \* ghost: the frames there were at first
    ptab,       \* the mappings of the region: pages to frames
    live,       \* ghost: what callers hold
    others,     \* ghost: frames that others hold
    lost,       \* ghost: frames that nobody will ever give back
    call        \* the call in progress

vars == <<state, vfree, pfree, ram, ptab, live, others, lost, call>>

Orders == 0 .. MaxOrder
None == [op |-> "none"]
NoFrame == -1

Block(a, k) == a .. (a + Size[k] - 1)

(* The starts of the aligned free blocks of 2^k pages or frames within s.  *)
Blocks(s, k) == {a \in s : a % Size[k] = 0 /\ Block(a, k) \subseteq s}

(* The blocks that alloc_pages(PAGE_REQ_NONE, 2^k) may return: what lies   *)
(* above 4GB is used first.                                                *)
alloc_pages(k) ==
    LET high == Blocks({f \in pfree : f >= FourGB}, k)
        low  == Blocks({f \in pfree : f < FourGB}, k)
    IN  IF high # {} THEN high ELSE low

(* A frame's address in a uintptr_t, and in a page table entry.            *)
uintptr(f) == f % FourGB

log2_roundup(n) == Min({k \in DOMAIN Size : Size[k] >= n})

Idle == state = "up" /\ call = None

-----------------------------------------------------------------------------
Init ==
    /\ state = "start"
    /\ vfree = {}
    /\ ram \in Memories
    /\ pfree = ram
    /\ ptab = <<>>
    /\ live = {}
    /\ others = {}
    /\ lost = {}
    /\ call = None

(* The bitmaps go to the end of the region; the result of alloc_pages is   *)
(* not looked at, and what it rounds the request up by is never used.      *)
vmspace_init ==
    /\ state = "start"
    /\ LET k == log2_roundup(Overhead)
           start == NPages - Overhead
       IN  \/ /\ alloc_pages(k) = {}
              /\ state' = "wild"
              /\ UNCHANGED <<vfree, pfree, ptab, lost>>
           \/ \E f \in alloc_pages(k) :
                 /\ pfree' = pfree \ Block(f, k)
                 /\ ptab' = [v \in start .. (NPages - 1) |-> uintptr(f + v - start)]
                 /\ lost' = (f + Overhead) .. (f + Size[k] - 1)
                 /\ vfree' = 0 .. (start - 1)
                 /\ state' = "up"
    /\ UNCHANGED <<ram, live, others, call>>

(* vmspace_alloc takes the addresses ...                                   *)
vmspace_alloc(k, phys) ==
    /\ Idle
    /\ \E a \in Blocks(vfree, k) :
          /\ vfree' = vfree \ Block(a, k)
          /\ call' = [op |-> "alloc", addr |-> a, order |-> k, phys |-> phys,
                      got |-> NoFrame, frame |-> NoFrame, i |-> 0]
    /\ UNCHANGED <<ram, state, pfree, ptab, live, others, lost>>

(* ... or returns ~0, and nothing has changed.                             *)
AllocFull(k) ==
    /\ Idle
    /\ Blocks(vfree, k) = {}
    /\ UNCHANGED vars

More == call.i < Size[call.order]

(* Mutant: one frame is asked for, whatever the size.                      *)
AllocOnePage ==
    /\ call.op = "alloc" /\ state = "up"
    /\ call.phys /\ call.got = NoFrame
    /\ \/ /\ alloc_pages(0) = {}
          /\ state' = "panic"
          /\ UNCHANGED <<pfree, call>>
       \/ \E f \in alloc_pages(0) :
             /\ pfree' = pfree \ {f}
             /\ call' = [call EXCEPT !.got = f, !.frame = uintptr(f)]
             /\ UNCHANGED state
    /\ UNCHANGED <<ram, vfree, ptab, live, others, lost>>

(* The frames for the block; without them it panics, with the lock held.   *)
AllocPhys ==
    /\ call.op = "alloc" /\ state = "up"
    /\ call.phys /\ call.got = NoFrame
    /\ \/ /\ alloc_pages(call.order) = {}
          /\ state' = "panic"
          /\ UNCHANGED <<pfree, call>>
       \/ \E f \in alloc_pages(call.order) :
             /\ pfree' = pfree \ Block(f, call.order)
             /\ call' = [call EXCEPT !.got = f, !.frame = uintptr(f)]
             /\ UNCHANGED state
    /\ UNCHANGED <<ram, vfree, ptab, live, others, lost>>

(* map_one_page, which panics if the page is mapped.                       *)
AllocMap ==
    /\ call.op = "alloc" /\ state = "up"
    /\ call.got # NoFrame /\ More
    /\ LET v == call.addr + call.i
       IN  \/ /\ v \in DOMAIN ptab
              /\ state' = "assert"
              /\ UNCHANGED <<ptab, call>>
           \/ /\ v \notin DOMAIN ptab
              /\ ptab' = [w \in DOMAIN ptab \cup {v} |->
                             IF w = v THEN uintptr(call.frame + call.i) ELSE ptab[w]]
              /\ call' = [call EXCEPT !.i = @ + 1]
              /\ UNCHANGED state
    /\ UNCHANGED <<ram, vfree, pfree, live, others, lost>>

AllocReturn ==
    /\ call.op = "alloc" /\ state = "up"
    /\ call.phys => call.got # NoFrame /\ ~More
    /\ live' = live \cup
           {[addr |-> call.addr, order |-> call.order, got |-> call.got]}
    /\ call' = None
    /\ UNCHANGED <<ram, state, vfree, pfree, ptab, others, lost>>

(* A caller gives back a block, with its frames if it came with frames.    *)
vmspace_free(b) ==
    /\ Idle
    /\ live' = live \ {b}
    /\ call' = [op |-> "free", addr |-> b.addr, order |-> b.order,
                phys |-> b.got # NoFrame, freed |-> FALSE, i |-> 0]
    /\ UNCHANGED <<ram, state, vfree, pfree, ptab, others, lost>>

(* Mutant: the page is unmapped before its frame is looked up.             *)
FreeFrameLate ==
    /\ call.op = "free" /\ state = "up"
    /\ call.phys /\ More /\ ~call.freed
    /\ ptab' = [v \in DOMAIN ptab \ {call.addr + call.i} |-> ptab[v]]
    /\ state' = "assert"
    /\ UNCHANGED <<ram, vfree, pfree, live, others, lost, call>>

(* Mutant: the frame is looked up and not freed.                           *)
FreeFrameNot ==
    /\ call.op = "free" /\ state = "up"
    /\ call.phys /\ More /\ ~call.freed
    /\ call' = [call EXCEPT !.freed = TRUE]
    /\ UNCHANGED <<ram, state, vfree, pfree, ptab, live, others, lost>>

(* get_mapping and free_page for one page; the frame is free from here on, *)
(* and the page still mapped to it.                                        *)
FreeFrame ==
    /\ call.op = "free" /\ state = "up"
    /\ call.phys /\ More /\ ~call.freed
    /\ LET v == call.addr + call.i
       IN  \/ /\ v \notin DOMAIN ptab
              /\ state' = "assert"
              /\ UNCHANGED <<pfree, call>>
           \/ /\ v \in DOMAIN ptab
              /\ pfree' = pfree \cup {ptab[v]}
              /\ call' = [call EXCEPT !.freed = TRUE]
              /\ UNCHANGED state
    /\ UNCHANGED <<ram, vfree, ptab, live, others, lost>>

(* Mutant: the page stays mapped.                                          *)
FreeUnmapNot ==
    /\ call.op = "free" /\ state = "up"
    /\ call.freed
    /\ call' = [call EXCEPT !.i = @ + 1, !.freed = FALSE]
    /\ UNCHANGED <<ram, state, vfree, pfree, ptab, live, others, lost>>

(* unmap for the same page; it panics if the page is not mapped.           *)
FreeUnmap ==
    /\ call.op = "free" /\ state = "up"
    /\ call.freed
    /\ LET v == call.addr + call.i
       IN  \/ /\ v \notin DOMAIN ptab
              /\ state' = "assert"
              /\ UNCHANGED <<ptab, call>>
           \/ /\ v \in DOMAIN ptab
              /\ ptab' = [w \in DOMAIN ptab \ {v} |-> ptab[w]]
              /\ call' = [call EXCEPT !.i = @ + 1, !.freed = FALSE]
              /\ UNCHANGED state
    /\ UNCHANGED <<ram, vfree, pfree, live, others, lost>>

FreeReturn ==
    /\ call.op = "free" /\ state = "up"
    /\ call.phys => ~More
    /\ vfree' = vfree \cup Block(call.addr, call.order)
    /\ call' = None
    /\ UNCHANGED <<ram, state, pfree, ptab, live, others, lost>>

(* Other users of alloc_page and free_page.                                *)
OthersTake ==
    /\ state = "up"
    /\ Cardinality(others) < MaxOthers
    /\ \E f \in alloc_pages(0) :
          /\ pfree' = pfree \ {f}
          /\ others' = others \cup {f}
    /\ UNCHANGED <<ram, state, vfree, ptab, live, lost, call>>

OthersGive ==
    /\ state = "up"
    /\ \E f \in others :
          /\ pfree' = pfree \cup {f}
          /\ others' = others \ {f}
    /\ UNCHANGED <<ram, state, vfree, ptab, live, lost, call>>

Stopped ==
    /\ state \in {"panic", "assert", "wild"}
    /\ UNCHANGED vars

Next ==
    \/ vmspace_init
    \/ \E k \in Orders :
          AllocFull(k) \/ \E phys \in BOOLEAN : vmspace_alloc(k, phys)
    \/ AllocPhys
    \/ AllocMap
    \/ AllocReturn
    \/ \E b \in live : vmspace_free(b)
    \/ FreeFrame
    \/ FreeUnmap
    \/ FreeReturn
    \/ OthersTake
    \/ OthersGive
    \/ Stopped

Spec == Init /\ [][Next]_vars

-----------------------------------------------------------------------------
(* Properties                                                              *)

Bitmaps == (NPages - Overhead) .. (NPages - 1)

PhysPages == UNION {Block(b.addr, b.order) : b \in {x \in live : x.got # NoFrame}}

TypeOK ==
    /\ state \in {"start", "up", "panic", "assert", "wild"}
    /\ vfree \subseteq 0 .. (NPages - 1)
    /\ ram \in Memories
    /\ pfree \subseteq Nat /\ others \subseteq Nat /\ lost \subseteq Nat
    /\ DOMAIN ptab \subseteq 0 .. (NPages - 1)
    /\ \A v \in DOMAIN ptab : ptab[v] \in Nat
    /\ live \subseteq [addr : Nat, order : Orders, got : Nat \cup {NoFrame}]
    /\ call # None => call.order \in Orders /\ call.i \in 0 .. Size[call.order]

(* A page that a caller holds, or that holds the allocator's bitmaps, has  *)
(* a frame of its own: the frame is not free, nobody else holds it, and no *)
(* other such page is mapped to it.  This is so at every moment, also      *)
(* while another block is being freed.  The pages of a block lead to the   *)
(* frames that alloc_pages gave for it (below 4GB: see uintptr), and no    *)
(* loop goes beyond the block.                                             *)
FramesExclusive ==
    /\ TypeOK
    /\ state = "up" =>
        LET inUse == PhysPages \cup Bitmaps
        IN  /\ inUse \subseteq DOMAIN ptab
            /\ \A v \in inUse :
                  /\ ptab[v] \notin pfree \cup others
                  /\ \A w \in inUse : ptab[v] = ptab[w] => v = w
            /\ \A b \in {x \in live : x.got # NoFrame} : \A i \in 0 .. (Size[b.order] - 1) :
                  ptab[b.addr + i] = b.got + i

(* Between calls exactly the pages in use are mapped: vmspace_free leaves  *)
(* no mapping behind through which a frame could be reached that is free.  *)
MappedExactly == Idle => DOMAIN ptab = PhysPages \cup Bitmaps

(* Between calls both allocators account for all they have: no page and no *)
(* frame gets lost on the way through vmspace_alloc and vmspace_free.      *)
NothingLost ==
    Idle =>
        /\ vfree \cup Bitmaps \cup UNION {Block(b.addr, b.order) : b \in live}
              = 0 .. (NPages - 1)
        /\ pfree \cup others \cup lost \cup {ptab[v] : v \in DOMAIN ptab} = ram

(* The panics of map, unmap and vmspace_free about pages that are mapped   *)
(* twice or not at all are never reached.                                  *)
OnlyOutOfMemory == state # "assert"
=============================================================================
