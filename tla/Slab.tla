-------------------------------- MODULE Slab -------------------------------
(***************************************************************************)
(* A slab cache (slab.c): objects of one size, carved out of slabs of      *)
(* SlabSize bytes that come from a vmspace.                                *)
(*                                                                         *)
(* A slab is known by its place in the address order of the vmspace, and   *)
(* an object by <<slab, index>>, so that START_FOR_FOOTER and              *)
(* FOOTER_FOR_PTR are the first component.  A slab holds its objects from  *)
(* the bottom up, and at the top a footer with the next pointer and, below *)
(* it, the bitmap of used objects.                                         *)
(*                                                                         *)
(* Operations hold the lock of the cache and are one step each.  A cache   *)
(* is never destroyed: nothing calls slab_cache_destroy.                   *)
(***************************************************************************)
EXTENDS Integers, Sequences, FiniteSets

CONSTANTS
    NSlabs,         \* slabs that the vmspace can provide
    SlabSize,       \* SLAB_SIZE
    FooterSize,     \* sizeof(slab_footer_t)
    ObjSize         \* c->size

ASSUME SlabAssumption ==
    /\ {NSlabs, SlabSize, FooterSize, ObjSize} \subseteq Nat \ {0}
    /\ FooterSize + ObjSize <= SlabSize

VARIABLES
    list,           \* the slabs from c->first on
    used,           \* used[s]: the bits of the bitmap of slab s that are 1
    empty,          \* c->empty, <<>> for NULL
    vms,            \* the slabs that the vmspace has given to the cache
    held,           \* ghost: the objects that callers own
    ret,            \* the object returned last, <<>> for none
    mode            \* "live", or "wild" after a write through ~0

vars == <<list, used, empty, vms, held, ret, mode>>

NULL == <<>>

Slabs == 0 .. (NSlabs - 1)

-----------------------------------------------------------------------------
(* Geometry                                                                *)

bitmap_num == (SlabSize - FooterSize) \div ObjSize

bitmap_sz == bitmap_num \div 8 + 1

(* The bitmap bytes that lie within object i, and the entries they hold.   *)
BitmapBase == SlabSize - FooterSize - bitmap_sz

Bytes(i) == (i * ObjSize) .. ((i + 1) * ObjSize - 1)

Overlaid(i) ==
    {b \in 0 .. (8 * bitmap_sz - 1) : BitmapBase + b \div 8 \in Bytes(i)}

Bits == 0 .. (8 * bitmap_sz - 1)
Objects == Slabs \X (0 .. (bitmap_num - 1))

(* Order of addresses.                                                     *)
Above(o, p) == o[1] > p[1] \/ (o[1] = p[1] /\ o[2] > p[2])

-----------------------------------------------------------------------------
(* Slab-level helpers                                                      *)

(* find_empty_obj on a slab s with used bits u.                            *)
find_empty_obj(s, u) ==
    IF \E b \in Bits \ u : b < bitmap_num
    THEN <<s, CHOOSE b \in Bits \ u : \A d \in Bits \ u : b <= d>>
    ELSE NULL

(* The first empty object of the slabs of a list, u giving the bitmaps.    *)
FirstEmpty(l, u) ==
    IF \E n \in DOMAIN l : find_empty_obj(l[n], u[l[n]]) # NULL
    THEN LET m == CHOOSE n \in DOMAIN l :
                      /\ find_empty_obj(l[n], u[l[n]]) # NULL
                      /\ \A k \in 1 .. (n - 1) : find_empty_obj(l[k], u[l[k]]) = NULL
         IN  find_empty_obj(l[m], u[l[m]])
    ELSE NULL

(* The rest of the list from slab s on, following the next pointers.       *)
From(l, s) == SubSeq(l, CHOOSE n \in DOMAIN l : l[n] = s, Len(l))

-----------------------------------------------------------------------------
(* slab_cache_create, done once for each cache.                            *)
Init ==
    /\ list = <<>>
    /\ used = [s \in Slabs |-> {}]
    /\ empty = NULL
    /\ vms = {}
    /\ held = {}
    /\ ret = NULL
    /\ mode = "live"

(* Mutant: slab_cache_alloc does not mark the object it takes as used.     *)
AllocEmptyUnmarked ==
    /\ mode = "live"
    /\ empty # NULL
    /\ empty' = FirstEmpty(From(list, empty[1]), used)
    /\ ret' = empty
    /\ held' = held \cup {empty}
    /\ UNCHANGED <<list, used, vms, mode>>

(* slab_cache_alloc with an empty object at hand.                          *)
AllocEmpty ==
    /\ mode = "live"
    /\ empty # NULL
    /\ LET s == empty[1]
           u == [used EXCEPT ![s] = @ \cup {empty[2]}]
       IN  /\ used' = u
           /\ empty' = FirstEmpty(From(list, s), u)
    /\ ret' = empty
    /\ held' = held \cup {empty}
    /\ UNCHANGED <<list, vms, mode>>

(* Mutant: c->first->next is not set to the old head of the list.          *)
AllocCreateUnlinked(s) ==
    /\ mode = "live"
    /\ empty = NULL
    /\ s \notin vms
    /\ vms' = vms \cup {s}
    /\ list' = <<s>>
    /\ used' = [used EXCEPT ![s] = {0}]
    /\ empty' = find_empty_obj(s, {0})
    /\ ret' = <<s, 0>>
    /\ held' = held \cup {<<s, 0>>}
    /\ UNCHANGED mode

(* slab_cache_alloc creates a slab, which goes to the head of the list;    *)
(* the vmspace may place it at any free address.                           *)
AllocCreate(s) ==
    /\ mode = "live"
    /\ empty = NULL
    /\ s \notin vms
    /\ vms' = vms \cup {s}
    /\ list' = <<s>> \o list
    /\ used' = [used EXCEPT ![s] = {0}]
    /\ empty' = find_empty_obj(s, {0})
    /\ ret' = <<s, 0>>
    /\ held' = held \cup {<<s, 0>>}
    /\ UNCHANGED mode

(* The vmspace is exhausted: create() does not look at the result and      *)
(* writes a footer through ~0.                                             *)
AllocExhausted ==
    /\ mode = "live"
    /\ empty = NULL
    /\ vms = Slabs
    /\ mode' = "wild"
    /\ UNCHANGED <<list, used, empty, vms, held, ret>>

slab_cache_alloc ==
    AllocEmpty \/ AllocExhausted \/ \E s \in Slabs : AllocCreate(s)

(* Mutant: c->empty is not reset when its slab is destroyed.               *)
slab_cache_free_stale(o) ==
    /\ mode = "live"
    /\ o \in held
    /\ list # <<>>
    /\ LET s == o[1]
           u == used[s] \ {o[2]}
           e == IF empty = NULL \/ Above(empty, o) THEN o ELSE empty
           last == list[Len(list)] = s /\ u = {}
       IN  /\ list' = IF last THEN SubSeq(list, 1, Len(list) - 1) ELSE list
           /\ vms' = IF last THEN vms \ {s} ELSE vms
           /\ used' = [used EXCEPT ![s] = u]
           /\ empty' = e
    /\ held' = held \ {o}
    /\ ret' = NULL
    /\ UNCHANGED mode

(* Mutant: the last slab is destroyed whether or not it is in use.         *)
slab_cache_free_eager(o) ==
    /\ mode = "live"
    /\ o \in held
    /\ list # <<>>
    /\ LET s == o[1]
           u == used[s] \ {o[2]}
           e == IF empty = NULL \/ Above(empty, o) THEN o ELSE empty
           last == list[Len(list)] = s
       IN  /\ list' = IF last THEN SubSeq(list, 1, Len(list) - 1) ELSE list
           /\ vms' = IF last THEN vms \ {s} ELSE vms
           /\ used' = [used EXCEPT ![s] = u]
           /\ empty' = IF last /\ e[1] = s THEN NULL ELSE e
    /\ held' = held \ {o}
    /\ ret' = NULL
    /\ UNCHANGED mode

(* slab_cache_free: the object becomes the next to be given out if it is   *)
(* the lowest, and an unused slab is returned if it is the last one.       *)
slab_cache_free(o) ==
    /\ mode = "live"
    /\ o \in held
    /\ list # <<>>
    /\ LET s == o[1]
           u == used[s] \ {o[2]}
           e == IF empty = NULL \/ Above(empty, o) THEN o ELSE empty
           last == list[Len(list)] = s /\ u = {}
       IN  /\ list' = IF last THEN SubSeq(list, 1, Len(list) - 1) ELSE list
           /\ vms' = IF last THEN vms \ {s} ELSE vms
           /\ used' = [used EXCEPT ![s] = u]
           /\ empty' = IF last /\ e[1] = s THEN NULL ELSE e
    /\ held' = held \ {o}
    /\ ret' = NULL
    /\ UNCHANGED mode

(* The owner of an object writes to it: whatever part of the bitmap lies   *)
(* in the object takes the values that are written.                        *)
Write(o) ==
    /\ mode = "live"
    /\ o \in held
    /\ \E u \in SUBSET Overlaid(o[2]) :
          used' = [used EXCEPT ![o[1]] = (@ \ Overlaid(o[2])) \cup u]
    /\ UNCHANGED <<list, empty, vms, held, ret, mode>>

(* Nothing is known of the machine after the wild write.                   *)
Wild == mode = "wild" /\ UNCHANGED vars

Next ==
    \/ AllocEmpty
    \/ \E s \in Slabs : AllocCreate(s)
    \/ AllocExhausted
    \/ \E o \in Objects : slab_cache_free(o)
    \/ \E o \in Objects : Write(o)
    \/ Wild

Spec == Init /\ [][Next]_vars

-----------------------------------------------------------------------------
(* Properties                                                              *)

TypeOK ==
    /\ list \in Seq(Slabs)
    /\ used \in [Slabs -> SUBSET Bits]
    /\ empty \in Objects \cup {NULL}
    /\ vms \subseteq Slabs
    /\ held \subseteq Objects
    /\ ret \in Objects \cup {NULL}
    /\ mode \in {"live", "wild"}

(* The bitmaps of the slabs in the list say exactly which objects are with *)
(* callers; in particular no slab is returned while an object of it is in  *)
(* use.  What callers get are among the bitmap_num objects of a slab,      *)
(* never a spare entry of the bitmap's last byte.                          *)
BitmapsExact ==
    /\ TypeOK
    /\ held = {o \in Objects : o[1] \in vms /\ o[2] \in used[o[1]]}

(* c->empty never dangles: it is an unused object of a slab in the list.   *)
EmptyValid ==
    mode = "live" /\ empty # NULL =>
        /\ empty[1] \in {list[n] : n \in DOMAIN list}
        /\ empty \notin held

(* Every slab that was taken from the vmspace is in the list, once: none   *)
(* is lost and none is linked twice.                                       *)
SlabsLinked ==
    /\ vms = {list[n] : n \in DOMAIN list}
    /\ \A m, n \in DOMAIN list : list[m] = list[n] => m = n

(* "Return the address of an empty object in the given slab" (slab.c): an  *)
(* object that is in use is never handed out again.                        *)
NoDoubleHandout == [][slab_cache_alloc => ret' \notin held \/ mode' = "wild"]_vars
=============================================================================
