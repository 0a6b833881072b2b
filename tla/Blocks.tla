------------------------------- MODULE Blocks -------------------------------
(***************************************************************************)
(* The blocks of a buddy allocator (include/adt/buddy.h, buddy.c).         *)
(*                                                                         *)
(* A block is a pair (order, index): order k stands for log2 size          *)
(* MIN_BUDDY_SZ_LOG2 + k, and the block covers the Size[k] pages from page *)
(* index * Size[k] on, counted from bd->start (page aligned in every       *)
(* caller).                                                                *)
(***************************************************************************)
EXTENDS Integers

CONSTANTS
    MaxOrder,   \* NUM_BUDDY_BUCKETS - 1
    Size        \* Size[k] = 1 << k, the pages of a block of order k

Orders == 0 .. MaxOrder

RangeType == [start : Nat, extent : Nat]

ASSUME OrderAssumption == MaxOrder \in Nat
ASSUME SizeAssumption ==
    /\ Size \in [Orders -> Nat \ {0}]
    /\ Size[0] = 1
    /\ \A k \in Orders : k < MaxOrder => Size[k + 1] = 2 * Size[k]

Fail == -1      \* ~0ULL

Pages(k, i) == (i * Size[k]) .. ((i + 1) * Size[k] - 1)

BuddyOf(i) == IF i % 2 = 0 THEN i + 1 ELSE i - 1

(* The pages covered by the set bits of bitmaps o, and whether no page is  *)
(* covered twice.                                                          *)
Covered(o) == UNION {UNION {Pages(k, i) : i \in o[k]} : k \in Orders}

Apart(o) ==
    \A k, l \in Orders : \A i \in o[k], j \in o[l] :
        Pages(k, i) \cap Pages(l, j) # {} => k = l /\ i = j
=============================================================================
