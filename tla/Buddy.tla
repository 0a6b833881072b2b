------------------------------- MODULE Buddy -------------------------------
(***************************************************************************)
(* The buddy allocator of buddy.c over the bitmaps of bitmap.c.            *)
(*                                                                         *)
(* orders[k] is the set of indices whose bit is set in the bitmap          *)
(* bd->orders[k], that is, of the free blocks of order k.                  *)
(*                                                                         *)
(* Each loop iteration of buddy_alloc, buddy_free and buddy_free_range is  *)
(* one step; `call' holds the locals of the call in progress.  The callers *)
(* hold a lock (pmm.c, vmspace.c), so calls do not overlap.                *)
(*                                                                         *)
(* Byte ranges given to buddy_free_range are counted in half pages: that   *)
(* is as much as is needed to tell an aligned bound from a misaligned one. *)
(***************************************************************************)
EXTENDS Blocks

CONSTANTS
    NPages,     \* bd->size in pages
    Ranges      \* the ranges that callers give to buddy_free_range

ASSUME NPagesAssumption == NPages \in Nat
ASSUME RangesAssumption ==
    /\ Ranges \subseteq RangeType
    /\ \A r \in Ranges : r.start + r.extent <= 2 * NPages

VARIABLES
    orders,     \* the bitmaps
    call,       \* the call in progress
    range,      \* what buddy_free_range has still to free
    ret,        \* first page of the block buddy_alloc returned last, or Fail
    held,       \* ghost: the pages that callers own
    managed     \* ghost: the pages that callers have put under management

vars == <<orders, call, range, ret, held, managed>>

None == [op |-> "none"]

CallType ==
    {None} \cup
    [op : {"alloc"}, want : Orders, order : Orders, idx : Nat] \cup
    [op : {"free"}, order : Orders, idx : Nat]

-----------------------------------------------------------------------------
(* Bitmaps and ranges                                                      *)

InExtent(k, i) == i * Size[k] <= NPages

(* bitmap_first_set(orders[k]) = i; it rejects an index above max_extent.  *)
FirstSet(k, i) ==
    /\ i \in orders[k]
    /\ \A j \in orders[k] : i <= j
    /\ InExtent(k, i)

NoneSet(k) == \A i \in orders[k] : ~FirstSet(k, i)

(* The whole pages of a range.                                             *)
PagesIn(r) ==
    {p \in 0 .. (NPages - 1) :
        r.start <= 2 * p /\ 2 * (p + 1) <= r.start + r.extent}

RangePending == range.extent >= 2 /\ range.start % 2 = 0

Idle == call = None /\ ~RangePending

-----------------------------------------------------------------------------
Init ==
    /\ orders = [k \in Orders |-> {}]
    /\ call = None
    /\ range = [start |-> 0, extent |-> 0]
    /\ ret = Fail
    /\ held = {}
    /\ managed = {}

(* buddy_alloc finds the lowest free block of the least order that has one *)
AllocSearch(want) ==
    /\ Idle
    /\ \E k \in want .. MaxOrder : \E i \in orders[k] :
          /\ FirstSet(k, i)
          /\ \A j \in want .. (k - 1) : NoneSet(j)
          /\ call' = [op |-> "alloc", want |-> want, order |-> k, idx |-> i]
    /\ UNCHANGED <<orders, range, ret, held, managed>>

(* ... or returns ~0ULL.                                                   *)
AllocFail(want) ==
    /\ Idle
    /\ \A k \in want .. MaxOrder : NoneSet(k)
    /\ ret' = Fail
    /\ UNCHANGED <<orders, call, range, held, managed>>

(* Mutant: the block that is split keeps its bit.                          *)
AllocSplitKeepsParent ==
    /\ call.op = "alloc"
    /\ call.order # call.want
    /\ orders' = [orders EXCEPT ![call.order - 1] =
                      @ \cup {2 * call.idx, 2 * call.idx + 1}]
    /\ call' = [call EXCEPT !.order = @ - 1, !.idx = 2 * @]
    /\ UNCHANGED <<range, ret, held, managed>>

(* One round of the splitting loop: the block gives way to its two halves, *)
(* and the left one is split on.                                           *)
AllocSplit ==
    /\ call.op = "alloc"
    /\ call.order # call.want
    /\ LET k == call.order
           i == call.idx
       IN  /\ orders' = [orders EXCEPT ![k] = @ \ {i},
                                       ![k - 1] = @ \cup {2 * i, 2 * i + 1}]
           /\ call' = [call EXCEPT !.order = k - 1, !.idx = 2 * i]
    /\ UNCHANGED <<range, ret, held, managed>>

(* Mutant: the index is returned without the shift by the order.           *)
AllocTakeUnscaled ==
    /\ call.op = "alloc"
    /\ call.order = call.want
    /\ orders' = [orders EXCEPT ![call.order] = @ \ {call.idx}]
    /\ ret' = call.idx
    /\ held' = held \cup Pages(call.order, call.idx)
    /\ call' = None
    /\ UNCHANGED <<range, managed>>

(* The block of the wanted order is marked as not free and returned.       *)
AllocTake ==
    /\ call.op = "alloc"
    /\ call.order = call.want
    /\ orders' = [orders EXCEPT ![call.order] = @ \ {call.idx}]
    /\ ret' = call.idx * Size[call.order]
    /\ held' = held \cup Pages(call.order, call.idx)
    /\ call' = None
    /\ UNCHANGED <<range, managed>>

(* Entry of buddy_free and its first bitmap_set.                           *)
MarkFree(k, i) ==
    /\ orders' = [orders EXCEPT ![k] = @ \cup {i}]
    /\ call' = [op |-> "free", order |-> k, idx |-> i]

(* A caller gives back pages it holds, all of what it was given or a part  *)
(* (vmspace_free returns a multi-page block page by page).                 *)
Free(k, i) ==
    /\ Idle
    /\ Pages(k, i) \subseteq held
    /\ MarkFree(k, i)
    /\ held' = held \ Pages(k, i)
    /\ UNCHANGED <<range, ret, managed>>

(* Mutant: blocks are merged without a look at the buddy.                  *)
FreeMergeUnchecked ==
    /\ call.op = "free"
    /\ call.order # MaxOrder
    /\ orders' = [orders EXCEPT ![call.order] = @ \ {call.idx, BuddyOf(call.idx)},
                                ![call.order + 1] = @ \cup {call.idx \div 2}]
    /\ call' = [call EXCEPT !.order = @ + 1, !.idx = @ \div 2]
    /\ UNCHANGED <<range, ret, held, managed>>

(* The block's buddy is free too: both bits are cleared and the parent's   *)
(* is set by the next round of the loop.                                   *)
FreeMerge ==
    /\ call.op = "free"
    /\ call.order # MaxOrder
    /\ BuddyOf(call.idx) \in orders[call.order]
    /\ LET k == call.order
           i == call.idx
           parent == i \div 2
       IN  /\ orders' = [orders EXCEPT ![k] = @ \ {i, BuddyOf(i)},
                                       ![k + 1] = @ \cup {parent}]
           /\ call' = [call EXCEPT !.order = k + 1, !.idx = parent]
    /\ UNCHANGED <<range, ret, held, managed>>

(* Mutant: the test for the top order is off by one.                       *)
FreeDoneBelowTop ==
    /\ call.op = "free"
    /\ \/ call.order >= MaxOrder - 1
       \/ BuddyOf(call.idx) \notin orders[call.order]
    /\ call' = None
    /\ UNCHANGED <<orders, range, ret, held, managed>>

FreeDone ==
    /\ call.op = "free"
    /\ \/ call.order = MaxOrder
       \/ BuddyOf(call.idx) \notin orders[call.order]
    /\ call' = None
    /\ UNCHANGED <<orders, range, ret, held, managed>>

(* Entry of buddy_free_range: a misaligned start moves up to the next page *)
(* boundary, and the extent stays as it is.                                *)
AlignStart(r) ==
    IF r.start % 2 = 0 THEN r
    ELSE IF r.extent < 2 THEN [r EXCEPT !.extent = 0]
    ELSE [r EXCEPT !.start = r.start - 1 + 2]

FreeRange(r) ==
    /\ Idle
    /\ PagesIn(r) \cap managed = {}
    /\ range' = AlignStart(r)
    /\ managed' = managed \cup PagesIn(r)
    /\ UNCHANGED <<orders, call, ret, held>>

(* Block (k, i) starts where the range does and is not larger.             *)
Fits(k, i) ==
    /\ 2 * Size[k] <= range.extent
    /\ 2 * (i * Size[k]) = range.start

(* Mutant: the range is not advanced.                                      *)
FreeRangeStepInPlace ==
    /\ call = None
    /\ RangePending
    /\ \E k \in Orders, i \in 0 .. NPages :
          /\ Fits(k, i)
          /\ \A j \in (k + 1) .. MaxOrder, x \in 0 .. NPages : ~Fits(j, x)
          /\ MarkFree(k, i)
    /\ UNCHANGED <<range, ret, held, managed>>

(* One round of the loop of buddy_free_range: the largest block that fits  *)
(* is cut off the range and freed.                                         *)
FreeRangeStep ==
    /\ call = None
    /\ RangePending
    /\ \E k \in Orders, i \in 0 .. NPages :
          /\ Fits(k, i)
          /\ \A j \in (k + 1) .. MaxOrder, x \in 0 .. NPages : ~Fits(j, x)
          /\ range' = [start |-> range.start + 2 * Size[k],
                       extent |-> range.extent - 2 * Size[k]]
          /\ MarkFree(k, i)
    /\ UNCHANGED <<ret, held, managed>>

Advance ==      \* what a call in progress does next
    AllocSplit \/ AllocTake \/ FreeMerge \/ FreeDone \/ FreeRangeStep

Next ==
    \/ \E want \in Orders : AllocSearch(want) \/ AllocFail(want)
    \/ \E k \in Orders, i \in 0 .. NPages : Free(k, i)
    \/ \E r \in Ranges : FreeRange(r)
    \/ AllocSplit
    \/ AllocTake
    \/ FreeMerge
    \/ FreeDone
    \/ FreeRangeStep

Spec == Init /\ [][Next]_vars

(* A call runs to its end: it holds the lock of its caller, with           *)
(* interrupts off, and waits for nothing.                                  *)
FairSpec == Spec /\ WF_vars(Advance)

-----------------------------------------------------------------------------
(* Properties                                                              *)

FreePages == Covered(orders)

PendingPages == IF RangePending THEN PagesIn(range) ELSE {}

(* Every variable has its type; what the allocator has under management,   *)
(* and what it hands out, lies within bd->size.                            *)
TypeOK ==
    /\ orders \in [Orders -> SUBSET Nat]
    /\ call \in CallType
    /\ range \in RangeType
    /\ ret \in Nat \cup {Fail}
    /\ held \subseteq 0 .. (NPages - 1)
    /\ managed \subseteq 0 .. (NPages - 1)

(* No page is covered by two set bits, of one order or of two: buddy_alloc *)
(* clears one bit per order it passes, so a page with a second bit would   *)
(* be handed out twice.                                                    *)
NoOverlap == Apart(orders)

(* Every page under management is in exactly one place: free, held by a    *)
(* caller, or still to be freed by buddy_free_range.  No free block goes   *)
(* beyond the managed pages, which is the case the FIXME in buddy_free     *)
(* worries about (a coalesced block that exceeds the region).              *)
Accounted ==
    /\ FreePages \cup held \cup PendingPages = managed
    /\ FreePages \cap held = {}
    /\ PendingPages \cap (FreePages \cup held) = {}

(* Between calls the bitmaps depend only on which pages are free, not on   *)
(* the order of the calls that led there: a bit is set exactly for the     *)
(* maximal aligned blocks of free pages.                                   *)
MaximalFree(k, i) ==
    /\ Pages(k, i) \subseteq FreePages
    /\ k # MaxOrder => ~(Pages(k + 1, i \div 2) \subseteq FreePages)

Canonical ==
    call = None =>
        \A k \in Orders, i \in 0 .. NPages :
            i \in orders[k] <=> MaximalFree(k, i)

(* buddy_alloc fails only when no aligned block of the wanted size is free *)
(* throughout: a block hidden in smaller pieces would be lost.             *)
AllocComplete ==
    Idle => \A want \in Orders :
        (\A k \in want .. MaxOrder : NoneSet(k)) =>
            \A i \in 0 .. NPages : ~(Pages(want, i) \subseteq FreePages)

(* The block that the call in progress works on is marked free, two        *)
(* buddies are both marked only while a call is about to merge them or has *)
(* just split them, and the rest of a range starts at a page boundary.     *)
InFlight ==
    /\ call # None => call.idx \in orders[call.order]
    /\ call.op = "alloc" => call.want <= call.order
    /\ \A k \in Orders : \A i \in orders[k] :
          k # MaxOrder /\ BuddyOf(i) \in orders[k] =>
              /\ call # None
              /\ call.order = k
              /\ call.idx \in {i, BuddyOf(i)}
    /\ range.start % 2 = 0
    /\ range.start + range.extent <= 2 * NPages

IInv == TypeOK /\ NoOverlap /\ Accounted /\ InFlight

(* Every call of the allocator returns.                                    *)
CallReturns == ~Idle ~> Idle

(* What buddy_free_range needs: ranges that start at a page boundary.  Of  *)
(* any other, the start moves up and the extent stays, and a page past the *)
(* end of the range is freed.                                              *)
RangesAligned == \A r \in Ranges : r.start % 2 = 0

(* The promise of the allocator, see PageAllocator.                        *)
Usable == UNION {PagesIn(r) : r \in Ranges}

Abstract == INSTANCE PageAllocator WITH free <- FreePages

AbstractSpec == Abstract!Spec
=============================================================================
