---------------------------- MODULE BuddyProofs ----------------------------
(***************************************************************************)
(* Proofs about the buddy allocator (Buddy), for every region, number of   *)
(* orders and set of ranges, and about the physical memory manager (Pmm),  *)
(* for every memory map.                                                   *)
(***************************************************************************)
EXTENDS Buddy, Pmm, TLAPS, SequenceTheorems, WellFoundedInduction

-----------------------------------------------------------------------------
(* Blocks                                                                  *)

LEMMA SizePos == \A k \in Orders : Size[k] \in Nat /\ Size[k] >= 1
BY SizeAssumption

LEMMA PagesMember ==
    ASSUME NEW k \in Orders, NEW i \in Nat
    PROVE  \A p : p \in Pages(k, i) <=>
                  p \in Nat /\ i * Size[k] <= p /\ p < i * Size[k] + Size[k]
BY SizePos DEF Pages

(* The two halves of a block.                                              *)
LEMMA PagesSplit ==
    ASSUME NEW k \in Orders, k # 0, NEW i \in Nat
    PROVE  /\ k - 1 \in Orders
           /\ Pages(k, i) = Pages(k - 1, 2 * i) \cup Pages(k - 1, 2 * i + 1)
<1>1. k - 1 \in Orders /\ k - 1 < MaxOrder
  BY OrderAssumption DEF Orders
<1>2. Size[k] = 2 * Size[k - 1]
  BY <1>1, SizeAssumption, OrderAssumption DEF Orders
<1> DEFINE s == Size[k - 1]
<1>3. s \in Nat /\ s >= 1
  BY <1>1, SizePos
<1>4. /\ i * Size[k] = 2 * (i * s)
      /\ (2 * i) * s = 2 * (i * s)
      /\ (2 * i + 1) * s = 2 * (i * s) + s
      /\ i * s \in Nat
  BY <1>2, <1>3
<1>5. ASSUME NEW p
      PROVE p \in Pages(k, i) <=> p \in Pages(k - 1, 2 * i) \cup Pages(k - 1, 2 * i + 1)
  <2>1. p \in Pages(k, i) <=> p \in Nat /\ 2 * (i * s) <= p /\ p < 2 * (i * s) + 2 * s
    BY <1>2, <1>4, PagesMember
  <2>2. p \in Pages(k - 1, 2 * i) <=> p \in Nat /\ 2 * (i * s) <= p /\ p < 2 * (i * s) + s
    BY <1>1, <1>4, PagesMember
  <2>3. p \in Pages(k - 1, 2 * i + 1) <=>
            p \in Nat /\ 2 * (i * s) + s <= p /\ p < 2 * (i * s) + s + s
    BY <1>1, <1>4, PagesMember
  <2> HIDE DEF s
  <2>4. QED
    BY <2>1, <2>2, <2>3, <1>3, <1>4
<1>6. QED
  BY <1>1, <1>5

LEMMA MulMono == \A i, j, s \in Nat : i < j => i * s + s <= j * s
<1>1. SUFFICES ASSUME NEW i \in Nat, NEW j \in Nat, NEW s \in Nat, i < j
               PROVE i * s + s <= j * s
  OBVIOUS
<1>2. PICK d \in Nat : j = i + 1 + d
  <2>1. j - i - 1 \in Nat /\ j = i + 1 + (j - i - 1)
    BY <1>1
  <2>2. QED
    BY <2>1
<1>3. j * s = i * s + s + d * s /\ d * s \in Nat /\ i * s \in Nat
  BY <1>2
<1>4. QED
  BY <1>3

(* Distinct blocks of one order share no page.                             *)
LEMMA PagesApart ==
    ASSUME NEW k \in Orders, NEW i \in Nat, NEW j \in Nat, NEW p,
           p \in Pages(k, i), p \in Pages(k, j)
    PROVE  i = j
<1> DEFINE s == Size[k]
<1>1. s \in Nat
  BY SizePos
<1>2. /\ p \in Nat /\ i * s \in Nat /\ j * s \in Nat
      /\ i * s <= p /\ p < i * s + s /\ j * s <= p /\ p < j * s + s
  BY <1>1, PagesMember
<1>3. ~(i < j)
  BY <1>1, <1>2, MulMono
<1>4. ~(j < i)
  BY <1>1, <1>2, MulMono
<1>5. QED
  BY <1>3, <1>4

(* Every block has a page.                                                 *)
LEMMA PagesNonempty ==
    ASSUME NEW k \in Orders, NEW i \in Nat
    PROVE  i * Size[k] \in Pages(k, i)
<1>1. i * Size[k] \in Nat /\ Size[k] \in Nat /\ Size[k] >= 1
  BY SizePos
<1>2. QED
  BY <1>1, PagesMember

(* A block and its buddy are the two halves of their parent.               *)
LEMMA BuddyHalves ==
    ASSUME NEW i \in Nat
    PROVE  /\ BuddyOf(i) \in Nat
           /\ BuddyOf(i) # i
           /\ BuddyOf(BuddyOf(i)) = i
           /\ i \div 2 \in Nat
           /\ {i, BuddyOf(i)} = {2 * (i \div 2), 2 * (i \div 2) + 1}
<1>1. /\ i \div 2 \in Nat
      /\ i % 2 \in {0, 1}
      /\ i = 2 * (i \div 2) + (i % 2)
  OBVIOUS
<1>2. CASE i % 2 = 0
  BY <1>1, <1>2 DEF BuddyOf
<1>3. CASE i % 2 = 1
  BY <1>1, <1>3 DEF BuddyOf
<1>4. QED
  BY <1>1, <1>2, <1>3

-----------------------------------------------------------------------------
(* Bitmaps                                                                 *)

Bitmaps == [Orders -> SUBSET Nat]

LEMMA CoveredMember ==
    ASSUME NEW o
    PROVE  \A p : p \in Covered(o) <=>
                  \E k \in Orders : \E i \in o[k] : p \in Pages(k, i)
BY DEF Covered

LEMMA ApartMember ==
    ASSUME NEW o
    PROVE  Apart(o) <=>
             \A k, l \in Orders : \A i \in o[k], j \in o[l] : \A p :
                 p \in Pages(k, i) /\ p \in Pages(l, j) => k = l /\ i = j
BY DEF Apart

(* Marking a block none of whose pages is free.                            *)
LEMMA MarkBlock ==
    ASSUME NEW o \in Bitmaps, Apart(o), NEW k \in Orders, NEW i \in Nat,
           Pages(k, i) \cap Covered(o) = {}
    PROVE  LET n == [o EXCEPT ![k] = @ \cup {i}]
           IN  n \in Bitmaps /\ Apart(n) /\ Covered(n) = Covered(o) \cup Pages(k, i)
<1> DEFINE n == [o EXCEPT ![k] = @ \cup {i}]
<1>1. n \in Bitmaps
  BY DEF Bitmaps
<1>2. \A l \in Orders : \A x : x \in n[l] <=> x \in o[l] \/ (l = k /\ x = i)
  BY DEF Bitmaps
<1> HIDE DEF n
<1>3. Covered(n) = Covered(o) \cup Pages(k, i)
  <2>1. ASSUME NEW p
        PROVE p \in Covered(n) <=> p \in Covered(o) \/ p \in Pages(k, i)
    BY <1>2, CoveredMember
  <2>2. QED
    BY <2>1
<1>4. Apart(n)
  <2>1. SUFFICES ASSUME NEW a \in Orders, NEW b \in Orders, NEW x \in n[a],
                        NEW y \in n[b], NEW p, p \in Pages(a, x), p \in Pages(b, y)
                 PROVE a = b /\ x = y
    BY ApartMember
  <2>2. CASE x \in o[a] /\ y \in o[b]
    BY <2>1, <2>2, ApartMember
  <2>3. CASE (a = k /\ x = i) /\ y \in o[b]
    BY <2>1, <2>3, CoveredMember
  <2>4. CASE x \in o[a] /\ (b = k /\ y = i)
    BY <2>1, <2>4, CoveredMember
  <2>5. CASE (a = k /\ x = i) /\ (b = k /\ y = i)
    BY <2>5
  <2>6. QED
    BY <1>2, <2>2, <2>3, <2>4, <2>5
<1>5. QED
  BY <1>1, <1>3, <1>4 DEF n

(* Clearing a block takes away its pages and no others.                    *)
LEMMA ClearBlock ==
    ASSUME NEW o \in Bitmaps, Apart(o), NEW k \in Orders, NEW i \in o[k]
    PROVE  LET n == [o EXCEPT ![k] = @ \ {i}]
           IN  n \in Bitmaps /\ Apart(n) /\ Covered(n) = Covered(o) \ Pages(k, i)
<1> DEFINE n == [o EXCEPT ![k] = @ \ {i}]
<1>1. n \in Bitmaps
  BY DEF Bitmaps
<1>2. \A l \in Orders : \A x : x \in n[l] <=> x \in o[l] /\ ~(l = k /\ x = i)
  BY DEF Bitmaps
<1> HIDE DEF n
<1>3. Covered(n) = Covered(o) \ Pages(k, i)
  <2>1. ASSUME NEW p, p \in Covered(n)
        PROVE p \in Covered(o) /\ p \notin Pages(k, i)
    <3>1. PICK l, x : l \in Orders /\ x \in n[l] /\ p \in Pages(l, x)
      BY <2>1, CoveredMember
    <3>2. x \in o[l] /\ ~(l = k /\ x = i)
      BY <1>2, <3>1
    <3>3. p \in Covered(o)
      BY <3>1, <3>2, CoveredMember
    <3>4. p \notin Pages(k, i)
      BY <3>1, <3>2, ApartMember
    <3>5. QED
      BY <3>3, <3>4
  <2>2. ASSUME NEW p, p \in Covered(o), p \notin Pages(k, i)
        PROVE p \in Covered(n)
    <3>1. PICK l, x : l \in Orders /\ x \in o[l] /\ p \in Pages(l, x)
      BY <2>2, CoveredMember
    <3>2. x \in n[l]
      BY <1>2, <2>2, <3>1
    <3>3. QED
      BY <3>1, <3>2, CoveredMember
  <2>3. QED
    BY <2>1, <2>2
<1>4. Apart(n)
  BY <1>2, ApartMember
<1>5. QED
  BY <1>1, <1>3, <1>4 DEF n

(* Splitting a block changes neither the free pages nor their uniqueness.  *)
LEMMA SplitBlock ==
    ASSUME NEW o \in Bitmaps, Apart(o), NEW k \in Orders, k # 0, NEW i \in o[k]
    PROVE  LET n == [o EXCEPT ![k] = @ \ {i},
                              ![k - 1] = @ \cup {2 * i, 2 * i + 1}]
           IN  n \in Bitmaps /\ Apart(n) /\ Covered(n) = Covered(o)
<1> DEFINE n == [o EXCEPT ![k] = @ \ {i}, ![k - 1] = @ \cup {2 * i, 2 * i + 1}]
           New(l, x) == l = k - 1 /\ x \in {2 * i, 2 * i + 1}
<1>0. i \in Nat /\ k - 1 \in Orders /\ k - 1 # k
  BY PagesSplit DEF Bitmaps, Orders
<1>1. n \in Bitmaps
  BY <1>0 DEF Bitmaps
<1>2. \A l \in Orders : \A x : x \in n[l] <=> (x \in o[l] /\ ~(l = k /\ x = i)) \/ New(l, x)
  BY <1>0 DEF Bitmaps
<1>3. \A l, x, p : New(l, x) /\ p \in Pages(l, x) => p \in Pages(k, i)
  BY <1>0, PagesSplit
<1>4. \A p : p \in Pages(k, i) => \E l \in Orders : \E x : New(l, x) /\ p \in Pages(l, x)
  BY <1>0, PagesSplit
<1>5. \A l, m, x, y, p : New(l, x) /\ New(m, y) /\ p \in Pages(l, x) /\ p \in Pages(m, y)
                         => l = m /\ x = y
  BY <1>0, PagesApart
<1>6. \A l \in Orders : \A x : New(l, x) => x \in Nat
  BY <1>0
<1> HIDE DEF n, New
<1>7. Covered(n) = Covered(o)
  <2>1. ASSUME NEW p, p \in Covered(n)
        PROVE p \in Covered(o)
    BY <1>2, <1>3, <2>1, CoveredMember
  <2>2. ASSUME NEW p, p \in Covered(o)
        PROVE p \in Covered(n)
    <3>1. PICK l, x : l \in Orders /\ x \in o[l] /\ p \in Pages(l, x)
      BY <2>2, CoveredMember
    <3>2. CASE l = k /\ x = i
      BY <1>2, <1>4, <3>1, <3>2, CoveredMember
    <3>3. CASE ~(l = k /\ x = i)
      BY <1>2, <3>1, <3>3, CoveredMember
    <3>4. QED
      BY <3>2, <3>3
  <2>3. QED
    BY <2>1, <2>2
<1>8. Apart(n)
  <2>1. SUFFICES ASSUME NEW a \in Orders, NEW b \in Orders, NEW x \in n[a],
                        NEW y \in n[b], NEW p, p \in Pages(a, x), p \in Pages(b, y)
                 PROVE a = b /\ x = y
    BY ApartMember
  <2>2. CASE New(a, x) /\ New(b, y)
    BY <1>5, <2>1, <2>2
  <2>3. CASE x \in o[a] /\ ~(a = k /\ x = i) /\ New(b, y)
    BY <1>3, <2>1, <2>3, ApartMember
  <2>4. CASE y \in o[b] /\ ~(b = k /\ y = i) /\ New(a, x)
    BY <1>3, <2>1, <2>4, ApartMember
  <2>5. CASE x \in o[a] /\ y \in o[b]
    BY <2>1, <2>5, ApartMember
  <2>6. QED
    BY <1>2, <2>1, <2>2, <2>3, <2>4, <2>5
<1>9. QED
  BY <1>1, <1>7, <1>8 DEF n

(* So does merging a block and its buddy into their parent.                *)
LEMMA MergeBlock ==
    ASSUME NEW o \in Bitmaps, Apart(o), NEW k \in Orders, k # MaxOrder,
           NEW i \in o[k], BuddyOf(i) \in o[k]
    PROVE  LET n == [o EXCEPT ![k] = @ \ {i, BuddyOf(i)},
                              ![k + 1] = @ \cup {i \div 2}]
           IN  n \in Bitmaps /\ Apart(n) /\ Covered(n) = Covered(o)
<1> DEFINE n == [o EXCEPT ![k] = @ \ {i, BuddyOf(i)}, ![k + 1] = @ \cup {i \div 2}]
           Half(l, x) == l = k /\ x \in {i, BuddyOf(i)}
           q == i \div 2
<1>0. /\ i \in Nat /\ q \in Nat
      /\ k + 1 \in Orders /\ k + 1 # k /\ k + 1 # 0
      /\ {i, BuddyOf(i)} = {2 * q, 2 * q + 1}
  <2>1. i \in Nat
    BY DEF Bitmaps
  <2>2. k + 1 \in Orders /\ k + 1 # k /\ k + 1 # 0
    BY OrderAssumption DEF Orders
  <2>3. QED
    BY <2>1, <2>2, BuddyHalves
<1>1. n \in Bitmaps
  BY <1>0 DEF Bitmaps
<1>2. \A l \in Orders : \A x : x \in n[l] <=> (x \in o[l] /\ ~Half(l, x)) \/ (l = k + 1 /\ x = q)
  BY <1>0 DEF Bitmaps
<1>3. Pages(k + 1, q) = Pages(k, i) \cup Pages(k, BuddyOf(i))
  <2>1. (k + 1) - 1 = k
    BY DEF Orders
  <2>2. Pages(k + 1, q) = Pages(k, 2 * q) \cup Pages(k, 2 * q + 1)
    BY <1>0, <2>1, PagesSplit
  <2> HIDE DEF q
  <2>3. QED
    BY <1>0, <2>2
<1>4. \A p : p \in Pages(k + 1, q) <=> \E x : Half(k, x) /\ p \in Pages(k, x)
  BY <1>3
<1>5. \A l, x : Half(l, x) => l = k /\ x \in o[l]
  OBVIOUS
<1> HIDE DEF n, Half, q
<1>6. Covered(n) = Covered(o)
  <2>1. ASSUME NEW p, p \in Covered(n)
        PROVE p \in Covered(o)
    <3>1. PICK l, x : l \in Orders /\ x \in n[l] /\ p \in Pages(l, x)
      BY <2>1, CoveredMember
    <3>2. CASE x \in o[l]
      BY <3>1, <3>2, CoveredMember
    <3>3. CASE l = k + 1 /\ x = q
      BY <1>4, <1>5, <3>1, <3>3, CoveredMember
    <3>4. QED
      BY <1>2, <3>1, <3>2, <3>3
  <2>2. ASSUME NEW p, p \in Covered(o)
        PROVE p \in Covered(n)
    <3>1. PICK l, x : l \in Orders /\ x \in o[l] /\ p \in Pages(l, x)
      BY <2>2, CoveredMember
    <3>2. CASE Half(l, x)
      <4>1. p \in Pages(k + 1, q)
        BY <1>4, <1>5, <3>1, <3>2
      <4>2. q \in n[k + 1]
        BY <1>0, <1>2
      <4>3. QED
        BY <1>0, <4>1, <4>2, CoveredMember
    <3>3. CASE ~Half(l, x)
      BY <1>2, <3>1, <3>3, CoveredMember
    <3>4. QED
      BY <3>2, <3>3
  <2>3. QED
    BY <2>1, <2>2
<1>7. Apart(n)
  <2>1. SUFFICES ASSUME NEW a \in Orders, NEW b \in Orders, NEW x \in n[a],
                        NEW y \in n[b], NEW p, p \in Pages(a, x), p \in Pages(b, y)
                 PROVE a = b /\ x = y
    BY ApartMember
  <2>2. ASSUME NEW c \in Orders, NEW z \in o[c], p \in Pages(c, z), p \in Pages(k + 1, q)
        PROVE Half(c, z)
    <3>1. PICK h : Half(k, h) /\ p \in Pages(k, h)
      BY <1>4, <2>2
    <3>2. c = k /\ z = h
      BY <1>5, <2>2, <3>1, ApartMember
    <3>3. QED
      BY <3>1, <3>2
  <2>3. CASE x \in o[a] /\ y \in o[b]
    BY <2>1, <2>3, ApartMember
  <2>4. CASE (a = k + 1 /\ x = q) /\ (y \in o[b] /\ ~Half(b, y))
    BY <2>1, <2>2, <2>4
  <2>5. CASE (b = k + 1 /\ y = q) /\ (x \in o[a] /\ ~Half(a, x))
    BY <2>1, <2>2, <2>5
  <2>6. CASE (a = k + 1 /\ x = q) /\ (b = k + 1 /\ y = q)
    BY <2>6
  <2>7. QED
    BY <1>2, <2>1, <2>3, <2>4, <2>5, <2>6
<1>8. QED
  BY <1>1, <1>6, <1>7 DEF n, q

-----------------------------------------------------------------------------
(* Ranges                                                                  *)

LEMMA ShortRange ==
    ASSUME NEW r \in RangeType, r.extent < 2
    PROVE  PagesIn(r) = {}
BY NPagesAssumption DEF PagesIn, RangeType

(* Cutting a block off the front of a range.                               *)
LEMMA CutRange ==
    ASSUME NEW r \in RangeType, r.start + r.extent <= 2 * NPages,
           NEW k \in Orders, NEW i \in Nat,
           2 * Size[k] <= r.extent, 2 * (i * Size[k]) = r.start,
           NEW n, n = [start |-> r.start + 2 * Size[k], extent |-> r.extent - 2 * Size[k]]
    PROVE  /\ n \in RangeType
           /\ n.start + n.extent = r.start + r.extent
           /\ r.start % 2 = 0 => n.start % 2 = 0
           /\ Pages(k, i) \subseteq PagesIn(r)
           /\ PagesIn(n) = PagesIn(r) \ Pages(k, i)
<1> DEFINE s == Size[k]
           b == i * Size[k]
<1>1. /\ s \in Nat /\ s >= 1 /\ b \in Nat /\ 2 * b = r.start
      /\ r.start \in Nat /\ r.extent \in Nat /\ 2 * s <= r.extent
  BY SizePos DEF RangeType
<1>2. \A p : p \in Pages(k, i) <=> p \in Nat /\ b <= p /\ p < b + s
  BY PagesMember
<1> HIDE DEF s, b
<1>3. n \in RangeType /\ n.start = r.start + 2 * s /\ n.extent = r.extent - 2 * s
  BY <1>1 DEF RangeType, s
<1>4. r.start % 2 = 0 => n.start % 2 = 0
  BY <1>1, <1>3
<1>5. ASSUME NEW p
      PROVE p \in PagesIn(n) <=> p \in PagesIn(r) /\ p \notin Pages(k, i)
  BY <1>1, <1>2, <1>3, NPagesAssumption DEF PagesIn
<1>6. ASSUME NEW p, p \in Pages(k, i)
      PROVE p \in PagesIn(r)
  BY <1>1, <1>2, <1>6, NPagesAssumption DEF PagesIn
<1>7. QED
  BY <1>1, <1>3, <1>4, <1>5, <1>6

-----------------------------------------------------------------------------
(* The inductive invariant                                                 *)

LEMMA CallCases ==
    ASSUME NEW c \in CallType
    PROVE  /\ c = None \/ c.op = "alloc" \/ c.op = "free"
           /\ c = None <=> c.op = "none"
           /\ c # None => c.order \in Orders /\ c.idx \in Nat
           /\ c.op = "alloc" => c.want \in Orders
BY DEF CallType, None

LEMMA InitIInv == Init => IInv
<1>1. SUFFICES ASSUME Init PROVE IInv
  OBVIOUS
<1>2. TypeOK
  BY <1>1, NPagesAssumption DEF Init, TypeOK, CallType, RangeType, Fail
<1>3. FreePages = {}
  BY <1>1, CoveredMember DEF Init, FreePages
<1>4. NoOverlap
  BY <1>1 DEF Init, NoOverlap, Apart
<1>5. Accounted
  BY <1>1, <1>3 DEF Init, Accounted, PendingPages, RangePending
<1>6. InFlight
  BY <1>1, NPagesAssumption DEF Init, InFlight, None
<1>7. QED
  BY <1>2, <1>4, <1>5, <1>6 DEF IInv

(* The steps that leave the bitmaps alone.                                 *)
LEMMA AllocSearchIInv ==
    ASSUME IInv, NEW want \in Orders, AllocSearch(want)
    PROVE  IInv'
<1>1. PICK k \in want .. MaxOrder : \E i \in orders[k] :
          call' = [op |-> "alloc", want |-> want, order |-> k, idx |-> i]
  BY DEF AllocSearch
<1>2. PICK i \in orders[k] :
          call' = [op |-> "alloc", want |-> want, order |-> k, idx |-> i]
  BY <1>1
<1>3. k \in Orders /\ i \in Nat /\ want <= k
  BY OrderAssumption DEF Orders, IInv, TypeOK
<1>4. TypeOK'
  BY <1>2, <1>3 DEF AllocSearch, IInv, TypeOK, CallType
<1>5. NoOverlap' /\ Accounted'
  BY DEF AllocSearch, IInv, NoOverlap, Accounted, FreePages, PendingPages, RangePending
<1>6. InFlight'
  BY <1>2, <1>3 DEF AllocSearch, IInv, InFlight, Idle
<1>7. QED
  BY <1>4, <1>5, <1>6 DEF IInv

LEMMA AllocFailIInv ==
    ASSUME IInv, NEW want \in Orders, AllocFail(want)
    PROVE  IInv'
<1>1. TypeOK'
  BY DEF AllocFail, IInv, TypeOK
<1>2. NoOverlap' /\ Accounted' /\ InFlight'
  BY DEF AllocFail, IInv, NoOverlap, Accounted, FreePages, PendingPages,
         RangePending, InFlight
<1>3. QED
  BY <1>1, <1>2 DEF IInv

LEMMA FreeDoneIInv ==
    ASSUME IInv, FreeDone
    PROVE  IInv'
<1>1. TypeOK'
  BY DEF FreeDone, IInv, TypeOK, CallType
<1>2. NoOverlap' /\ Accounted'
  BY DEF FreeDone, IInv, NoOverlap, Accounted, FreePages, PendingPages, RangePending
<1>3. InFlight'
  <2>1. ASSUME NEW k \in Orders, NEW i \in orders[k], k # MaxOrder,
               BuddyOf(i) \in orders[k]
        PROVE FALSE
    <3>1. i \in Nat
      BY DEF IInv, TypeOK
    <3>2. call.order = k /\ call.idx \in {i, BuddyOf(i)}
      BY <2>1 DEF IInv, InFlight
    <3>3. BuddyOf(call.idx) \in {i, BuddyOf(i)}
      BY <3>1, <3>2, BuddyHalves
    <3>4. QED
      BY <2>1, <3>2, <3>3 DEF FreeDone
  <2>2. call' = None /\ UNCHANGED <<orders, range>>
    BY DEF FreeDone
  <2>3. range.start % 2 = 0 /\ range.start + range.extent <= 2 * NPages
    BY DEF IInv, InFlight
  <2>4. QED
    BY <2>1, <2>2, <2>3 DEF InFlight, None
<1>4. QED
  BY <1>1, <1>2, <1>3 DEF IInv

LEMMA FreeRangeIInv ==
    ASSUME RangesAligned, IInv, NEW r \in Ranges, FreeRange(r)
    PROVE  IInv'
<1>1. r \in RangeType /\ r.start % 2 = 0 /\ r.start + r.extent <= 2 * NPages
  BY RangesAssumption DEF RangesAligned
<1>2. range' = r /\ call' = call /\ orders' = orders /\ call = None
  BY <1>1 DEF FreeRange, AlignStart, Idle
<1>3. TypeOK'
  BY <1>1, <1>2, NPagesAssumption DEF FreeRange, IInv, TypeOK, PagesIn
<1>4. PendingPages = {}
  BY DEF FreeRange, Idle, PendingPages
<1>5. PendingPages' = PagesIn(r)
  BY <1>1, <1>2, ShortRange DEF PendingPages, RangePending, RangeType
<1>6. NoOverlap' /\ FreePages' = FreePages
  BY <1>2 DEF IInv, NoOverlap, FreePages
<1>7. Accounted'
  BY <1>4, <1>5, <1>6 DEF FreeRange, IInv, Accounted
<1>8. InFlight'
  BY <1>1, <1>2 DEF IInv, InFlight
<1>9. QED
  BY <1>3, <1>6, <1>7, <1>8 DEF IInv

(* The steps that change the bitmaps.                                      *)
LEMMA AllocSplitIInv ==
    ASSUME IInv, AllocSplit
    PROVE  IInv'
<1> DEFINE k == call.order
           i == call.idx
<1>0. call \in CallType /\ orders \in Bitmaps
  BY DEF IInv, TypeOK, Bitmaps
<1>1. /\ call.op = "alloc" /\ call # None
      /\ k \in Orders /\ i \in Nat /\ i \in orders[k]
      /\ call.want \in Orders /\ call.want <= k /\ call.want # k
  BY <1>0, CallCases DEF AllocSplit, IInv, InFlight, None
<1>2. k # 0 /\ k - 1 \in Orders /\ call.want <= k - 1
  <2> HIDE DEF k, i
  <2>1. k \in Nat /\ call.want \in Nat /\ k <= MaxOrder
    BY <1>1, OrderAssumption DEF Orders
  <2>2. call.want < k
    BY <1>1, <2>1
  <2>3. QED
    BY <2>1, <2>2, OrderAssumption DEF Orders
<1>3. orders' \in Bitmaps /\ Apart(orders') /\ Covered(orders') = Covered(orders)
  <2>1. orders' = [orders EXCEPT ![k] = @ \ {i},
                                 ![k - 1] = @ \cup {2 * i, 2 * i + 1}]
    BY DEF AllocSplit
  <2>2. Apart(orders)
    BY DEF IInv, NoOverlap
  <2> HIDE DEF k, i
  <2>3. QED
    BY <1>0, <1>1, <1>2, <2>1, <2>2, SplitBlock, ZenonT(60)
<1>4. /\ call'.op = "alloc" /\ call'.want = call.want
      /\ call'.order = k - 1 /\ call'.idx = 2 * i
      /\ call' \in CallType /\ call' # None
  <2>1. call \in [op : {"alloc"}, want : Orders, order : Orders, idx : Nat]
    BY <1>0, <1>1 DEF CallType, None
  <2>2. call' = [call EXCEPT !.order = k - 1, !.idx = 2 * i]
    BY DEF AllocSplit
  <2>3. call' = [op |-> "alloc", want |-> call.want, order |-> k - 1, idx |-> 2 * i]
    BY <2>1, <2>2
  <2>4. QED
    BY <1>1, <1>2, <2>3 DEF CallType, None
<1>5. TypeOK'
  BY <1>3, <1>4 DEF AllocSplit, IInv, TypeOK, Bitmaps
<1>6. NoOverlap' /\ Accounted'
  BY <1>3 DEF AllocSplit, IInv, NoOverlap, Accounted, FreePages, PendingPages, RangePending
<1>7. \A l \in Orders : \A x : x \in orders'[l] <=>
          \/ x \in orders[l] /\ ~(l = k /\ x = i)
          \/ l = k - 1 /\ x \in {2 * i, 2 * i + 1}
  BY <1>0, <1>1, <1>2 DEF AllocSplit, Bitmaps, Orders
<1>8. InFlight'
  <2>1. call'.idx \in orders'[call'.order]
    BY <1>2, <1>4, <1>7
  <2>2. ASSUME NEW l \in Orders, NEW x \in orders'[l], l # MaxOrder,
               BuddyOf(x) \in orders'[l]
        PROVE l = k - 1 /\ 2 * i \in {x, BuddyOf(x)}
    <3>1. x \in Nat
      BY <1>3 DEF Bitmaps
    <3>2. CASE l = k - 1 /\ (x \in {2 * i, 2 * i + 1} \/ BuddyOf(x) \in {2 * i, 2 * i + 1})
      BY <1>1, <3>1, <3>2 DEF BuddyOf
    <3>3. CASE x \in orders[l] /\ ~(l = k /\ x = i)
               /\ BuddyOf(x) \in orders[l] /\ ~(l = k /\ BuddyOf(x) = i)
      BY <2>2, <3>3 DEF IInv, InFlight
    <3>4. QED
      BY <1>7, <2>2, <3>2, <3>3
  <2>3. range' = range
    BY DEF AllocSplit
  <2>4. range.start % 2 = 0 /\ range.start + range.extent <= 2 * NPages
    BY DEF IInv, InFlight
  <2>5. QED
    BY <1>2, <1>4, <2>1, <2>2, <2>3, <2>4 DEF InFlight
<1>9. QED
  BY <1>5, <1>6, <1>8 DEF IInv

LEMMA AllocTakeIInv ==
    ASSUME IInv, AllocTake
    PROVE  IInv'
<1> DEFINE k == call.order
           i == call.idx
<1>0. call \in CallType /\ orders \in Bitmaps
  BY DEF IInv, TypeOK, Bitmaps
<1>1. call # None /\ k \in Orders /\ i \in Nat /\ i \in orders[k]
  BY <1>0, CallCases DEF AllocTake, IInv, InFlight, None
<1>2. /\ orders' \in Bitmaps /\ Apart(orders')
      /\ Covered(orders') = Covered(orders) \ Pages(k, i)
  BY <1>0, <1>1, ClearBlock DEF AllocTake, IInv, NoOverlap
<1>3. Pages(k, i) \subseteq FreePages
  BY <1>1, CoveredMember DEF FreePages
<1>4. Pages(k, i) \subseteq 0 .. (NPages - 1) /\ i * Size[k] \in Nat
  <2>1. Pages(k, i) \subseteq managed
    BY <1>3 DEF IInv, Accounted
  <2>2. i * Size[k] \in Nat
    BY <1>1, SizePos
  <2>3. QED
    BY <2>1, <2>2 DEF IInv, TypeOK
<1>5. TypeOK'
  BY <1>2, <1>4 DEF AllocTake, IInv, TypeOK, Bitmaps, CallType
<1>6. NoOverlap'
  BY <1>2 DEF NoOverlap
<1>7. Accounted'
  <2>1. FreePages' = FreePages \ Pages(k, i)
    BY <1>2 DEF FreePages
  <2>2. held' = held \cup Pages(k, i) /\ managed' = managed /\ PendingPages' = PendingPages
    BY DEF AllocTake, PendingPages, RangePending
  <2>3. QED
    BY <1>3, <2>1, <2>2 DEF IInv, Accounted
<1>8. InFlight'
  <2>1. \A l \in Orders : \A x : x \in orders'[l] <=> x \in orders[l] /\ ~(l = k /\ x = i)
    BY <1>0, <1>1 DEF AllocTake, Bitmaps
  <2>2. ASSUME NEW l \in Orders, NEW x \in orders'[l], l # MaxOrder,
               BuddyOf(x) \in orders'[l]
        PROVE FALSE
    BY <2>1, <2>2 DEF IInv, InFlight
  <2>3. call' = None /\ range' = range
    BY DEF AllocTake
  <2>4. range.start % 2 = 0 /\ range.start + range.extent <= 2 * NPages
    BY DEF IInv, InFlight
  <2>5. QED
    BY <2>2, <2>3, <2>4 DEF InFlight, None
<1>9. QED
  BY <1>5, <1>6, <1>7, <1>8 DEF IInv

LEMMA FreeMergeIInv ==
    ASSUME IInv, FreeMerge
    PROVE  IInv'
<1> DEFINE k == call.order
           i == call.idx
           q == i \div 2
<1>0. call \in CallType /\ orders \in Bitmaps
  BY DEF IInv, TypeOK, Bitmaps
<1>1. /\ call.op = "free" /\ call # None
      /\ k \in Orders /\ i \in Nat /\ i \in orders[k]
      /\ k # MaxOrder /\ BuddyOf(i) \in orders[k]
  BY <1>0, CallCases DEF FreeMerge, IInv, InFlight, None
<1>2. k + 1 \in Orders /\ q \in Nat
  BY <1>1, OrderAssumption DEF Orders
<1>3. orders' \in Bitmaps /\ Apart(orders') /\ Covered(orders') = Covered(orders)
  BY <1>0, <1>1, MergeBlock, ZenonT(60) DEF FreeMerge, IInv, NoOverlap
<1>4. /\ call'.op = "free" /\ call'.order = k + 1 /\ call'.idx = q
      /\ call' \in CallType /\ call' # None
  BY <1>0, <1>1, <1>2 DEF FreeMerge, CallType, None
<1>5. TypeOK'
  BY <1>3, <1>4 DEF FreeMerge, IInv, TypeOK, Bitmaps
<1>6. NoOverlap' /\ Accounted'
  BY <1>3 DEF FreeMerge, IInv, NoOverlap, Accounted, FreePages, PendingPages, RangePending
<1>7. \A l \in Orders : \A x : x \in orders'[l] <=>
          \/ x \in orders[l] /\ ~(l = k /\ x \in {i, BuddyOf(i)})
          \/ l = k + 1 /\ x = q
  BY <1>0, <1>1, <1>2 DEF FreeMerge, Bitmaps, Orders
<1>8. InFlight'
  <2>1. call'.idx \in orders'[call'.order]
    BY <1>2, <1>4, <1>7
  <2>2. ASSUME NEW l \in Orders, NEW x \in orders'[l], l # MaxOrder,
               BuddyOf(x) \in orders'[l]
        PROVE l = k + 1 /\ q \in {x, BuddyOf(x)}
    <3> HIDE DEF q
    <3>1. CASE l = k + 1 /\ (x = q \/ BuddyOf(x) = q)
      BY <3>1
    <3>2. CASE x \in orders[l] /\ ~(l = k /\ x \in {i, BuddyOf(i)})
               /\ BuddyOf(x) \in orders[l] /\ ~(l = k /\ BuddyOf(x) \in {i, BuddyOf(i)})
      BY <2>2, <3>2 DEF IInv, InFlight
    <3>3. QED
      BY <1>7, <2>2, <3>1, <3>2
  <2>3. range' = range
    BY DEF FreeMerge
  <2>4. range.start % 2 = 0 /\ range.start + range.extent <= 2 * NPages
    BY DEF IInv, InFlight
  <2>5. QED
    BY <1>2, <1>4, <2>1, <2>2, <2>3, <2>4 DEF InFlight
<1>9. QED
  BY <1>5, <1>6, <1>8 DEF IInv

(* What Free and FreeRangeStep have in common.                             *)
LEMMA MarkFreeIInv ==
    ASSUME IInv, call = None, NEW k \in Orders, NEW i \in Nat, MarkFree(k, i),
           Pages(k, i) \cap FreePages = {}, range' \in RangeType,
           range'.start % 2 = 0, range'.start + range'.extent <= 2 * NPages
    PROVE  /\ orders' \in Bitmaps /\ call' \in CallType
           /\ NoOverlap' /\ InFlight'
           /\ FreePages' = FreePages \cup Pages(k, i)
<1>0. orders \in Bitmaps
  BY DEF IInv, TypeOK, Bitmaps
<1>1. /\ orders' \in Bitmaps /\ Apart(orders')
      /\ Covered(orders') = Covered(orders) \cup Pages(k, i)
  BY <1>0, MarkBlock DEF MarkFree, IInv, NoOverlap, FreePages
<1>2. /\ call' \in CallType /\ call' # None
      /\ call'.op = "free" /\ call'.order = k /\ call'.idx = i
  BY DEF MarkFree, CallType, None
<1>3. \A l \in Orders : \A x : x \in orders'[l] <=> x \in orders[l] \/ (l = k /\ x = i)
  BY <1>0 DEF MarkFree, Bitmaps
<1>4. ASSUME NEW l \in Orders, NEW x \in orders'[l], l # MaxOrder,
             BuddyOf(x) \in orders'[l]
      PROVE l = k /\ i \in {x, BuddyOf(x)}
  BY <1>3, <1>4 DEF IInv, InFlight
<1>5. InFlight'
  BY <1>2, <1>3, <1>4 DEF InFlight
<1>6. QED
  BY <1>1, <1>2, <1>5 DEF NoOverlap, FreePages

LEMMA FreeIInv ==
    ASSUME IInv, NEW k \in Orders, NEW i \in Nat, Free(k, i)
    PROVE  IInv'
<1>1. Pages(k, i) \cap FreePages = {} /\ Pages(k, i) \subseteq held
  BY DEF Free, IInv, Accounted
<1>2. range' = range /\ managed' = managed /\ ret' = ret /\ held' = held \ Pages(k, i)
  BY DEF Free
<1>3. range \in RangeType /\ range.start % 2 = 0 /\ range.start + range.extent <= 2 * NPages
  BY DEF IInv, TypeOK, InFlight
<1>4. /\ orders' \in Bitmaps /\ call' \in CallType
      /\ NoOverlap' /\ InFlight'
      /\ FreePages' = FreePages \cup Pages(k, i)
  BY <1>1, <1>2, <1>3, MarkFreeIInv DEF Free, Idle
<1>5. TypeOK'
  BY <1>2, <1>4 DEF IInv, TypeOK, Bitmaps
<1>6. Accounted'
  <2>1. PendingPages' = PendingPages
    BY <1>2 DEF PendingPages, RangePending
  <2>2. QED
    BY <1>1, <1>2, <1>4, <2>1 DEF IInv, Accounted
<1>7. QED
  BY <1>4, <1>5, <1>6 DEF IInv

LEMMA FreeRangeStepIInv ==
    ASSUME IInv, FreeRangeStep
    PROVE  IInv'
<1>1. PICK k \in Orders, i \in 0 .. NPages :
          /\ Fits(k, i)
          /\ range' = [start |-> range.start + 2 * Size[k],
                       extent |-> range.extent - 2 * Size[k]]
          /\ MarkFree(k, i)
  BY DEF FreeRangeStep
<1>2. i \in Nat /\ call = None /\ RangePending
  BY NPagesAssumption DEF FreeRangeStep
<1>3. range \in RangeType /\ range.start % 2 = 0 /\ range.start + range.extent <= 2 * NPages
  BY DEF IInv, TypeOK, InFlight
<1>4. /\ range' \in RangeType /\ range'.start % 2 = 0
      /\ range'.start + range'.extent <= 2 * NPages
      /\ Pages(k, i) \subseteq PagesIn(range)
      /\ PagesIn(range') = PagesIn(range) \ Pages(k, i)
  BY <1>1, <1>2, <1>3, CutRange DEF Fits
<1>5. PendingPages = PagesIn(range) /\ PendingPages' = PagesIn(range) \ Pages(k, i)
  BY <1>2, <1>4, ShortRange DEF PendingPages, RangePending, RangeType
<1>6. Pages(k, i) \cap FreePages = {}
  BY <1>4, <1>5 DEF IInv, Accounted
<1>7. /\ orders' \in Bitmaps /\ call' \in CallType
      /\ NoOverlap' /\ InFlight'
      /\ FreePages' = FreePages \cup Pages(k, i)
  BY <1>1, <1>2, <1>4, <1>6, MarkFreeIInv
<1>8. UNCHANGED <<ret, held, managed>>
  BY DEF FreeRangeStep
<1>9. TypeOK'
  BY <1>4, <1>7, <1>8 DEF IInv, TypeOK, Bitmaps
<1>10. Accounted'
  BY <1>4, <1>5, <1>7, <1>8 DEF IInv, Accounted
<1>11. QED
  BY <1>7, <1>9, <1>10 DEF IInv

LEMMA NextIInv == RangesAligned /\ IInv /\ [Next]_vars => IInv'
<1>1. SUFFICES ASSUME RangesAligned, IInv, [Next]_vars PROVE IInv'
  OBVIOUS
<1>2. ASSUME NEW want \in Orders, AllocSearch(want) \/ AllocFail(want)
      PROVE IInv'
  BY <1>1, <1>2, AllocSearchIInv, AllocFailIInv
<1>3. ASSUME NEW k \in Orders, NEW i \in 0 .. NPages, Free(k, i)
      PROVE IInv'
  BY <1>1, <1>3, FreeIInv, NPagesAssumption
<1>4. ASSUME NEW r \in Ranges, FreeRange(r)
      PROVE IInv'
  BY <1>1, <1>4, FreeRangeIInv
<1>5. CASE AllocSplit
  BY <1>1, <1>5, AllocSplitIInv
<1>6. CASE AllocTake
  BY <1>1, <1>6, AllocTakeIInv
<1>7. CASE FreeMerge
  BY <1>1, <1>7, FreeMergeIInv
<1>8. CASE FreeDone
  BY <1>1, <1>8, FreeDoneIInv
<1>9. CASE FreeRangeStep
  BY <1>1, <1>9, FreeRangeStepIInv
<1>10. CASE UNCHANGED vars
  BY <1>1, <1>10 DEF vars, IInv, TypeOK, NoOverlap, Accounted, InFlight, FreePages,
                     PendingPages, RangePending
<1>11. QED
  BY <1>1, <1>2, <1>3, <1>4, <1>5, <1>6, <1>7, <1>8, <1>9, <1>10 DEF Next

(* In every reachable state of the allocator the invariant holds, provided *)
(* the ranges it is given start at page boundaries.                        *)
THEOREM Invariance == RangesAligned => (Spec => []IInv)
<1> SUFFICES ASSUME RangesAligned PROVE Spec => []IInv
  OBVIOUS
<1>1. Init => IInv
  BY InitIInv
<1>2. IInv /\ [Next]_vars => IInv'
  BY NextIInv
<1>3. QED
  BY <1>1, <1>2, PTL DEF Spec

(* No page is under two set bits of the bitmaps, at any step of splitting, *)
(* merging and registering.                                                *)
THEOREM Apartness == RangesAligned => (Spec => []NoOverlap)
<1> SUFFICES ASSUME RangesAligned PROVE Spec => []NoOverlap
  OBVIOUS
<1>1. IInv => NoOverlap
  BY DEF IInv
<1>2. QED
  BY <1>1, Invariance, PTL

(* Every managed page is free, held or still to be registered, in exactly  *)
(* one of these ways.                                                      *)
THEOREM Safety == RangesAligned => (Spec => [](TypeOK /\ Accounted))
<1> SUFFICES ASSUME RangesAligned PROVE Spec => [](TypeOK /\ Accounted)
  OBVIOUS
<1>1. IInv => TypeOK /\ Accounted
  BY DEF IInv
<1>2. QED
  BY <1>1, Invariance, PTL

-----------------------------------------------------------------------------
(* The tree of blocks.  Induction over orders is by a least counterexample *)

LEMMA LeastNatural ==
    ASSUME NEW T, T \subseteq Nat, T # {}
    PROVE  \E x \in T : \A y \in T : x <= y
<1> DEFINE R == OpToRel(<, Nat)
<1>1. IsWellFoundedOn(R, Nat)
  BY NatLessThanWellFounded
<1>2. \A x, y \in Nat : <<y, x>> \in R <=> y < x
  BY DEF OpToRel
<1> HIDE DEF R
<1>3. PICK x \in T : \A y \in T : ~ (<<y, x>> \in R)
  BY <1>1, WFMin
<1>4. ASSUME NEW y \in T PROVE x <= y
  <2>1. x \in Nat /\ y \in Nat
    OBVIOUS
  <2>2. ~(y < x)
    BY <1>2, <1>3, <2>1
  <2>3. QED
    BY <2>1, <2>2
<1>5. QED
  BY <1>4

(* Blocks that share a page are nested.                                    *)
LEMMA PagesNested ==
    \A k, l \in Orders : \A i, x \in Nat : \A p :
        k <= l /\ p \in Pages(k, i) /\ p \in Pages(l, x) => Pages(k, i) \subseteq Pages(l, x)
<1> DEFINE Bad(k, l) == \E i, x \in Nat : \E p :
                            /\ k <= l /\ p \in Pages(k, i) /\ p \in Pages(l, x)
                            /\ ~(Pages(k, i) \subseteq Pages(l, x))
           T(k) == {l \in Orders : Bad(k, l)}
<1>1. SUFFICES ASSUME NEW k \in Orders, T(k) # {} PROVE FALSE
  OBVIOUS
<1>2. T(k) \subseteq Nat
  BY OrderAssumption DEF Orders
<1>3. PICK l \in T(k) : \A m \in T(k) : l <= m
  BY <1>1, <1>2, LeastNatural
<1>4. l \in Orders /\ Bad(k, l)
  BY <1>3
<1>5. PICK i \in Nat, x \in Nat : \E p :
          /\ k <= l /\ p \in Pages(k, i) /\ p \in Pages(l, x)
          /\ ~(Pages(k, i) \subseteq Pages(l, x))
  BY <1>4
<1>6. PICK p :
          /\ k <= l /\ p \in Pages(k, i) /\ p \in Pages(l, x)
          /\ ~(Pages(k, i) \subseteq Pages(l, x))
  BY <1>5
<1>7. l # k
  BY <1>4, <1>6, PagesApart
<1>8. l # 0 /\ k <= l - 1
  BY <1>4, <1>6, <1>7, OrderAssumption DEF Orders
<1>9. /\ l - 1 \in Orders
      /\ Pages(l, x) = Pages(l - 1, 2 * x) \cup Pages(l - 1, 2 * x + 1)
  BY <1>4, <1>8, PagesSplit
<1>10. PICK y \in Nat : p \in Pages(l - 1, y) /\ Pages(l - 1, y) \subseteq Pages(l, x)
  <2>1. 2 * x \in Nat /\ 2 * x + 1 \in Nat
    OBVIOUS
  <2>2. QED
    BY <1>6, <1>9, <2>1
<1>11. ~Bad(k, l - 1)
  <2>1. l - 1 \in T(k) => l <= l - 1
    BY <1>3
  <2>2. ~(l <= l - 1)
    BY <1>4, OrderAssumption DEF Orders
  <2>3. QED
    BY <1>9, <2>1, <2>2
<1>12. Pages(k, i) \subseteq Pages(l - 1, y)
  BY <1>6, <1>8, <1>10, <1>11
<1>13. QED
  BY <1>6, <1>10, <1>12

(* No block and its buddy are both marked.                                 *)
Unpaired(o) == \A k \in Orders : \A i \in o[k] : k # MaxOrder => BuddyOf(i) \notin o[k]

(* Without such a pair, a block all of whose pages are free lies within a  *)
(* block that is marked free.                                              *)
LEMMA FreeBlockCovered ==
    ASSUME NEW o \in Bitmaps, Unpaired(o)
    PROVE  \A k \in Orders : \A i \in Nat :
               Pages(k, i) \subseteq Covered(o) =>
                   \E j \in Orders : \E x \in o[j] :
                       k <= j /\ Pages(k, i) \subseteq Pages(j, x)
<1> DEFINE Marked(k, i) == \E j \in Orders : \E x \in o[j] :
                               k <= j /\ Pages(k, i) \subseteq Pages(j, x)
           T == {k \in Orders : \E i \in Nat :
                     Pages(k, i) \subseteq Covered(o) /\ ~Marked(k, i)}
<1>1. SUFFICES ASSUME T # {} PROVE FALSE
  OBVIOUS
<1>2. T \subseteq Nat
  BY OrderAssumption DEF Orders
<1>3. PICK k \in T : \A m \in T : k <= m
  BY <1>1, <1>2, LeastNatural
<1>4. PICK i \in Nat : Pages(k, i) \subseteq Covered(o) /\ ~Marked(k, i)
  BY <1>3
<1>5. k \in Orders /\ k \in Nat
  BY <1>2, <1>3
<1>6. \A j \in Orders : \A x \in o[j] : x \in Nat
  BY DEF Bitmaps
<1>7. CASE k = 0
  <2>1. i * Size[k] \in Pages(k, i)
    BY <1>5, PagesNonempty
  <2>2. i * Size[k] \in Covered(o)
    BY <1>4, <2>1
  <2>3. PICK j, x : j \in Orders /\ x \in o[j] /\ i * Size[k] \in Pages(j, x)
    BY <2>2, CoveredMember
  <2>4. x \in Nat /\ k <= j
    BY <1>6, <1>7, <2>3, OrderAssumption DEF Orders
  <2>5. Pages(k, i) \subseteq Pages(j, x)
    BY <1>5, <2>1, <2>3, <2>4, PagesNested
  <2>6. QED
    BY <1>4, <2>3, <2>4, <2>5
<1>8. CASE k # 0
  <2>1. /\ k - 1 \in Orders
        /\ Pages(k, i) = Pages(k - 1, 2 * i) \cup Pages(k - 1, 2 * i + 1)
    BY <1>5, <1>8, PagesSplit
  <2>2. k - 1 \notin T
    <3>1. k - 1 \in T => k <= k - 1
      BY <1>3
    <3>2. QED
      BY <1>5, <3>1
  (* a marked block over one half of (k, i) is that half *)
  <2>3. ASSUME NEW h \in {2 * i, 2 * i + 1}
        PROVE h \in o[k - 1]
    <3>1. h \in Nat /\ Pages(k - 1, h) \subseteq Pages(k, i)
      BY <2>1
    <3>2. Marked(k - 1, h)
      BY <1>4, <2>1, <2>2, <3>1
    <3>3. PICK j \in Orders : \E x \in o[j] :
              k - 1 <= j /\ Pages(k - 1, h) \subseteq Pages(j, x)
      BY <3>2
    <3>4. PICK x \in o[j] : k - 1 <= j /\ Pages(k - 1, h) \subseteq Pages(j, x)
      BY <3>3
    <3>5. PICK p : p \in Pages(k - 1, h)
      BY <2>1, <3>1, PagesNonempty
    <3>6. x \in Nat /\ p \in Pages(k, i) /\ p \in Pages(j, x)
      BY <1>6, <3>1, <3>4, <3>5
    <3>7. ~(k <= j)
      BY <1>4, <1>5, <3>6, PagesNested
    <3>8. j = k - 1
      BY <1>5, <3>4, <3>7, OrderAssumption DEF Orders
    <3>9. x = h
      BY <3>1, <3>5, <3>6, <3>8, PagesApart
    <3>10. QED
      BY <3>8, <3>9
  <2>4. BuddyOf(2 * i) = 2 * i + 1
    BY DEF BuddyOf
  <2>5. k - 1 # MaxOrder
    BY <1>5, OrderAssumption DEF Orders
  <2>6. QED
    BY <2>1, <2>3, <2>4, <2>5 DEF Unpaired
<1>9. QED
  BY <1>7, <1>8

(* This is so between calls.                                               *)
LEMMA FreeBlockMarked ==
    ASSUME IInv, call = None
    PROVE  \A k \in Orders : \A i \in Nat :
               Pages(k, i) \subseteq FreePages =>
                   \E j \in Orders : \E x \in orders[j] :
                       k <= j /\ Pages(k, i) \subseteq Pages(j, x)
<1>1. orders \in Bitmaps
  BY DEF IInv, TypeOK, Bitmaps
<1>2. Unpaired(orders)
  BY DEF IInv, InFlight, Unpaired
<1>3. QED
  BY <1>1, <1>2, FreeBlockCovered DEF FreePages

(* The bitmaps are a function of the set of free pages.                    *)
LEMMA IInvCanonical == IInv => Canonical
<1>1. SUFFICES ASSUME IInv, call = None, NEW k \in Orders, NEW i \in 0 .. NPages
               PROVE i \in orders[k] <=> MaximalFree(k, i)
  BY DEF Canonical
<1>2. i \in Nat /\ i \div 2 \in Nat
  BY NPagesAssumption
<1>3. \A j \in Orders : \A x \in orders[j] : x \in Nat /\ Pages(j, x) \subseteq FreePages
  BY <1>1, CoveredMember DEF IInv, TypeOK, FreePages
<1>4. k # MaxOrder => k + 1 \in Orders /\ Pages(k, i) \subseteq Pages(k + 1, i \div 2)
  <2>1. SUFFICES ASSUME k # MaxOrder
                 PROVE k + 1 \in Orders /\ Pages(k, i) \subseteq Pages(k + 1, i \div 2)
    OBVIOUS
  <2>2. k + 1 \in Orders /\ k + 1 # 0 /\ (k + 1) - 1 = k
    BY <2>1, OrderAssumption DEF Orders
  <2> DEFINE q == i \div 2
  <2>3. q \in Nat /\ i \in {2 * q, 2 * q + 1}
    BY <1>2, BuddyHalves
  <2> HIDE DEF q
  <2>4. Pages(k + 1, q) = Pages(k, 2 * q) \cup Pages(k, 2 * q + 1)
    BY <2>2, <2>3, PagesSplit
  <2>5. QED
    BY <2>2, <2>3, <2>4 DEF q
<1>5. PICK p : p \in Pages(k, i)
  BY <1>2, PagesNonempty
<1>6. ASSUME MaximalFree(k, i)
      PROVE i \in orders[k]
  <2>1. PICK j \in Orders : \E x \in orders[j] :
            k <= j /\ Pages(k, i) \subseteq Pages(j, x)
    BY <1>1, <1>2, <1>6, FreeBlockMarked DEF MaximalFree
  <2>2. PICK x \in orders[j] : k <= j /\ Pages(k, i) \subseteq Pages(j, x)
    BY <2>1
  <2>3. CASE j = k
    BY <1>2, <1>3, <1>5, <2>2, <2>3, PagesApart
  <2>4. CASE j # k
    <3>1. k # MaxOrder /\ k + 1 <= j
      BY <2>2, <2>4, OrderAssumption DEF Orders
    <3>2. Pages(k + 1, i \div 2) \subseteq Pages(j, x)
      BY <1>2, <1>3, <1>4, <1>5, <2>2, <3>1, PagesNested
    <3>3. QED
      BY <1>3, <1>6, <3>1, <3>2 DEF MaximalFree
  <2>5. QED
    BY <2>3, <2>4
<1>7. ASSUME i \in orders[k]
      PROVE MaximalFree(k, i)
  <2>1. Pages(k, i) \subseteq FreePages
    BY <1>3, <1>7
  <2>2. ASSUME k # MaxOrder, Pages(k + 1, i \div 2) \subseteq FreePages
        PROVE FALSE
    <3>1. PICK j \in Orders : \E x \in orders[j] :
              k + 1 <= j /\ Pages(k + 1, i \div 2) \subseteq Pages(j, x)
      BY <1>1, <1>2, <1>4, <2>2, FreeBlockMarked
    <3>2. PICK x \in orders[j] : k + 1 <= j /\ Pages(k + 1, i \div 2) \subseteq Pages(j, x)
      BY <3>1
    <3>3. p \in Pages(j, x)
      BY <1>4, <1>5, <2>2, <3>2
    <3>4. j = k
      BY <1>1, <1>5, <1>7, <3>3, ApartMember DEF IInv, NoOverlap
    <3>5. QED
      BY <3>2, <3>4, OrderAssumption DEF Orders
  <2>3. QED
    BY <2>1, <2>2 DEF MaximalFree
<1>8. QED
  BY <1>6, <1>7

(* An order with a set bit has a first one, below the extent.              *)
LEMMA FirstSetExists ==
    ASSUME IInv, NEW k \in Orders, NEW x \in orders[k]
    PROVE  \E i \in orders[k] : FirstSet(k, i)
<1>1. orders[k] \subseteq Nat
  BY DEF IInv, TypeOK
<1>2. PICK i \in orders[k] : \A j \in orders[k] : i <= j
  BY <1>1, LeastNatural
<1>3. i * Size[k] \in FreePages
  BY <1>1, PagesNonempty, CoveredMember DEF FreePages
<1>4. i * Size[k] \in 0 .. (NPages - 1)
  BY <1>3 DEF IInv, Accounted, TypeOK
<1>5. InExtent(k, i)
  BY <1>4, NPagesAssumption DEF InExtent
<1>6. QED
  BY <1>2, <1>5 DEF FirstSet

LEMMA IInvAllocComplete == IInv => AllocComplete
<1>1. SUFFICES ASSUME IInv, call = None, NEW want \in Orders,
                      \A k \in want .. MaxOrder : NoneSet(k),
                      NEW i \in 0 .. NPages, Pages(want, i) \subseteq FreePages
               PROVE FALSE
  BY DEF AllocComplete, Idle
<1>2. PICK j \in Orders : \E x \in orders[j] :
          want <= j /\ Pages(want, i) \subseteq Pages(j, x)
  BY <1>1, FreeBlockMarked, NPagesAssumption
<1>3. PICK x \in orders[j] : FirstSet(j, x)
  BY <1>1, <1>2, FirstSetExists
<1>4. j \in want .. MaxOrder
  BY <1>2, OrderAssumption DEF Orders
<1>5. QED
  BY <1>1, <1>3, <1>4 DEF NoneSet

(* Between calls the bitmaps are canonical, and a failed request means     *)
(* that no aligned block of that size is free.                             *)
THEOREM Completeness == RangesAligned => (Spec => [](Canonical /\ AllocComplete))
<1> SUFFICES ASSUME RangesAligned PROVE Spec => [](Canonical /\ AllocComplete)
  OBVIOUS
<1>1. Spec => []IInv
  BY Invariance
<1>2. IInv => Canonical /\ AllocComplete
  BY IInvCanonical, IInvAllocComplete
<1>3. QED
  BY <1>1, <1>2, PTL

-----------------------------------------------------------------------------
(* Refinement                                                              *)

ManagedUsable == managed \subseteq Usable

LEMMA ManagedUsableInvariant == Spec => []ManagedUsable
<1>1. Init => ManagedUsable
  BY DEF Init, ManagedUsable
<1>2. ManagedUsable /\ [Next]_vars => ManagedUsable'
  <2>1. SUFFICES ASSUME ManagedUsable, [Next]_vars PROVE ManagedUsable'
    OBVIOUS
  <2>2. ASSUME NEW r \in Ranges, FreeRange(r) PROVE ManagedUsable'
    BY <2>1, <2>2 DEF FreeRange, ManagedUsable, Usable
  <2>3. CASE managed' = managed
    BY <2>1, <2>3 DEF ManagedUsable
  <2>4. managed' = managed \/ \E r \in Ranges : FreeRange(r)
    BY <2>1 DEF Next, vars, AllocSearch, AllocFail, AllocSplit, AllocTake, Free,
                FreeMerge, FreeDone, FreeRangeStep
  <2>5. QED
    BY <2>2, <2>3, <2>4
<1>3. QED
  BY <1>1, <1>2, PTL DEF Spec

LEMMA BlockIsPages == \A k, i : Abstract!Block(k, i) = Pages(k, i)
BY DEF Abstract!Block, Pages

(* The index of a block of managed pages.                                  *)
LEMMA IndexBound ==
    ASSUME IInv, NEW k \in Orders, NEW i \in Nat, Pages(k, i) \subseteq managed
    PROVE  i \in 0 .. NPages
<1>1. i * Size[k] \in 0 .. (NPages - 1)
  BY PagesNonempty DEF IInv, TypeOK
<1>2. i <= i * Size[k]
  <2>1. PICK d \in Nat : Size[k] = 1 + d
    <3>1. Size[k] - 1 \in Nat /\ Size[k] = 1 + (Size[k] - 1)
      BY SizePos
    <3>2. QED
      BY <3>1
  <2>2. i * Size[k] = i + i * d /\ i * d \in Nat
    BY <2>1
  <2>3. QED
    BY <2>2
<1>3. QED
  BY <1>1, <1>2, NPagesAssumption

LEMMA StepRefines ==
    ASSUME IInv, RangesAligned, ManagedUsable, [Next]_vars
    PROVE  [Abstract!Next]_Abstract!vars
<1> USE DEF Abstract!Orders, Orders
<1> DEFINE Stutter == FreePages' = FreePages /\ held' = held /\ ret' = ret
<1>0. Stutter => UNCHANGED Abstract!vars
  BY DEF Abstract!vars
<1>1. ASSUME NEW want \in Orders, AllocSearch(want)
      PROVE Stutter
  BY <1>1 DEF AllocSearch, FreePages
<1>2. ASSUME NEW want \in Orders, AllocFail(want)
      PROVE Abstract!Next
  <2>1. \A i \in 0 .. NPages : ~(Abstract!Block(want, i) \subseteq FreePages)
    BY <1>2, IInvAllocComplete, BlockIsPages DEF AllocFail, AllocComplete
  <2>2. Abstract!AllocFail(want)
    BY <1>2, <2>1 DEF Abstract!AllocFail, AllocFail, FreePages, Fail
  <2>3. QED
    BY <2>2 DEF Abstract!Next
<1>3. ASSUME NEW k \in Orders, NEW i \in 0 .. NPages, Free(k, i)
      PROVE Abstract!Next
  <2>1. range' = range /\ Pages(k, i) \cap FreePages = {} /\ i \in Nat /\ call = None
    BY <1>3, NPagesAssumption DEF Free, IInv, Accounted, Idle
  <2>2. FreePages' = FreePages \cup Pages(k, i)
    BY <1>3, <2>1, MarkFreeIInv DEF Free, IInv, TypeOK, InFlight
  <2>3. Abstract!Free(k, i)
    BY <1>3, <2>2, BlockIsPages DEF Abstract!Free, Free
  <2>4. QED
    BY <2>3 DEF Abstract!Next
<1>4. ASSUME NEW r \in Ranges, FreeRange(r)
      PROVE Stutter
  BY <1>4 DEF FreeRange, FreePages
<1>5. CASE AllocSplit
  <2> DEFINE k == call.order
             i == call.idx
  <2>0. call \in CallType /\ orders \in Bitmaps /\ Apart(orders)
    BY DEF IInv, TypeOK, Bitmaps, NoOverlap
  <2>1. /\ k \in Orders /\ i \in orders[k] /\ call.want \in Orders
        /\ call.want <= k /\ call.want # k
    BY <1>5, <2>0, CallCases DEF AllocSplit, IInv, InFlight, None
  <2>2. orders' = [orders EXCEPT ![k] = @ \ {i},
                                 ![k - 1] = @ \cup {2 * i, 2 * i + 1}]
    BY <1>5 DEF AllocSplit
  <2> HIDE DEF k, i
  <2>3. k # 0
    BY <2>1, OrderAssumption
  <2>4. Covered(orders') = Covered(orders)
    BY <2>0, <2>1, <2>2, <2>3, SplitBlock, ZenonT(60)
  <2>5. Stutter
    BY <1>5, <2>4 DEF AllocSplit, FreePages
  <2>6. QED
    BY <1>0, <2>5
<1>6. CASE AllocTake
  <2> DEFINE k == call.order
             i == call.idx
  <2>0. call \in CallType /\ orders \in Bitmaps /\ Apart(orders)
    BY DEF IInv, TypeOK, Bitmaps, NoOverlap
  <2>1. k \in Orders /\ i \in orders[k] /\ i \in Nat
    BY <1>6, <2>0, CallCases DEF AllocTake, IInv, InFlight, None
  <2>2. /\ orders' = [orders EXCEPT ![k] = @ \ {i}]
        /\ ret' = i * Size[k] /\ held' = held \cup Pages(k, i)
    BY <1>6 DEF AllocTake
  <2> HIDE DEF k, i
  <2>3. FreePages' = FreePages \ Pages(k, i)
    BY <2>0, <2>1, <2>2, ClearBlock DEF FreePages
  <2>4. Pages(k, i) \subseteq FreePages
    BY <2>1, CoveredMember DEF FreePages
  <2>5. i \in 0 .. NPages
    BY <2>1, <2>4, IndexBound DEF IInv, Accounted
  <2>6. Abstract!Alloc(k, i)
    BY <2>2, <2>3, <2>4, BlockIsPages DEF Abstract!Alloc
  <2>7. QED
    BY <2>1, <2>5, <2>6 DEF Abstract!Next
<1>7. CASE FreeMerge
  <2> DEFINE k == call.order
             i == call.idx
  <2>0. call \in CallType /\ orders \in Bitmaps /\ Apart(orders)
    BY DEF IInv, TypeOK, Bitmaps, NoOverlap
  <2>1. k \in Orders /\ i \in orders[k] /\ k # MaxOrder /\ BuddyOf(i) \in orders[k]
    BY <1>7, <2>0, CallCases DEF FreeMerge, IInv, InFlight, None
  <2>2. orders' = [orders EXCEPT ![k] = @ \ {i, BuddyOf(i)},
                                 ![k + 1] = @ \cup {i \div 2}]
    BY <1>7 DEF FreeMerge
  <2> HIDE DEF k, i
  <2>3. Covered(orders') = Covered(orders)
    BY <2>0, <2>1, <2>2, MergeBlock, ZenonT(60)
  <2>4. Stutter
    BY <1>7, <2>3 DEF FreeMerge, FreePages
  <2>5. QED
    BY <1>0, <2>4
<1>8. CASE FreeDone
  BY <1>0, <1>8 DEF FreeDone, FreePages
<1>9. CASE FreeRangeStep
  <2>1. PICK k \in Orders, i \in 0 .. NPages :
            /\ Fits(k, i)
            /\ range' = [start |-> range.start + 2 * Size[k],
                         extent |-> range.extent - 2 * Size[k]]
            /\ MarkFree(k, i)
    BY <1>9 DEF FreeRangeStep
  <2>2. i \in Nat /\ call = None /\ RangePending /\ UNCHANGED <<held, ret>>
    BY <1>9, NPagesAssumption DEF FreeRangeStep
  <2>3. range \in RangeType /\ range.start % 2 = 0 /\ range.start + range.extent <= 2 * NPages
    BY DEF IInv, TypeOK, InFlight
  <2>4. /\ range' \in RangeType /\ range'.start % 2 = 0
        /\ range'.start + range'.extent <= 2 * NPages
        /\ Pages(k, i) \subseteq PendingPages
    BY <2>1, <2>2, <2>3, CutRange DEF Fits, PendingPages
  <2>5. Pages(k, i) \cap (FreePages \cup held) = {} /\ Pages(k, i) \subseteq Usable
    BY <2>4 DEF IInv, Accounted, ManagedUsable
  <2>6. FreePages' = FreePages \cup Pages(k, i)
    BY <2>1, <2>2, <2>4, <2>5, MarkFreeIInv
  <2>7. Abstract!Register(k, i)
    BY <2>2, <2>5, <2>6, BlockIsPages DEF Abstract!Register
  <2>8. QED
    BY <2>7 DEF Abstract!Next
<1>10. CASE UNCHANGED vars
  BY <1>0, <1>10 DEF vars, FreePages
<1>11. QED
  BY <1>0, <1>1, <1>2, <1>3, <1>4, <1>5, <1>6, <1>7, <1>8, <1>9, <1>10 DEF Next

(* The buddy allocator is a page allocator.                                *)
THEOREM Refinement == RangesAligned => (Spec => AbstractSpec)
<1> SUFFICES ASSUME RangesAligned PROVE Spec => AbstractSpec
  OBVIOUS
<1>1. Init => Abstract!Init
  BY CoveredMember DEF Init, Abstract!Init, FreePages, Fail
<1>2. IInv /\ ManagedUsable /\ [Next]_vars => [Abstract!Next]_Abstract!vars
  BY StepRefines
<1>3. Spec => []IInv /\ []ManagedUsable
  BY Invariance, ManagedUsableInvariant
<1>4. QED
  BY <1>1, <1>2, <1>3, PTL DEF Spec, AbstractSpec, Abstract!Spec

-----------------------------------------------------------------------------
(* Loops.  A loop of Pmm is a recursive function f: f[s] is the state in   *)
(* which the loop ends that starts in s.  `step' is one round and `rank'   *)
(* a bound on the rounds to come, 0 at the end.                            *)

Decreasing(S, step, rank) ==
    /\ rank \in [S -> Nat]
    /\ \A s \in S : rank[s] # 0 => step[s] \in S /\ rank[step[s]] < rank[s]

(* f is the loop for all states of at most n rounds.                       *)
Within(S, rank, n) == {s \in S : rank[s] <= n}

LoopWithin(f, S, step, rank, n) ==
    /\ f \in [Within(S, rank, n) -> S]
    /\ \A s \in Within(S, rank, n) : f[s] = IF rank[s] = 0 THEN s ELSE f[step[s]]

LEMMA LoopsAgree ==
    ASSUME NEW S, NEW step, NEW rank, Decreasing(S, step, rank),
           NEW f, NEW g, NEW m \in Nat, NEW n \in Nat,
           LoopWithin(f, S, step, rank, m), LoopWithin(g, S, step, rank, n),
           NEW s \in S, rank[s] <= m, rank[s] <= n
    PROVE  f[s] = g[s]
<1> DEFINE Bad(t) == rank[t] <= m /\ rank[t] <= n /\ f[t] # g[t]
           T == {rank[t] : t \in {t \in S : Bad(t)}}
<1> SUFFICES ASSUME f[s] # g[s] PROVE FALSE
  OBVIOUS
<1>1. T \subseteq Nat /\ T # {}
  BY DEF Decreasing
<1>2. PICK x \in T : \A y \in T : x <= y
  BY <1>1, LeastNatural
<1>3. PICK t \in S : x = rank[t] /\ Bad(t)
  BY <1>2
<1>4. /\ f[t] = IF rank[t] = 0 THEN t ELSE f[step[t]]
      /\ g[t] = IF rank[t] = 0 THEN t ELSE g[step[t]]
  BY <1>3 DEF LoopWithin, Within
<1>5. rank[t] # 0
  BY <1>3, <1>4
<1>6. step[t] \in S /\ rank[step[t]] < rank[t] /\ rank[step[t]] \in Nat /\ rank[t] \in Nat
  BY <1>5 DEF Decreasing
<1>7. ~Bad(step[t])
  <2> SUFFICES ASSUME Bad(step[t]) PROVE FALSE
    OBVIOUS
  <2>1. rank[step[t]] \in T
    BY <1>6
  <2>2. x <= rank[step[t]]
    BY <1>2, <2>1
  <2>3. QED
    BY <1>3, <1>6, <2>2
<1>8. f[step[t]] = g[step[t]]
  BY <1>3, <1>6, <1>7
<1>9. QED
  BY <1>3, <1>4, <1>8

LEMMA LoopToRank ==
    ASSUME NEW S, NEW step, NEW rank, Decreasing(S, step, rank), NEW n \in Nat
    PROVE  \E f : LoopWithin(f, S, step, rank, n)
<1> DEFINE Has(m) == \E f : LoopWithin(f, S, step, rank, m)
           T == {m \in Nat : ~Has(m)}
<1>1. Has(0)
  <2> DEFINE f == [s \in Within(S, rank, 0) |-> s]
  <2>1. f \in [Within(S, rank, 0) -> S] /\ \A s \in Within(S, rank, 0) : f[s] = s /\ rank[s] = 0
    BY DEF Within, Decreasing
  <2> HIDE DEF f
  <2>2. LoopWithin(f, S, step, rank, 0)
    BY <2>1 DEF LoopWithin
  <2>3. QED
    BY <2>2
<1>2. ASSUME NEW m \in Nat, Has(m)
      PROVE  Has(m + 1)
  <2>1. PICK g : LoopWithin(g, S, step, rank, m)
    BY <1>2
  <2> DEFINE D == Within(S, rank, m + 1)
             f == [s \in D |-> IF rank[s] = 0 THEN s ELSE g[step[s]]]
  <2>2. ASSUME NEW s \in D, rank[s] # 0
        PROVE  step[s] \in Within(S, rank, m) /\ step[s] \in D
    BY <2>2 DEF Within, Decreasing
  <2>3. ASSUME NEW s \in D PROVE f[s] \in S
    BY <2>1, <2>2 DEF LoopWithin, Within
  <2>4. ASSUME NEW s \in Within(S, rank, m) PROVE s \in D /\ f[s] = g[s]
    <3>1. s \in D
      BY DEF Within, Decreasing
    <3>2. g[s] = IF rank[s] = 0 THEN s ELSE g[step[s]]
      BY <2>1 DEF LoopWithin
    <3>3. QED
      BY <3>1, <3>2
  <2>5. ASSUME NEW s \in D
        PROVE  f[s] = IF rank[s] = 0 THEN s ELSE f[step[s]]
    <3>1. CASE rank[s] = 0
      BY <3>1
    <3>2. CASE rank[s] # 0
      <4>1. f[s] = g[step[s]]
        BY <3>2
      <4>2. f[step[s]] = g[step[s]]
        BY <2>2, <2>4, <3>2
      <4>3. QED
        BY <3>2, <4>1, <4>2
    <3>3. QED
      BY <3>1, <3>2
  <2>6. f = [s \in D |-> f[s]]
    OBVIOUS
  <2> HIDE DEF f
  <2>7. f \in [D -> S]
    BY <2>3, <2>6
  <2>8. LoopWithin(f, S, step, rank, m + 1)
    BY <2>5, <2>7 DEF LoopWithin
  <2>9. QED
    BY <2>8
<1> HIDE DEF Has
<1>3. T = {}
  <2> SUFFICES ASSUME T # {} PROVE FALSE
    OBVIOUS
  <2>1. T \subseteq Nat
    OBVIOUS
  <2>2. PICK m \in T : \A l \in T : m <= l
    BY <2>1, LeastNatural
  <2>3. m # 0
    BY <1>1
  <2>4. PICK j \in Nat : m = j + 1
    <3>1. m - 1 \in Nat /\ m = (m - 1) + 1
      BY <2>2, <2>3
    <3>2. QED
      BY <3>1
  <2>5. j \notin T
    BY <2>2, <2>4
  <2>6. QED
    BY <1>2, <2>2, <2>4, <2>5
<1>4. QED
  BY <1>3 DEF Has

(* The loop exists for all states.                                         *)
LEMMA LoopExists ==
    ASSUME NEW S, NEW step, NEW rank, Decreasing(S, step, rank)
    PROVE  \E f : /\ f = [s \in S |-> f[s]]
                  /\ \A s \in S : f[s] = IF rank[s] = 0 THEN s ELSE f[step[s]]
<1> DEFINE G(n) == CHOOSE g : LoopWithin(g, S, step, rank, n)
           f == [s \in S |-> G(rank[s])[s]]
<1>1. ASSUME NEW n \in Nat PROVE LoopWithin(G(n), S, step, rank, n)
  BY LoopToRank
<1> HIDE DEF G
<1>2. ASSUME NEW s \in S
      PROVE  f[s] = IF rank[s] = 0 THEN s ELSE f[step[s]]
  <2>1. rank[s] \in Nat /\ s \in Within(S, rank, rank[s])
    BY DEF Decreasing, Within
  <2>2. G(rank[s])[s] = IF rank[s] = 0 THEN s ELSE G(rank[s])[step[s]]
    BY <1>1, <2>1 DEF LoopWithin
  <2>3. CASE rank[s] = 0
    BY <2>2, <2>3
  <2>4. CASE rank[s] # 0
    <3>1. step[s] \in S /\ rank[step[s]] \in Nat /\ rank[step[s]] <= rank[s]
      BY <2>1, <2>4 DEF Decreasing
    <3>2. rank[step[s]] <= rank[step[s]]
      BY <3>1
    <3>3. /\ LoopWithin(G(rank[s]), S, step, rank, rank[s])
          /\ LoopWithin(G(rank[step[s]]), S, step, rank, rank[step[s]])
      BY <1>1, <2>1, <3>1
    <3>4. G(rank[s])[step[s]] = G(rank[step[s]])[step[s]]
      BY <2>1, <3>1, <3>2, <3>3, LoopsAgree
    <3>5. QED
      BY <2>2, <2>4, <3>1, <3>4
  <2>5. QED
    BY <2>3, <2>4
<1>3. f = [s \in S |-> f[s]]
  OBVIOUS
<1> HIDE DEF f
<1>4. QED
  BY <1>2, <1>3

(* What every round keeps holds at the end.                                *)
LEMMA LoopKeeps ==
    ASSUME NEW S, NEW step, NEW rank, Decreasing(S, step, rank), NEW f,
           \A s \in S : f[s] = IF rank[s] = 0 THEN s ELSE f[step[s]],
           NEW J, J \subseteq S, \A s \in J : rank[s] # 0 => step[s] \in J,
           NEW s0 \in J
    PROVE  f[s0] \in J /\ rank[f[s0]] = 0
<1> DEFINE Bad(t) == ~(f[t] \in J /\ rank[f[t]] = 0)
           T == {rank[t] : t \in {t \in J : Bad(t)}}
<1> SUFFICES ASSUME Bad(s0) PROVE FALSE
  OBVIOUS
<1>1. T \subseteq Nat /\ T # {}
  BY DEF Decreasing
<1>2. PICK x \in T : \A y \in T : x <= y
  BY <1>1, LeastNatural
<1>3. PICK t \in J : x = rank[t] /\ Bad(t)
  BY <1>2
<1>4. f[t] = IF rank[t] = 0 THEN t ELSE f[step[t]]
  BY <1>3
<1>5. rank[t] # 0
  BY <1>3, <1>4
<1>6. step[t] \in J /\ rank[step[t]] < rank[t] /\ rank[step[t]] \in Nat /\ rank[t] \in Nat
  BY <1>5 DEF Decreasing
<1>7. ~Bad(step[t])
  <2> SUFFICES ASSUME Bad(step[t]) PROVE FALSE
    OBVIOUS
  <2>1. rank[step[t]] \in T
    BY <1>6
  <2>2. x <= rank[step[t]]
    BY <1>2, <2>1
  <2>3. QED
    BY <1>3, <1>6, <2>2
<1>8. QED
  BY <1>3, <1>4, <1>5, <1>7

-----------------------------------------------------------------------------
(* Zones and bitmaps                                                       *)

LEMMA MinOf ==
    ASSUME NEW T, T \subseteq Nat, T # {}
    PROVE  Min(T) \in T /\ \A y \in T : Min(T) <= y
<1>1. PICK x \in T : \A y \in T : x <= y
  BY LeastNatural
<1>2. QED
  BY <1>1 DEF Min

LEMMA MaxOf ==
    ASSUME NEW T, T \subseteq Nat, T # {}, NEW b \in Nat, \A x \in T : x <= b
    PROVE  Max(T) \in T /\ \A y \in T : y <= Max(T)
<1> DEFINE U == {b - x : x \in T}
<1>1. U \subseteq Nat /\ U # {}
  <2>1. \A x \in T : b - x \in Nat
    OBVIOUS
  <2>2. QED
    BY <2>1
<1>2. PICK u \in U : \A v \in U : u <= v
  BY <1>1, LeastNatural
<1>3. PICK x \in T : u = b - x
  BY <1>2
<1>4. \A y \in T : b - x <= b - y
  BY <1>2, <1>3
<1>5. \A y \in T : x >= y
  BY <1>4
<1>6. PICK w : w \in T /\ \A y \in T : w >= y
  BY <1>5
<1>7. Max(T) \in T /\ \A y \in T : Max(T) >= y
  BY <1>6 DEF Max
<1>8. QED
  BY <1>7

LEMMA PmmNats ==
    /\ OneMB \in Nat /\ FourGB \in Nat /\ KernelEnd \in Nat /\ PageTables \in Nat
    /\ ByteBits \in Nat \ {0} /\ PageBytes \in Nat \ {0} /\ MaxNum \in Nat \ {0}
    /\ OneMB < KernelEnd /\ KernelEnd < FourGB
    /\ \A m \in MemoryMaps : m \in Seq(RangeType)
BY PmmAssumption

LEMMA RangeFields ==
    ASSUME NEW m \in Seq(RangeType), NEW n \in DOMAIN m
    PROVE  /\ m[n] \in RangeType
           /\ m[n].start \in Nat /\ m[n].extent \in Nat
           /\ m[n] = [start |-> m[n].start, extent |-> m[n].extent]
<1>1. m[n] \in RangeType
  OBVIOUS
<1>2. QED
  BY <1>1 DEF RangeType

(* A map has an end.                                                       *)
LEMMA MapBound ==
    ASSUME NEW m \in Seq(RangeType)
    PROVE  \E b \in Nat : \A n \in DOMAIN m : m[n].start + m[n].extent <= b
<1> DEFINE End(n) == m[n].start + m[n].extent
           T == {l \in 0 .. Len(m) : ~\E b \in Nat : \A n \in 1 .. l : End(n) <= b}
<1>1. Len(m) \in Nat /\ DOMAIN m = 1 .. Len(m)
  OBVIOUS
<1>2. \A n \in 1 .. Len(m) : End(n) \in Nat
  BY <1>1, RangeFields
<1> HIDE DEF End
<1>3. T = {}
  <2> SUFFICES ASSUME T # {} PROVE FALSE
    OBVIOUS
  <2>1. T \subseteq Nat
    BY <1>1
  <2>2. PICK l \in T : \A x \in T : l <= x
    BY <2>1, LeastNatural
  <2>3. l # 0
    <3>1. \A n \in 1 .. 0 : End(n) <= 0
      OBVIOUS
    <3>2. QED
      BY <3>1
  <2>4. l - 1 \in 0 .. Len(m) /\ l - 1 \notin T /\ l \in 1 .. Len(m)
    <3>1. l \in 0 .. Len(m)
      BY <2>2
    <3>2. l - 1 \in T => l <= l - 1
      BY <2>2
    <3> HIDE DEF T
    <3>3. QED
      BY <1>1, <2>3, <3>1, <3>2
  <2>5. PICK b \in Nat : \A n \in 1 .. (l - 1) : End(n) <= b
    BY <2>4
  <2>6. PICK c \in Nat : b <= c /\ End(l) <= c
    <3>1. PICK e \in Nat : e = End(l)
      BY <1>2, <2>4
    <3>2. b + e \in Nat /\ b <= b + e /\ e <= b + e
      OBVIOUS
    <3>3. QED
      BY <3>1, <3>2
  <2>7. ASSUME NEW n \in 1 .. l PROVE End(n) <= c
    <3>1. CASE n = l
      BY <2>6, <3>1
    <3>2. CASE n # l
      <4>1. n \in 1 .. (l - 1) /\ n \in 1 .. Len(m)
        BY <1>1, <2>4, <3>2
      <4>2. End(n) <= b /\ End(n) \in Nat
        BY <1>2, <2>5, <4>1
      <4>3. QED
        BY <2>6, <4>2, SMTT(30)
    <3>3. QED
      BY <3>1, <3>2
  <2>8. QED
    BY <2>2, <2>7
<1>4. Len(m) \in 0 .. Len(m)
  BY <1>1
<1>5. \E b \in Nat : \A n \in 1 .. Len(m) : End(n) <= b
  BY <1>3, <1>4
<1>6. QED
  BY <1>1, <1>5 DEF End

LEMMA MaxExtentIs ==
    ASSUME NEW m \in MemoryMaps
    PROVE  /\ MaxExtent(m) \in Nat
           /\ \A n \in DOMAIN m : m[n].start + m[n].extent <= MaxExtent(m)
           /\ OneMB <= MaxExtent(m)
<1>1. m \in Seq(RangeType)
  BY PmmNats
<1> DEFINE T == {0} \cup {m[n].start + m[n].extent : n \in DOMAIN m}
<1>2. T \subseteq Nat /\ T # {}
  BY <1>1, RangeFields
<1>3. PICK b \in Nat : \A n \in DOMAIN m : m[n].start + m[n].extent <= b
  BY <1>1, MapBound
<1>4. \A x \in T : x <= b
  BY <1>3
<1>5. Max(T) \in T /\ \A y \in T : y <= Max(T)
  BY <1>2, <1>4, MaxOf
<1>6. PICK n \in DOMAIN m : m[n].start = OneMB
  BY PmmAssumption
<1>7. OneMB <= m[n].start + m[n].extent
  BY <1>1, <1>6, RangeFields
<1>8. m[n].start + m[n].extent \in T
  BY <1>6
<1>9. MaxExtent(m) = Max(T)
  BY DEF MaxExtent
<1> HIDE DEF T
<1>10. OneMB <= Max(T)
  <2>1. Max(T) \in Nat /\ m[n].start + m[n].extent \in Nat
    BY <1>2, <1>5, <1>8
  <2>2. m[n].start + m[n].extent <= Max(T)
    BY <1>5, <1>8
  <2>3. QED
    BY <1>7, <2>1, <2>2, PmmNats
<1>11. \A l \in DOMAIN m : m[l].start + m[l].extent \in T
  BY DEF T
<1>12. QED
  BY <1>2, <1>5, <1>9, <1>10, <1>11

LEMMA MinOfTwo ==
    ASSUME NEW x \in Nat, NEW y \in Nat
    PROVE  Min({x, y}) \in Nat /\ Min({x, y}) \in {x, y} /\ Min({x, y}) <= x /\ Min({x, y}) <= y
BY MinOf

(* The zones are apart and cover the map.                                  *)
LEMMA ZonesAre ==
    ASSUME NEW m \in MemoryMaps, NEW z \in Zones
    PROVE  /\ ZoneStart(z) \in Nat /\ ZoneExtent(m, z) \in Nat
           /\ \A p \in Nat :
                 p < MaxExtent(m) =>
                     (ZoneOf(p) = z <=> ZoneStart(z) <= p /\ p < ZoneStart(z) + ZoneExtent(m, z))
           /\ \A p \in Nat :
                 ZoneStart(z) <= p /\ p < ZoneStart(z) + ZoneExtent(m, z) => p < MaxExtent(m)
<1> DEFINE e == MaxExtent(m)
<1>1. e \in Nat /\ OneMB <= e
  BY MaxExtentIs
<1> HIDE DEF e
<1>2. CASE z = UNDER1MB
  <2>1. ZoneStart(z) = 0 /\ ZoneExtent(m, z) = Min({e, OneMB})
    BY <1>2 DEF ZoneStart, ZoneExtent, UNDER1MB, UNDER4GB, NONE, e
  <2>2. ZoneExtent(m, z) = OneMB
    BY <1>1, <2>1, MinOfTwo, PmmNats
  <2>3. \A p \in Nat : ZoneOf(p) = z <=> p < OneMB
    BY <1>2, PmmNats DEF ZoneOf, UNDER1MB, UNDER4GB, NONE
  <2>4. ASSUME NEW p \in Nat
        PROVE  /\ p < e => (ZoneOf(p) = z <=> 0 <= p /\ p < OneMB)
               /\ 0 <= p /\ p < OneMB => p < e
    BY <1>1, <2>3, PmmNats
  <2>5. ZoneStart(z) = 0 /\ ZoneStart(z) + ZoneExtent(m, z) = OneMB /\ MaxExtent(m) = e
    BY <2>1, <2>2, PmmNats DEF e
  <2>6. QED
    BY <2>2, <2>4, <2>5, PmmNats
<1>3. CASE z = UNDER4GB
  <2>1. ZoneStart(z) = OneMB /\ ZoneExtent(m, z) = Min({e, FourGB}) - OneMB
    BY <1>3 DEF ZoneStart, ZoneExtent, UNDER1MB, UNDER4GB, NONE, e
  <2>2. ZoneStart(z) + ZoneExtent(m, z) = Min({e, FourGB}) /\ ZoneExtent(m, z) \in Nat
    BY <1>1, <2>1, MinOfTwo, PmmNats
  <2>3. \A p \in Nat : ZoneOf(p) = z <=> OneMB <= p /\ p < FourGB
    BY <1>3, PmmNats DEF ZoneOf, UNDER1MB, UNDER4GB, NONE
  <2>4. /\ Min({e, FourGB}) \in Nat /\ Min({e, FourGB}) <= e /\ Min({e, FourGB}) <= FourGB
        /\ Min({e, FourGB}) \in {e, FourGB}
    BY <1>1, PmmNats, MinOfTwo
  <2> DEFINE u == Min({e, FourGB})
  <2> HIDE DEF u
  <2>5. ASSUME NEW p \in Nat
        PROVE  /\ p < e => ((OneMB <= p /\ p < FourGB) <=> OneMB <= p /\ p < u)
               /\ p < u => p < e
    BY <1>1, <2>4, PmmNats DEF u
  <2>6. ZoneStart(z) + ZoneExtent(m, z) = u /\ ZoneStart(z) = OneMB /\ MaxExtent(m) = e
    BY <2>1, <2>2 DEF e, u
  <2>7. ASSUME NEW p \in Nat
        PROVE  /\ p < e => (ZoneOf(p) = z <=> OneMB <= p /\ p < u)
               /\ OneMB <= p /\ p < u => p < e
    BY <2>3, <2>5
  <2>8. QED
    BY <2>2, <2>6, <2>7, PmmNats
<1>4. CASE z = NONE
  <2>1. ZoneStart(z) = FourGB /\ ZoneExtent(m, z) = IF e > FourGB THEN e - FourGB ELSE 0
    BY <1>4 DEF ZoneStart, ZoneExtent, UNDER1MB, UNDER4GB, NONE, e
  <2>3. \A p \in Nat : ZoneOf(p) = z <=> FourGB <= p
    BY <1>4, PmmNats DEF ZoneOf, UNDER1MB, UNDER4GB, NONE
  <2>4. ZoneExtent(m, z) \in Nat
    BY <1>1, <2>1, PmmNats
  <2>5. ASSUME NEW p \in Nat
        PROVE  /\ p < e => (FourGB <= p <=> FourGB <= p /\ p < FourGB + ZoneExtent(m, z))
               /\ FourGB <= p /\ p < FourGB + ZoneExtent(m, z) => p < e
    BY <1>1, <2>1, PmmNats
  <2>6. ASSUME NEW p \in Nat
        PROVE  /\ p < e => (ZoneOf(p) = z <=> FourGB <= p /\ p < FourGB + ZoneExtent(m, z))
               /\ FourGB <= p /\ p < FourGB + ZoneExtent(m, z) => p < e
    BY <2>3, <2>5
  <2>7. ZoneStart(z) = FourGB /\ MaxExtent(m) = e
    BY <2>1 DEF e
  <2>8. QED
    BY <2>4, <2>6, <2>7, PmmNats
<1>5. QED
  BY <1>2, <1>3, <1>4 DEF Zones

LEMMA Quotient ==
    ASSUME NEW e \in Nat, NEW s \in Nat \ {0}
    PROVE  /\ e \div s \in Nat /\ e % s \in Nat /\ e % s < s
           /\ e = s * (e \div s) + (e % s)
           /\ \A x \in Nat : x * s <= e => x <= e \div s
OBVIOUS

(* Sums of the first values of h.                                          *)
Sums(f, h, n) == f = [k \in 0 .. n |-> IF k = 0 THEN 0 ELSE f[k - 1] + h[k - 1]]

LEMMA SumExists ==
    ASSUME NEW h, NEW n \in Nat
    PROVE  \E f : Sums(f, h, n)
<1> DEFINE Has(m) == \E f : Sums(f, h, m)
           T == {m \in Nat : ~Has(m)}
<1>1. Has(0)
  <2> DEFINE f == [k \in 0 .. 0 |-> 0]
  <2>1. f = [k \in 0 .. 0 |-> IF k = 0 THEN 0 ELSE f[k - 1] + h[k - 1]]
    OBVIOUS
  <2> HIDE DEF f
  <2>2. QED
    BY <2>1 DEF Sums
<1>2. ASSUME NEW m \in Nat, Has(m)
      PROVE  Has(m + 1)
  <2>1. PICK g : Sums(g, h, m)
    BY <1>2
  <2>2. \A k \in 0 .. m : g[k] = IF k = 0 THEN 0 ELSE g[k - 1] + h[k - 1]
    BY <2>1 DEF Sums
  <2> DEFINE f == [k \in 0 .. (m + 1) |-> IF k = 0 THEN 0 ELSE g[k - 1] + h[k - 1]]
  <2>3. \A k \in 0 .. m : f[k] = g[k]
    BY <2>2
  <2>4. ASSUME NEW k \in 0 .. (m + 1)
        PROVE  f[k] = IF k = 0 THEN 0 ELSE f[k - 1] + h[k - 1]
    <3>1. CASE k = 0
      BY <3>1
    <3>2. CASE k # 0
      <4>1. k - 1 \in 0 .. m
        BY <3>2
      <4>2. f[k - 1] = g[k - 1]
        BY <2>3, <4>1
      <4>3. QED
        BY <3>2, <4>2
    <3>3. QED
      BY <3>1, <3>2
  <2>5. f = [k \in 0 .. (m + 1) |-> f[k]]
    OBVIOUS
  <2> HIDE DEF f
  <2>6. f = [k \in 0 .. (m + 1) |-> IF k = 0 THEN 0 ELSE f[k - 1] + h[k - 1]]
    BY <2>4, <2>5
  <2>7. QED
    BY <2>6 DEF Sums
<1> HIDE DEF Has
<1>3. T = {}
  <2> SUFFICES ASSUME T # {} PROVE FALSE
    OBVIOUS
  <2>1. T \subseteq Nat
    OBVIOUS
  <2>2. PICK m \in T : \A l \in T : m <= l
    BY <2>1, LeastNatural
  <2>3. m # 0
    BY <1>1
  <2>4. PICK j \in Nat : m = j + 1
    <3>1. m - 1 \in Nat /\ m = (m - 1) + 1
      BY <2>2, <2>3
    <3>2. QED
      BY <3>1
  <2>5. j \notin T
    BY <2>2, <2>4
  <2>6. QED
    BY <1>2, <2>2, <2>4, <2>5
<1>4. QED
  BY <1>3 DEF Has

(* They grow.                                                              *)
LEMMA SumsGrow ==
    ASSUME NEW f, NEW h, NEW n \in Nat, Sums(f, h, n), \A j \in 0 .. (n - 1) : h[j] \in Nat
    PROVE  /\ \A k \in 0 .. n : f[k] \in Nat
           /\ \A j, k \in 0 .. n : j < k => f[j] + h[j] <= f[k]
<1>1. f[0] = 0 /\ \A k \in 1 .. n : f[k] = f[k - 1] + h[k - 1]
  <2>1. \A k \in 0 .. n : f[k] = IF k = 0 THEN 0 ELSE f[k - 1] + h[k - 1]
    BY DEF Sums
  <2>2. 0 \in 0 .. n /\ \A k \in 1 .. n : k \in 0 .. n /\ k # 0
    OBVIOUS
  <2>3. QED
    BY <2>1, <2>2
<1> DEFINE Good(k) == f[k] \in Nat /\ \A j \in 0 .. n : j < k => f[j] + h[j] <= f[k]
           T == {k \in 0 .. n : ~Good(k)}
<1>2. T = {}
  <2> SUFFICES ASSUME T # {} PROVE FALSE
    OBVIOUS
  <2>1. T \subseteq Nat
    OBVIOUS
  <2>2. PICK k \in T : \A l \in T : k <= l
    BY <2>1, LeastNatural
  <2>3. k \in 0 .. n /\ ~Good(k)
    BY <2>2
  <2>4. k # 0
    <3>1. Good(0)
      BY <1>1
    <3>2. QED
      BY <2>3, <3>1
  <2>5. k \in 1 .. n /\ k - 1 \in 0 .. n /\ k - 1 \in 0 .. (n - 1)
    BY <2>3, <2>4
  <2>6. Good(k - 1)
    <3>1. k - 1 \in T => k <= k - 1
      BY <2>2
    <3> HIDE DEF Good
    <3>2. QED
      BY <2>5, <3>1
  <2>7. f[k] = f[k - 1] + h[k - 1] /\ h[k - 1] \in Nat /\ f[k - 1] \in Nat
    BY <1>1, <2>5, <2>6
  <2>8. ASSUME NEW j \in 0 .. n, j < k PROVE f[j] + h[j] <= f[k]
    <3>1. CASE j = k - 1
      BY <2>7, <3>1
    <3>2. CASE j # k - 1
      <4>1. j < k - 1 /\ j \in 0 .. (n - 1)
        BY <2>3, <2>8, <3>2
      <4>2. f[j] + h[j] <= f[k - 1]
        BY <2>6, <4>1
      <4>3. j \in 0 .. n /\ ~(j \in T)
        <5>1. j \in T => k <= j
          BY <2>2
        <5> HIDE DEF Good
        <5>2. QED
          BY <2>3, <2>8, <5>1
      <4>4. f[j] \in Nat
        BY <4>3
      <4>5. h[j] \in Nat
        BY <4>1
      <4>6. QED
        BY <2>7, <4>2, <4>4, <4>5
    <3>3. QED
      BY <3>1, <3>2
  <2>9. QED
    BY <2>3, <2>7, <2>8
<1>3. QED
  BY <1>2

LEMMA ExtentTableIs ==
    ASSUME NEW m \in MemoryMaps, NEW z \in Zones, NEW k \in Orders
    PROVE  /\ ExtentTable[m][z][k] = ZoneExtent(m, z) \div Size[k]
           /\ ExtentTable[m][z][k] \in Nat
<1>1. ExtentTable[m][z][k] = ZoneExtent(m, z) \div Size[k]
  BY DEF ExtentTable
<1>2. ZoneExtent(m, z) \in Nat /\ Size[k] \in Nat \ {0}
  BY ZonesAre, SizeAssumption
<1>3. QED
  BY <1>1, <1>2, Quotient

LEMMA BytesBelowIs ==
    ASSUME NEW m \in MemoryMaps, NEW z \in Zones
    PROVE  LET h == [k \in Orders |-> BitmapBytes(ExtentTable[m][z][k])]
           IN  Sums(BytesBelow(m, z), h, MaxOrder + 1)
<1> DEFINE h == [k \in Orders |-> BitmapBytes(ExtentTable[m][z][k])]
           R(f) == f = [k \in 0 .. (MaxOrder + 1) |->
                          IF k = 0 THEN 0 ELSE f[k - 1] + BitmapBytes(ExtentTable[m][z][k - 1])]
<1>1. ASSUME NEW f PROVE Sums(f, h, MaxOrder + 1) <=> R(f)
  <2>1. \A k \in 0 .. (MaxOrder + 1) : k # 0 => h[k - 1] = BitmapBytes(ExtentTable[m][z][k - 1])
    BY OrderAssumption DEF Orders
  <2>2. QED
    BY <2>1 DEF Sums
<1>2. \E f : R(f)
  <2> HIDE DEF h, R
  <2>1. MaxOrder + 1 \in Nat
    BY OrderAssumption
  <2>2. PICK f : Sums(f, h, MaxOrder + 1)
    BY <2>1, SumExists
  <2>3. QED
    BY <1>1, <2>2
<1>3. BytesBelow(m, z) = CHOOSE f : R(f)
  BY DEF BytesBelow
<1>4. R(BytesBelow(m, z))
  BY <1>2, <1>3
<1>5. QED
  BY <1>1, <1>4

LEMMA BytesGrow ==
    ASSUME NEW m \in MemoryMaps, NEW z \in Zones
    PROVE  /\ \A k \in 0 .. (MaxOrder + 1) : BytesBelow(m, z)[k] \in Nat
           /\ \A j \in Orders : BitmapBytes(ExtentTable[m][z][j]) \in Nat
           /\ \A j \in Orders, k \in 0 .. (MaxOrder + 1) :
                 j < k => BytesBelow(m, z)[j] + BitmapBytes(ExtentTable[m][z][j])
                              <= BytesBelow(m, z)[k]
<1> DEFINE h == [k \in Orders |-> BitmapBytes(ExtentTable[m][z][k])]
           n == MaxOrder + 1
<1>1. \A j \in Orders : h[j] = BitmapBytes(ExtentTable[m][z][j]) /\ h[j] \in Nat
  <2> TAKE j \in Orders
  <2>1. ExtentTable[m][z][j] \in Nat
    BY ExtentTableIs
  <2>2. ExtentTable[m][z][j] \div ByteBits \in Nat
    BY <2>1, PmmNats, Quotient
  <2>3. QED
    BY <2>2 DEF BitmapBytes
<1>2. Sums(BytesBelow(m, z), h, n)
  BY BytesBelowIs
<1> HIDE DEF h
<1>3. n \in Nat /\ Orders = 0 .. (n - 1) /\ Orders \subseteq 0 .. n
  BY OrderAssumption DEF Orders
<1> HIDE DEF n
<1>4. \A j \in 0 .. (n - 1) : h[j] \in Nat
  BY <1>1, <1>3
<1>5. /\ \A k \in 0 .. n : BytesBelow(m, z)[k] \in Nat
      /\ \A j, k \in 0 .. n : j < k => BytesBelow(m, z)[j] + h[j] <= BytesBelow(m, z)[k]
  BY <1>2, <1>3, <1>4, SumsGrow
<1>6. QED
  BY <1>1, <1>3, <1>5 DEF n

-----------------------------------------------------------------------------
(* The layout of the bitmaps                                               *)

(* The bits that the bitmap of order k of zone z has room for.             *)
Room(z, k) == ByteBits * BitmapBytes(Extent(z, k))

LEMMA StorageIs ==
    ASSUME NEW m \in MemoryMaps
    PROVE  /\ \A z \in Zones : buddy_calc_overhead(m, z) \in Nat
           /\ \A z \in Zones : StorageStart(m, z) \in Nat
           /\ StorageStart(m, UNDER1MB) = 0
<1>1. MaxOrder + 1 \in 0 .. (MaxOrder + 1)
  BY OrderAssumption
<1>2. \A z \in Zones : buddy_calc_overhead(m, z) \in Nat
  BY <1>1, BytesGrow DEF buddy_calc_overhead
<1>3. 0 \in Zones /\ 1 \in Zones
  BY DEF Zones, NONE, UNDER1MB
<1>4. buddy_calc_overhead(m, 0) \in Nat /\ buddy_calc_overhead(m, 1) \in Nat
  BY <1>2, <1>3
<1>5. QED
  BY <1>2, <1>4 DEF StorageStart, Zones, NONE, UNDER1MB, UNDER4GB

LEMMA ByteTableIs ==
    ASSUME NEW m \in MemoryMaps, NEW z \in Zones, NEW k \in Orders
    PROVE  /\ ByteTable[m][z][k] = StorageStart(m, z) + BytesBelow(m, z)[k]
           /\ ByteTable[m][z][k] \in Nat
           /\ BytesBelow(m, z)[k] \in Nat
<1>1. ByteTable[m][z][k] = StorageStart(m, z) + BytesBelow(m, z)[k]
  BY DEF ByteTable
<1>2. k \in 0 .. (MaxOrder + 1)
  BY OrderAssumption DEF Orders
<1>3. StorageStart(m, z) \in Nat /\ BytesBelow(m, z)[k] \in Nat
  BY <1>2, StorageIs, BytesGrow
<1>4. QED
  BY <1>1, <1>3

(* One bitmap ends before another one starts.                              *)
Before(m, z, k, y, l) ==
    ByteTable[m][z][k] + BitmapBytes(ExtentTable[m][z][k]) <= ByteTable[m][y][l]

LEMMA BeforeInZone ==
    ASSUME NEW m \in MemoryMaps, NEW z \in Zones, NEW k \in Orders, NEW l \in Orders, k < l
    PROVE  Before(m, z, k, z, l)
<1>1. l \in 0 .. (MaxOrder + 1)
  BY OrderAssumption DEF Orders
<1> DEFINE a == BytesBelow(m, z)[k]  b == BytesBelow(m, z)[l]
           h == BitmapBytes(ExtentTable[m][z][k])  s == StorageStart(m, z)
<1>2. a + h <= b
  BY <1>1, BytesGrow
<1>3. a \in Nat /\ b \in Nat /\ h \in Nat /\ s \in Nat
  BY ByteTableIs, BytesGrow, StorageIs
<1>4. ByteTable[m][z][k] = s + a /\ ByteTable[m][z][l] = s + b
  BY ByteTableIs
<1> HIDE DEF a, b, h, s
<1>5. (s + a) + h <= s + b
  BY <1>2, <1>3
<1>6. QED
  BY <1>4, <1>5 DEF Before, h

(* A zone's storage holds its bitmaps.                                     *)
LEMMA BeforeNextZone ==
    ASSUME NEW m \in MemoryMaps, NEW z \in Zones, NEW y \in Zones, NEW k \in Orders, NEW l \in Orders,
           StorageStart(m, z) + buddy_calc_overhead(m, z) <= StorageStart(m, y)
    PROVE  Before(m, z, k, y, l)
<1>1. k < MaxOrder + 1 /\ MaxOrder + 1 \in 0 .. (MaxOrder + 1)
  BY OrderAssumption DEF Orders
<1> DEFINE a == BytesBelow(m, z)[k]  b == BytesBelow(m, y)[l]  o == buddy_calc_overhead(m, z)
           h == BitmapBytes(ExtentTable[m][z][k])  s == StorageStart(m, z)  t == StorageStart(m, y)
<1>2. a + h <= o
  BY <1>1, BytesGrow DEF buddy_calc_overhead
<1>3. a \in Nat /\ b \in Nat /\ h \in Nat /\ s \in Nat /\ t \in Nat /\ o \in Nat
  BY ByteTableIs, BytesGrow, StorageIs
<1>4. ByteTable[m][z][k] = s + a /\ ByteTable[m][y][l] = t + b
  BY ByteTableIs
<1>5. s + o <= t
  OBVIOUS
<1> HIDE DEF a, b, h, s, t, o
<1>6. (s + a) + h <= t + b
  BY <1>2, <1>3, <1>5
<1>7. QED
  BY <1>4, <1>6 DEF Before, h

(* If the storage fits, different bitmaps have no bit in common.           *)
LEMMA BeforeOrAfter ==
    ASSUME StorageFits, NEW m \in MemoryMaps, NEW z \in Zones, NEW y \in Zones,
           NEW k \in Orders, NEW l \in Orders, ~(z = y /\ k = l)
    PROVE  Before(m, z, k, y, l) \/ Before(m, y, l, z, k)
<1>1. CASE z = y
  <2>1. k < l \/ l < k
    BY <1>1, OrderAssumption DEF Orders
  <2>2. QED
    BY <1>1, <2>1, BeforeInZone
<1>2. CASE z # y
  <2>1. ASSUME NEW a \in Zones, NEW b \in Zones,
               <<a, b>> \in {<<UNDER1MB, UNDER4GB>>, <<UNDER4GB, NONE>>, <<UNDER1MB, NONE>>}
        PROVE  StorageStart(m, a) + buddy_calc_overhead(m, a) <= StorageStart(m, b)
    <3>1. /\ StorageStart(m, UNDER1MB) + buddy_calc_overhead(m, UNDER1MB) <= StorageStart(m, UNDER4GB)
          /\ StorageStart(m, UNDER4GB) + buddy_calc_overhead(m, UNDER4GB) <= StorageStart(m, NONE)
      BY DEF StorageFits
    <3>2. UNDER1MB \in Zones /\ UNDER4GB \in Zones /\ NONE \in Zones
      BY DEF Zones
    <3>3. /\ StorageStart(m, UNDER1MB) + buddy_calc_overhead(m, UNDER1MB) \in Nat
          /\ StorageStart(m, UNDER4GB) \in Nat /\ StorageStart(m, NONE) \in Nat
          /\ buddy_calc_overhead(m, UNDER4GB) \in Nat
      BY <3>2, StorageIs
    <3>4. StorageStart(m, UNDER1MB) + buddy_calc_overhead(m, UNDER1MB) <= StorageStart(m, NONE)
      BY <3>1, <3>3
    <3>5. QED
      BY <2>1, <3>1, <3>4
  <2>2. \/ <<z, y>> \in {<<UNDER1MB, UNDER4GB>>, <<UNDER4GB, NONE>>, <<UNDER1MB, NONE>>}
        \/ <<y, z>> \in {<<UNDER1MB, UNDER4GB>>, <<UNDER4GB, NONE>>, <<UNDER1MB, NONE>>}
    BY <1>2 DEF Zones
  <2>3. QED
    BY <2>1, <2>2, BeforeNextZone
<1>3. QED
  BY <1>1, <1>2

LEMMA RoomIs ==
    ASSUME map \in MemoryMaps, NEW z \in Zones, NEW k \in Orders
    PROVE  /\ Extent(z, k) \in Nat /\ Room(z, k) \in Nat /\ Extent(z, k) < Room(z, k)
           /\ \A i \in Nat : BitOf(z, k, i) \in Nat
<1>1. Extent(z, k) \in Nat
  BY ExtentTableIs DEF Extent
<1> DEFINE e == Extent(z, k)  q == e \div ByteBits  r == e % ByteBits
<1>2. q \in Nat /\ r \in Nat /\ r < ByteBits /\ e = ByteBits * q + r
  BY <1>1, PmmNats, Quotient
<1>3. Room(z, k) = ByteBits * (q + 1)
  BY DEF Room, BitmapBytes
<1> HIDE DEF e, q, r
<1>4. ByteBits * (q + 1) = ByteBits * q + ByteBits /\ ByteBits * q \in Nat
  BY <1>2, PmmNats
<1>5. e < Room(z, k) /\ Room(z, k) \in Nat
  BY <1>2, <1>3, <1>4, PmmNats
<1>6. ByteBits * ByteTable[map][z][k] \in Nat
  BY ByteTableIs, PmmNats
<1>7. QED
  BY <1>1, <1>5, <1>6 DEF e, BitOf

LEMMA BeforeBits ==
    ASSUME map \in MemoryMaps, NEW z \in Zones, NEW y \in Zones, NEW k \in Orders, NEW l \in Orders,
           Before(map, z, k, y, l), NEW i \in Nat, i < Room(z, k), NEW j \in Nat
    PROVE  BitOf(z, k, i) < BitOf(y, l, j)
<1> DEFINE a == ByteTable[map][z][k]  b == ByteTable[map][y][l]  h == BitmapBytes(Extent(z, k))
<1>1. a \in Nat /\ b \in Nat /\ h \in Nat /\ a + h <= b
  BY ByteTableIs, BytesGrow DEF Before, Extent
<1>2. BitOf(z, k, i) = ByteBits * a + i /\ BitOf(y, l, j) = ByteBits * b + j /\ i < ByteBits * h
  BY DEF BitOf, Room
<1> HIDE DEF a, b, h
<1>3. PICK d \in Nat : b = (a + h) + d
  <2>1. b - (a + h) \in Nat /\ b = (a + h) + (b - (a + h))
    BY <1>1
  <2>2. QED
    BY <2>1
<1>4. /\ ByteBits * b = ByteBits * a + ByteBits * h + ByteBits * d
      /\ ByteBits * a \in Nat /\ ByteBits * h \in Nat /\ ByteBits * d \in Nat
  BY <1>1, <1>3, PmmNats
<1>5. QED
  BY <1>2, <1>4

LEMMA BitsDiffer ==
    ASSUME StorageFits, map \in MemoryMaps, NEW z \in Zones, NEW y \in Zones,
           NEW k \in Orders, NEW l \in Orders, NEW i \in Nat, NEW j \in Nat,
           i < Room(z, k), j < Room(y, l), BitOf(z, k, i) = BitOf(y, l, j)
    PROVE  z = y /\ k = l /\ i = j
<1>1. BitOf(z, k, i) \in Nat /\ BitOf(y, l, j) \in Nat
  BY RoomIs
<1>2. ~Before(map, z, k, y, l)
  <2> SUFFICES ASSUME Before(map, z, k, y, l) PROVE FALSE
    OBVIOUS
  <2>1. BitOf(z, k, i) < BitOf(y, l, j)
    BY BeforeBits
  <2>2. QED
    BY <1>1, <2>1
<1>3. ~Before(map, y, l, z, k)
  <2> SUFFICES ASSUME Before(map, y, l, z, k) PROVE FALSE
    OBVIOUS
  <2>1. BitOf(y, l, j) < BitOf(z, k, i)
    BY BeforeBits
  <2>2. QED
    BY <1>1, <2>1
<1>4. z = y /\ k = l
  BY <1>2, <1>3, BeforeOrAfter
<1>5. ByteBits * ByteTable[map][z][k] \in Nat
  BY ByteTableIs, PmmNats
<1>6. QED
  BY <1>4, <1>5 DEF BitOf

-----------------------------------------------------------------------------
(* Bits and blocks.  Each change of a bit changes one bitmap of one zone.  *)

Layout == StorageFits /\ map \in MemoryMaps

LEMMA MarksMember ==
    ASSUME NEW b, NEW z \in Zones, NEW k \in Orders
    PROVE  \A i : i \in Marks(b, z)[k] <=> i \in 0 .. Extent(z, k) /\ BitOf(z, k, i) \in b
BY DEF Marks

LEMMA MarksAre ==
    ASSUME map \in MemoryMaps, NEW b, NEW z \in Zones
    PROVE  Marks(b, z) \in Bitmaps /\ Marks(b, z) = [k \in Orders |-> Marks(b, z)[k]]
<1>1. \A k \in Orders : Extent(z, k) \in Nat
  BY RoomIs
<1>2. \A k \in Orders : Marks(b, z)[k] \subseteq Nat
  BY <1>1, MarksMember
<1>3. Marks(b, z) = [k \in Orders |-> Marks(b, z)[k]]
  BY DEF Marks
<1>4. QED
  BY <1>2, <1>3 DEF Bitmaps

(* A block of zone z: its index is within the bitmap, and so is that of    *)
(* its buddy.                                                              *)
InZone(z, k, i) == i \in Nat /\ Pages(k, i) \subseteq 0 .. (ZoneExtent(map, z) - 1)

LEMMA InZoneIndex ==
    ASSUME map \in MemoryMaps, NEW z \in Zones, NEW k \in Orders, NEW i, InZone(z, k, i)
    PROVE  /\ i \in 0 .. Extent(z, k) /\ BuddyOf(i) \in 0 .. Extent(z, k)
           /\ i < Room(z, k) /\ BuddyOf(i) < Room(z, k)
<1> DEFINE e == ZoneExtent(map, z)  s == Size[k]
<1>1. e \in Nat /\ s \in Nat \ {0} /\ i \in Nat
  BY ZonesAre, SizeAssumption DEF InZone
<1>2. i * s + s - 1 \in Pages(k, i)
  <2>1. i * s \in Nat
    BY <1>1
  <2> DEFINE p == i * s + s - 1
  <2>2. p \in Nat /\ i * s <= p /\ p < i * s + s
    BY <1>1, <2>1
  <2>3. p \in Nat /\ i * Size[k] <= p /\ p < i * Size[k] + Size[k]
    BY <2>2
  <2> HIDE DEF p
  <2>4. p \in Pages(k, i)
    BY <1>1, <2>3, PagesMember
  <2>5. QED
    BY <2>4 DEF p
<1>3. i * s + s - 1 \in 0 .. (e - 1)
  BY <1>2 DEF InZone
<1>4. (i + 1) * s <= e
  <2>1. (i + 1) * s = i * s + s /\ i * s \in Nat
    BY <1>1
  <2> HIDE DEF e, s
  <2>2. QED
    BY <1>1, <1>3, <2>1
<1>5. i + 1 <= e \div s
  BY <1>1, <1>4, Quotient
<1>6. Extent(z, k) = e \div s /\ Extent(z, k) \in Nat
  BY ExtentTableIs DEF Extent
<1>7. i + 1 <= Extent(z, k)
  BY <1>5, <1>6
<1>8. BuddyOf(i) \in Nat /\ BuddyOf(i) <= i + 1
  BY <1>1, BuddyHalves DEF BuddyOf
<1>9. Extent(z, k) < Room(z, k) /\ Room(z, k) \in Nat
  BY RoomIs
<1> HIDE DEF e, s
<1>10. QED
  BY <1>1, <1>6, <1>7, <1>8, <1>9

(* The bitmaps of the other zones stay as they are.                        *)
Elsewhere(b, c, z) == \A y \in Zones : y # z => Marks(c, y) = Marks(b, y)

LEMMA ElsewhereTrans ==
    ASSUME NEW a, NEW b, NEW c, NEW z, Elsewhere(a, b, z), Elsewhere(b, c, z)
    PROVE  Elsewhere(a, c, z)
BY DEF Elsewhere

(* A bit of bitmap (z, k) is a bit of no other one.                        *)
LEMMA OneBit ==
    ASSUME Layout, NEW z \in Zones, NEW k \in Orders, NEW i, i \in 0 .. Extent(z, k),
           NEW y \in Zones, NEW l \in Orders, NEW j, j \in 0 .. Extent(y, l)
    PROVE  BitOf(y, l, j) = BitOf(z, k, i) <=> y = z /\ l = k /\ j = i
<1>1. map \in MemoryMaps /\ StorageFits
  BY DEF Layout
<1>2. /\ Extent(z, k) \in Nat /\ Room(z, k) \in Nat /\ Extent(z, k) < Room(z, k)
      /\ Extent(y, l) \in Nat /\ Room(y, l) \in Nat /\ Extent(y, l) < Room(y, l)
  BY <1>1, RoomIs
<1>3. i \in Nat /\ j \in Nat /\ i < Room(z, k) /\ j < Room(y, l)
  BY <1>2
<1>4. BitOf(y, l, j) = BitOf(z, k, i) => y = z /\ l = k /\ j = i
  BY <1>1, <1>3, BitsDiffer
<1>5. QED
  BY <1>4

LEMMA BitmapsEqual ==
    ASSUME NEW o, NEW n, o = [k \in Orders |-> o[k]], n = [k \in Orders |-> n[k]],
           \A k \in Orders : \A i : i \in o[k] <=> i \in n[k]
    PROVE  o = n
<1>1. \A k \in Orders : o[k] = n[k]
  OBVIOUS
<1>2. QED
  BY <1>1

LEMMA SetBit ==
    ASSUME Layout, NEW z \in Zones, NEW k \in Orders, NEW i, i \in 0 .. Extent(z, k), NEW b
    PROVE  LET c == b \cup {BitOf(z, k, i)}
           IN  /\ Marks(c, z) = [Marks(b, z) EXCEPT ![k] = @ \cup {i}]
               /\ Elsewhere(b, c, z)
<1> DEFINE c == b \cup {BitOf(z, k, i)}
<1>1. map \in MemoryMaps
  BY DEF Layout
<1>2. ASSUME NEW y \in Zones, NEW l \in Orders, NEW j
      PROVE  j \in Marks(c, y)[l] <=> j \in Marks(b, y)[l] \/ (y = z /\ l = k /\ j = i)
  <2>1. j \in 0 .. Extent(y, l) => (BitOf(y, l, j) = BitOf(z, k, i) <=> y = z /\ l = k /\ j = i)
    BY OneBit
  <2>2. QED
    BY <2>1, MarksMember
<1> HIDE DEF c
<1> DEFINE n == [Marks(b, z) EXCEPT ![k] = @ \cup {i}]
<1>3. Marks(c, z) = n
  <2>1. n = [l \in Orders |-> n[l]]
    BY <1>1, MarksAre
  <2>2. \A l \in Orders : \A j : j \in n[l] <=> j \in Marks(b, z)[l] \/ (l = k /\ j = i)
    <3>1. Marks(b, z) = [l \in Orders |-> Marks(b, z)[l]]
      BY <1>1, MarksAre
    <3>2. \A l \in Orders : n[l] = IF l = k THEN Marks(b, z)[l] \cup {i} ELSE Marks(b, z)[l]
      BY <3>1
    <3>3. QED
      BY <3>2
  <2> HIDE DEF n
  <2>3. Marks(c, z) = [l \in Orders |-> Marks(c, z)[l]]
    BY <1>1, MarksAre
  <2>4. QED
    BY <1>2, <2>1, <2>2, <2>3, BitmapsEqual
<1>4. ASSUME NEW y \in Zones, y # z
      PROVE  Marks(c, y) = Marks(b, y)
  <2>1. /\ Marks(c, y) = [l \in Orders |-> Marks(c, y)[l]]
        /\ Marks(b, y) = [l \in Orders |-> Marks(b, y)[l]]
    BY <1>1, MarksAre
  <2>2. QED
    BY <1>2, <1>4, <2>1, BitmapsEqual
<1>5. QED
  BY <1>3, <1>4 DEF Elsewhere, c

LEMMA ClearBit ==
    ASSUME Layout, NEW z \in Zones, NEW k \in Orders, NEW i, i \in 0 .. Extent(z, k), NEW b
    PROVE  LET c == b \ {BitOf(z, k, i)}
           IN  /\ Marks(c, z) = [Marks(b, z) EXCEPT ![k] = @ \ {i}]
               /\ Elsewhere(b, c, z)
<1> DEFINE c == b \ {BitOf(z, k, i)}
<1>1. map \in MemoryMaps
  BY DEF Layout
<1>2. ASSUME NEW y \in Zones, NEW l \in Orders, NEW j
      PROVE  j \in Marks(c, y)[l] <=> j \in Marks(b, y)[l] /\ ~(y = z /\ l = k /\ j = i)
  <2>1. j \in 0 .. Extent(y, l) => (BitOf(y, l, j) = BitOf(z, k, i) <=> y = z /\ l = k /\ j = i)
    BY OneBit
  <2>2. QED
    BY <2>1, MarksMember
<1> HIDE DEF c
<1> DEFINE n == [Marks(b, z) EXCEPT ![k] = @ \ {i}]
<1>3. Marks(c, z) = n
  <2>1. n = [l \in Orders |-> n[l]]
    BY <1>1, MarksAre
  <2>2. \A l \in Orders : \A j : j \in n[l] <=> j \in Marks(b, z)[l] /\ ~(l = k /\ j = i)
    <3>1. Marks(b, z) = [l \in Orders |-> Marks(b, z)[l]]
      BY <1>1, MarksAre
    <3>2. \A l \in Orders : n[l] = IF l = k THEN Marks(b, z)[l] \ {i} ELSE Marks(b, z)[l]
      BY <3>1
    <3>3. QED
      BY <3>2
  <2> HIDE DEF n
  <2>3. Marks(c, z) = [l \in Orders |-> Marks(c, z)[l]]
    BY <1>1, MarksAre
  <2>4. QED
    BY <1>2, <2>1, <2>2, <2>3, BitmapsEqual
<1>4. ASSUME NEW y \in Zones, y # z
      PROVE  Marks(c, y) = Marks(b, y)
  <2>1. /\ Marks(c, y) = [l \in Orders |-> Marks(c, y)[l]]
        /\ Marks(b, y) = [l \in Orders |-> Marks(b, y)[l]]
    BY <1>1, MarksAre
  <2>2. QED
    BY <1>2, <1>4, <2>1, BitmapsEqual
<1>5. QED
  BY <1>3, <1>4 DEF Elsewhere, c

-----------------------------------------------------------------------------
(* Pairs.  While a loop is at block (k, i), that block and its buddy are   *)
(* the only pair of which both may be marked.                              *)

PairAt(o, k, i) ==
    \A l \in Orders : \A j \in o[l] :
        l # MaxOrder /\ BuddyOf(j) \in o[l] => l = k /\ j \in {i, BuddyOf(i)}

LEMMA PairMark ==
    ASSUME NEW o \in Bitmaps, Unpaired(o), NEW k \in Orders, NEW i \in Nat
    PROVE  PairAt([o EXCEPT ![k] = @ \cup {i}], k, i)
<1> DEFINE n == [o EXCEPT ![k] = @ \cup {i}]
<1>1. \A l \in Orders : \A x : x \in n[l] <=> x \in o[l] \/ (l = k /\ x = i)
  BY DEF Bitmaps
<1>2. \A l \in Orders : \A x \in o[l] : x \in Nat
  BY DEF Bitmaps
<1> HIDE DEF n
<1>3. ASSUME NEW l \in Orders, NEW j \in n[l], l # MaxOrder, BuddyOf(j) \in n[l]
      PROVE  l = k /\ j \in {i, BuddyOf(i)}
  <2>1. CASE j \in o[l] /\ BuddyOf(j) \in o[l]
    BY <1>3, <2>1 DEF Unpaired
  <2>2. CASE l = k /\ j = i
    BY <2>2
  <2>3. CASE j \in o[l] /\ l = k /\ BuddyOf(j) = i
    <3>1. BuddyOf(i) = j
      BY <1>2, <2>3, BuddyHalves
    <3>2. QED
      BY <2>3, <3>1
  <2>4. QED
    BY <1>1, <1>3, <2>1, <2>2, <2>3
<1>4. QED
  BY <1>3 DEF PairAt, n

LEMMA PairClear ==
    ASSUME NEW o \in Bitmaps, NEW k \in Orders, NEW i \in Nat, PairAt(o, k, i)
    PROVE  Unpaired([o EXCEPT ![k] = @ \ {i}])
<1> DEFINE n == [o EXCEPT ![k] = @ \ {i}]
<1>1. \A l \in Orders : \A x : x \in n[l] <=> x \in o[l] /\ ~(l = k /\ x = i)
  BY DEF Bitmaps
<1> HIDE DEF n
<1>2. ASSUME NEW l \in Orders, NEW j \in n[l], l # MaxOrder, BuddyOf(j) \in n[l]
      PROVE  FALSE
  <2>1. j \in o[l] /\ BuddyOf(j) \in o[l]
    BY <1>1, <1>2
  <2>2. l = k /\ j \in {i, BuddyOf(i)}
    BY <1>2, <2>1 DEF PairAt
  <2>3. j # i /\ BuddyOf(j) # i
    BY <1>1, <1>2, <2>2
  <2>4. QED
    BY <2>2, <2>3, BuddyHalves
<1>3. QED
  BY <1>2 DEF Unpaired, n

LEMMA PairSplit ==
    ASSUME NEW o \in Bitmaps, NEW k \in Orders, k # 0, NEW i \in Nat, PairAt(o, k, i)
    PROVE  PairAt([o EXCEPT ![k] = @ \ {i}, ![k - 1] = @ \cup {2 * i, 2 * i + 1}], k - 1, 2 * i)
<1> DEFINE n == [o EXCEPT ![k] = @ \ {i}, ![k - 1] = @ \cup {2 * i, 2 * i + 1}]
<1>1. k - 1 \in Orders /\ k - 1 # k /\ 2 * i \in Nat /\ 2 * i + 1 \in Nat
  BY OrderAssumption DEF Orders
<1>2. \A l \in Orders : \A x :
          x \in n[l] <=> (x \in o[l] /\ ~(l = k /\ x = i)) \/ (l = k - 1 /\ x \in {2 * i, 2 * i + 1})
  BY <1>1 DEF Bitmaps
<1>3. \A l \in Orders : \A x \in o[l] : x \in Nat
  BY DEF Bitmaps
<1>4. BuddyOf(2 * i) = 2 * i + 1 /\ BuddyOf(2 * i + 1) = 2 * i
  <2>1. BuddyOf(2 * i) = 2 * i + 1
    BY DEF BuddyOf
  <2>2. QED
    BY <1>1, <2>1, BuddyHalves
<1> HIDE DEF n
<1>5. ASSUME NEW l \in Orders, NEW j \in n[l], l # MaxOrder, BuddyOf(j) \in n[l]
      PROVE  l = k - 1 /\ j \in {2 * i, BuddyOf(2 * i)}
  <2>1. CASE l = k - 1 /\ j \in {2 * i, 2 * i + 1}
    BY <1>4, <2>1
  <2>2. CASE l = k - 1 /\ j \in o[l] /\ BuddyOf(j) \in {2 * i, 2 * i + 1}
    <3>1. BuddyOf(BuddyOf(j)) = j
      BY <1>3, <2>2, BuddyHalves
    <3>2. QED
      BY <1>4, <2>2, <3>1
  <2>3. CASE j \in o[l] /\ ~(l = k /\ j = i) /\ BuddyOf(j) \in o[l] /\ ~(l = k /\ BuddyOf(j) = i)
    <3>1. l = k /\ j \in {i, BuddyOf(i)}
      BY <1>5, <2>3 DEF PairAt
    <3>2. QED
      BY <2>3, <3>1, BuddyHalves
  <2>4. QED
    BY <1>2, <1>5, <2>1, <2>2, <2>3
<1>6. QED
  BY <1>5 DEF PairAt, n

LEMMA PairMerge ==
    ASSUME NEW o \in Bitmaps, NEW k \in Orders, k # MaxOrder, NEW i \in Nat, PairAt(o, k, i)
    PROVE  PairAt([o EXCEPT ![k] = @ \ {i, BuddyOf(i)}, ![k + 1] = @ \cup {i \div 2}],
                  k + 1, i \div 2)
<1> DEFINE q == i \div 2
           n == [o EXCEPT ![k] = @ \ {i, BuddyOf(i)}, ![k + 1] = @ \cup {q}]
<1>1. k + 1 \in Orders /\ k + 1 # k /\ q \in Nat
  <2>1. k + 1 \in Orders /\ k + 1 # k
    BY OrderAssumption DEF Orders
  <2>2. QED
    BY <2>1, BuddyHalves
<1>2. \A l \in Orders : \A x :
          x \in n[l] <=> (x \in o[l] /\ ~(l = k /\ x \in {i, BuddyOf(i)})) \/ (l = k + 1 /\ x = q)
  BY <1>1 DEF Bitmaps
<1>3. \A l \in Orders : \A x \in o[l] : x \in Nat
  BY DEF Bitmaps
<1> HIDE DEF n, q
<1>4. ASSUME NEW l \in Orders, NEW j \in n[l], l # MaxOrder, BuddyOf(j) \in n[l]
      PROVE  l = k + 1 /\ j \in {q, BuddyOf(q)}
  <2>1. CASE l = k + 1 /\ j = q
    BY <2>1
  <2>2. CASE l = k + 1 /\ j \in o[l] /\ BuddyOf(j) = q
    <3>1. BuddyOf(BuddyOf(j)) = j
      BY <1>3, <2>2, BuddyHalves
    <3>2. QED
      BY <2>2, <3>1
  <2>3. CASE j \in o[l] /\ ~(l = k /\ j \in {i, BuddyOf(i)}) /\ BuddyOf(j) \in o[l]
    BY <1>4, <2>3 DEF PairAt
  <2>4. QED
    BY <1>2, <1>4, <2>1, <2>2, <2>3
<1>5. QED
  BY <1>4 DEF PairAt, n, q

-----------------------------------------------------------------------------
(* The splitting loop of buddy_alloc                                       *)

SplitStep == [s \in SplitStates |-> SplitRound(s)]
SplitRank == [s \in SplitStates |-> s.order - s.want]

LEMMA SplitFields ==
    ASSUME NEW s \in SplitStates
    PROVE  /\ s.bits \subseteq Nat /\ s.zone \in Zones /\ s.order \in Orders
           /\ s.idx \in Nat /\ s.want \in Orders /\ s.want <= s.order
           /\ s.order \in Nat /\ s.want \in Nat
           /\ LET k == s.order
                  i == s.idx
                  z == s.zone
              IN  SplitRound(s) =
                    [bits |-> (s.bits \ {BitOf(z, k, i)})
                                  \cup {BitOf(z, k - 1, 2 * i), BitOf(z, k - 1, 2 * i + 1)},
                     zone |-> z, order |-> k - 1, idx |-> 2 * i, want |-> s.want]
<1>1. /\ s \in [bits : SUBSET Nat, zone : Zones, order : Orders, idx : Nat, want : Orders]
      /\ s.want <= s.order
  BY DEF SplitStates
<1>2. /\ s.bits \subseteq Nat /\ s.zone \in Zones /\ s.order \in Orders
      /\ s.idx \in Nat /\ s.want \in Orders
  BY <1>1
<1>3. s.order \in Nat /\ s.want \in Nat
  BY <1>2, OrderAssumption DEF Orders
<1> DEFINE k == s.order  i == s.idx  z == s.zone
           c == (s.bits \ {BitOf(z, k, i)})
                    \cup {BitOf(z, k - 1, 2 * i), BitOf(z, k - 1, 2 * i + 1)}
<1>4. SplitRound(s) = [bits |-> c, zone |-> z, order |-> k - 1, idx |-> 2 * i, want |-> s.want]
  BY DEF SplitRound
<1>5. QED
  BY <1>1, <1>2, <1>3, <1>4

LEMMA SplitDecreases ==
    ASSUME map \in MemoryMaps
    PROVE  Decreasing(SplitStates, SplitStep, SplitRank)
<1>1. ASSUME NEW s \in SplitStates
      PROVE  SplitRank[s] = s.order - s.want /\ SplitRank[s] \in Nat /\ SplitStep[s] = SplitRound(s)
  BY SplitFields DEF SplitRank, SplitStep
<1>2. SplitRank \in [SplitStates -> Nat]
  BY <1>1 DEF SplitRank
<1>3. ASSUME NEW s \in SplitStates, SplitRank[s] # 0
      PROVE  SplitStep[s] \in SplitStates /\ SplitRank[SplitStep[s]] < SplitRank[s]
  <2> DEFINE k == s.order  i == s.idx  z == s.zone
             c == (s.bits \ {BitOf(z, k, i)})
                      \cup {BitOf(z, k - 1, 2 * i), BitOf(z, k - 1, 2 * i + 1)}
  <2>1. /\ s.bits \subseteq Nat /\ z \in Zones /\ k \in Orders /\ i \in Nat /\ s.want \in Orders
        /\ s.want <= k /\ k \in Nat /\ s.want \in Nat
        /\ SplitRound(s) = [bits |-> c, zone |-> z, order |-> k - 1, idx |-> 2 * i, want |-> s.want]
    BY SplitFields
  <2>2. s.want <= k - 1 /\ k - 1 \in Orders
    BY <1>1, <1>3, <2>1, OrderAssumption DEF Orders
  <2>3. 2 * i \in Nat /\ 2 * i + 1 \in Nat
    BY <2>1
  <2>4. BitOf(z, k - 1, 2 * i) \in Nat /\ BitOf(z, k - 1, 2 * i + 1) \in Nat
    BY <2>1, <2>2, <2>3, RoomIs
  <2>5. c \subseteq Nat
    BY <2>1, <2>4
  <2> HIDE DEF c, k, i, z
  <2>6. SplitRound(s) \in SplitStates
    BY <2>1, <2>2, <2>3, <2>5 DEF SplitStates
  <2>7. SplitRound(s).order = k - 1 /\ SplitRound(s).want = s.want
    BY <2>1
  <2>8. SplitRank[SplitRound(s)] = (k - 1) - s.want
    BY <1>1, <2>6, <2>7
  <2>9. QED
    BY <1>1, <2>1, <2>6, <2>8 DEF k
<1>4. QED
  BY <1>2, <1>3 DEF Decreasing

LEMMA SplitIs ==
    ASSUME map \in MemoryMaps
    PROVE  \A s \in SplitStates :
               Split[s] = IF SplitRank[s] = 0 THEN s ELSE Split[SplitStep[s]]
<1> DEFINE R(f) == f = [s \in SplitStates |->
                          IF s.order = s.want THEN s ELSE f[SplitRound(s)]]
<1>1. Split = CHOOSE f : R(f)
  BY DEF Split
<1>2. ASSUME NEW s \in SplitStates
      PROVE  (SplitRank[s] = 0 <=> s.order = s.want) /\ SplitStep[s] = SplitRound(s)
  BY SplitFields DEF SplitRank, SplitStep
<1>3. PICK f : /\ f = [s \in SplitStates |-> f[s]]
               /\ \A s \in SplitStates : f[s] = IF SplitRank[s] = 0 THEN s ELSE f[SplitStep[s]]
  BY SplitDecreases, LoopExists
<1>4. R(f)
  BY <1>2, <1>3
<1>5. R(Split)
  BY <1>1, <1>4
<1>6. \A s \in SplitStates : Split[s] = IF s.order = s.want THEN s ELSE Split[SplitRound(s)]
  BY <1>5
<1>7. QED
  BY <1>2, <1>6

(* The free blocks of a zone are within it and apart.                      *)
Framed(o, z) == Apart(o) /\ Covered(o) \subseteq 0 .. (ZoneExtent(map, z) - 1)

Sound(b) == \A z \in Zones : Framed(Marks(b, z), z) /\ Unpaired(Marks(b, z))

LEMMA MarkedInZone ==
    ASSUME map \in MemoryMaps, NEW b, NEW z \in Zones, Framed(Marks(b, z), z),
           NEW k \in Orders, NEW i \in Marks(b, z)[k]
    PROVE  InZone(z, k, i) /\ Pages(k, i) \subseteq Covered(Marks(b, z))
<1>1. i \in Nat
  BY MarksAre DEF Bitmaps
<1>2. Pages(k, i) \subseteq Covered(Marks(b, z))
  BY CoveredMember
<1>3. QED
  BY <1>1, <1>2 DEF Framed, InZone

(* What a round keeps: the block in hand starts at page x of the zone.     *)
SplitKept(b, z, want, x) ==
    {s \in SplitStates :
        /\ s.zone = z /\ s.want = want
        /\ Elsewhere(b, s.bits, z)
        /\ Framed(Marks(s.bits, z), z)
        /\ Covered(Marks(s.bits, z)) = Covered(Marks(b, z))
        /\ s.idx \in Marks(s.bits, z)[s.order]
        /\ s.idx * Size[s.order] = x
        /\ PairAt(Marks(s.bits, z), s.order, s.idx)}

LEMMA SplitStepKeeps ==
    ASSUME Layout, NEW b, NEW z \in Zones, NEW want, NEW x,
           NEW s \in SplitKept(b, z, want, x), SplitRank[s] # 0
    PROVE  SplitStep[s] \in SplitKept(b, z, want, x)
<1>0. map \in MemoryMaps /\ s \in SplitStates
  BY DEF Layout, SplitKept
<1> DEFINE k == s.order  i == s.idx  o == Marks(s.bits, z)
           b1 == s.bits \ {BitOf(z, k, i)}
           b2 == b1 \cup {BitOf(z, k - 1, 2 * i)}
           b3 == b2 \cup {BitOf(z, k - 1, 2 * i + 1)}
           n == [o EXCEPT ![k] = @ \ {i}, ![k - 1] = @ \cup {2 * i, 2 * i + 1}]
<1>1. /\ s.zone = z /\ s.want = want /\ Elsewhere(b, s.bits, z) /\ Framed(o, z)
      /\ Covered(o) = Covered(Marks(b, z)) /\ i \in o[k] /\ i * Size[k] = x /\ PairAt(o, k, i)
  BY DEF SplitKept
<1>2. k \in Orders /\ k # 0 /\ k - 1 \in Orders /\ i \in Nat /\ k - 1 # k
  <2>1. k \in Orders /\ i \in Nat /\ k \in Nat /\ s.want \in Nat /\ s.want <= k
    BY <1>0, SplitFields
  <2>2. SplitRank[s] = k - s.want
    BY <1>0 DEF SplitRank
  <2>3. k # 0
    BY <2>1, <2>2
  <2>4. QED
    BY <2>1, <2>3, OrderAssumption DEF Orders
<1>3. SplitStep[s] = [bits |-> b3, zone |-> z, order |-> k - 1, idx |-> 2 * i, want |-> want]
  <2>1. SplitStep[s] = SplitRound(s)
    BY <1>0 DEF SplitStep
  <2>2. SplitRound(s) = [bits |-> b1 \cup {BitOf(z, k - 1, 2 * i), BitOf(z, k - 1, 2 * i + 1)},
                         zone |-> z, order |-> k - 1, idx |-> 2 * i, want |-> want]
    BY <1>0, <1>1, SplitFields
  <2>3. b3 = b1 \cup {BitOf(z, k - 1, 2 * i), BitOf(z, k - 1, 2 * i + 1)}
    OBVIOUS
  <2> HIDE DEF b3
  <2>4. QED
    BY <2>1, <2>2, <2>3
<1>4. SplitStep[s] \in SplitStates
  BY <1>0, SplitDecreases DEF Decreasing
<1>5. o \in Bitmaps
  BY <1>0, MarksAre
<1>6. InZone(z, k, i) /\ InZone(z, k - 1, 2 * i) /\ InZone(z, k - 1, 2 * i + 1)
  <2>1. InZone(z, k, i)
    BY <1>0, <1>1, <1>2, MarkedInZone
  <2>2. Pages(k, i) = Pages(k - 1, 2 * i) \cup Pages(k - 1, 2 * i + 1)
    BY <1>2, PagesSplit
  <2>3. 2 * i \in Nat /\ 2 * i + 1 \in Nat
    BY <1>2
  <2> HIDE DEF k, i
  <2>4. QED
    BY <2>1, <2>2, <2>3 DEF InZone
<1>7. /\ i \in 0 .. Extent(z, k) /\ 2 * i \in 0 .. Extent(z, k - 1)
      /\ 2 * i + 1 \in 0 .. Extent(z, k - 1)
  BY <1>0, <1>2, <1>6, InZoneIndex
<1>8. /\ Marks(b1, z) = [o EXCEPT ![k] = @ \ {i}]
      /\ Elsewhere(s.bits, b1, z)
  BY <1>2, <1>7, ClearBit
<1>9. /\ Marks(b2, z) = [Marks(b1, z) EXCEPT ![k - 1] = @ \cup {2 * i}]
      /\ Elsewhere(b1, b2, z)
  <2> HIDE DEF b1, k, i
  <2>1. QED
    BY <1>2, <1>7, SetBit
<1>10. /\ Marks(b3, z) = [Marks(b2, z) EXCEPT ![k - 1] = @ \cup {2 * i + 1}]
       /\ Elsewhere(b2, b3, z)
  <2> HIDE DEF b2, k, i
  <2>1. QED
    BY <1>2, <1>7, SetBit
<1> HIDE DEF b1, b2, b3
<1>11. Marks(b3, z) = n
  <2> HIDE DEF o, k, i
  <2>1. QED
    BY <1>2, <1>5, <1>8, <1>9, <1>10 DEF Bitmaps
<1>12. Elsewhere(b, b3, z)
  BY <1>1, <1>8, <1>9, <1>10, ElsewhereTrans
<1>13. n \in Bitmaps /\ Apart(n) /\ Covered(n) = Covered(o)
  <2> HIDE DEF o, k, i
  <2>1. Apart(o) /\ i \in o[k]
    BY <1>1 DEF Framed
  <2>2. QED
    BY <1>2, <1>5, <2>1, SplitBlock
<1>14. PairAt(n, k - 1, 2 * i)
  <2> HIDE DEF o, k, i
  <2>1. QED
    BY <1>1, <1>2, <1>5, PairSplit
<1>15. 2 * i \in n[k - 1]
  <2> HIDE DEF o, k, i
  <2>1. QED
    BY <1>2, <1>5 DEF Bitmaps
<1>16. (2 * i) * Size[k - 1] = x
  <2> HIDE DEF k, i
  <2>1. Size[k] = 2 * Size[k - 1] /\ Size[k - 1] \in Nat
    BY <1>2, SizeAssumption, OrderAssumption DEF Orders
  <2>2. (2 * i) * Size[k - 1] = i * (2 * Size[k - 1])
    BY <1>2, <2>1
  <2>3. QED
    BY <1>1, <2>1, <2>2
<1>17. Framed(n, z)
  BY <1>1, <1>13 DEF Framed
<1> DEFINE t == SplitStep[s]
<1>18. t.bits = b3 /\ t.zone = z /\ t.order = k - 1 /\ t.idx = 2 * i /\ t.want = want
  BY <1>3
<1> HIDE DEF t, n, o, k, i
<1>19. t \in SplitKept(b, z, want, x)
  BY <1>1, <1>4, <1>11, <1>12, <1>13, <1>14, <1>15, <1>16, <1>17, <1>18 DEF SplitKept, t
<1>20. QED
  BY <1>19 DEF t

LEMMA OrderOf ==
    ASSUME NEW num \in Nat, ~TooLarge(num)
    PROVE  LET k == log2_roundup(num)
           IN  k \in Orders /\ num <= Size[k] /\ \A j \in Orders : num <= Size[j] => k <= j
<1> DEFINE T == {k \in Orders : num <= Size[k]}
<1>1. T \subseteq Nat
  BY OrderAssumption DEF Orders
<1>2. MaxOrder \in T
  BY SizePos, OrderAssumption DEF TooLarge, Orders
<1>3. Min(T) \in T /\ \A y \in T : Min(T) <= y
  BY <1>1, <1>2, MinOf
<1>4. log2_roundup(num) = Min(T)
  BY DEF log2_roundup
<1>5. QED
  BY <1>3, <1>4

LEMMA FirstSetIs ==
    ASSUME map \in MemoryMaps, NEW b, NEW z \in Zones, NEW k \in Orders
    PROVE  LET i == bitmap_first_set(b, z, k)
           IN  /\ i = -1 <=> Marks(b, z)[k] = {}
               /\ i # -1 => i \in Marks(b, z)[k]
<1> DEFINE T == {i \in 0 .. (Room(z, k) - 1) : BitOf(z, k, i) \in b}
           f == bitmap_first_set(b, z, k)
<1>1. Extent(z, k) \in Nat /\ Room(z, k) \in Nat /\ Extent(z, k) < Room(z, k)
  BY RoomIs
<1>2. f = IF T = {} \/ Min(T) > Extent(z, k) THEN -1 ELSE Min(T)
  BY DEF bitmap_first_set, Room
<1>3. \A i : i \in Marks(b, z)[k] <=> i \in T /\ i <= Extent(z, k)
  BY <1>1, MarksMember
<1>4. T \subseteq Nat
  BY <1>1
<1> HIDE DEF T, f
<1>5. CASE T = {}
  BY <1>2, <1>3, <1>5 DEF f
<1>6. CASE T # {}
  <2>1. Min(T) \in T /\ \A y \in T : Min(T) <= y
    BY <1>4, <1>6, MinOf
  <2>2. Min(T) \in Nat
    BY <1>4, <2>1
  <2>3. CASE Min(T) > Extent(z, k)
    <3>1. \A y \in T : ~(y <= Extent(z, k))
      BY <1>1, <1>4, <2>1, <2>2, <2>3
    <3>2. QED
      BY <1>2, <1>3, <2>3, <3>1 DEF f
  <2>4. CASE ~(Min(T) > Extent(z, k))
    <3>1. f = Min(T) /\ f # -1
      BY <1>2, <1>6, <2>2, <2>4
    <3>2. f \in Marks(b, z)[k]
      BY <1>1, <1>3, <2>1, <2>2, <2>4, <3>1
    <3>3. QED
      BY <3>1, <3>2 DEF f
  <2>5. QED
    BY <2>3, <2>4
<1>7. QED
  BY <1>5, <1>6

(* All other zones are as sound as before.                                 *)
LEMMA SoundElsewhere ==
    ASSUME NEW b, NEW c, NEW z \in Zones, Sound(b), Elsewhere(b, c, z),
           Framed(Marks(c, z), z), Unpaired(Marks(c, z))
    PROVE  Sound(c)
<1>1. ASSUME NEW y \in Zones PROVE Framed(Marks(c, y), y) /\ Unpaired(Marks(c, y))
  <2>1. CASE y = z
    BY <2>1
  <2>2. CASE y # z
    BY <2>2 DEF Sound, Elsewhere
  <2>3. QED
    BY <2>1, <2>2
<1>2. QED
  BY <1>1 DEF Sound

(* buddy_alloc fails if nothing large enough is marked, and else takes one *)
(* block out of the free pages of the zone.                                *)
Takes(b, c, z, k, i) ==
    /\ i \in Nat /\ Pages(k, i) \subseteq Covered(Marks(b, z))
    /\ Covered(Marks(c, z)) = Covered(Marks(b, z)) \ Pages(k, i)
    /\ Elsewhere(b, c, z)
    /\ Sound(c)

LEMMA AllocEffect ==
    ASSUME Layout, NEW b, b \subseteq Nat, Sound(b), NEW z \in Zones, NEW num \in Nat, ~TooLarge(num)
    PROVE  LET got == buddy_alloc(b, z, num)
               want == log2_roundup(num)
           IN  \/ /\ got = [bits |-> b, page |-> Fail]
                  /\ \A k \in want .. MaxOrder : Marks(b, z)[k] = {}
               \/ \E i \in Nat, c \in SUBSET Nat :
                     /\ got = [bits |-> c, page |-> ZoneStart(z) + i * Size[want]]
                     /\ Takes(b, c, z, want, i)
<1>0. map \in MemoryMaps
  BY DEF Layout
<1> DEFINE want == log2_roundup(num)
           found == {k \in want .. MaxOrder : bitmap_first_set(b, z, k) # -1}
           k0 == Min(found)
           i0 == bitmap_first_set(b, z, k0)
           s0 == [bits |-> b, zone |-> z, order |-> k0, idx |-> i0, want |-> want]
           s == Split[s0]
           c == s.bits \ {BitOf(z, want, s.idx)}
           got == buddy_alloc(b, z, num)
<1>1. want \in Orders
  BY OrderOf
<1>2. got = IF found = {} THEN [bits |-> b, page |-> Fail]
            ELSE [bits |-> c, page |-> ZoneStart(z) + s.idx * Size[want]]
  BY DEF buddy_alloc
<1>3. \A k \in want .. MaxOrder : k \in Orders /\ k \in Nat /\ want <= k
  BY <1>1, OrderAssumption DEF Orders
<1> HIDE DEF want
<1>4. CASE found = {}
  <2>1. \A k \in want .. MaxOrder : Marks(b, z)[k] = {}
    BY <1>0, <1>3, <1>4, FirstSetIs
  <2>2. QED
    BY <1>2, <1>4, <2>1 DEF want
<1>5. CASE found # {}
  <2>1. k0 \in found
    <3>1. found \subseteq Nat
      BY <1>3
    <3> HIDE DEF found
    <3>2. QED
      BY <1>5, <3>1, MinOf
  <2>2. k0 \in Orders /\ want <= k0 /\ i0 # -1
    BY <1>3, <2>1
  <2> HIDE DEF k0, found
  <2>3. i0 \in Marks(b, z)[k0]
    BY <1>0, <2>2, FirstSetIs
  <2> HIDE DEF i0
  <2>4. i0 \in Nat /\ Marks(b, z) \in Bitmaps
    BY <1>0, <2>2, <2>3, MarksAre DEF Bitmaps
  <2>5. Framed(Marks(b, z), z) /\ Unpaired(Marks(b, z))
    BY DEF Sound
  <2> DEFINE J == SplitKept(b, z, want, i0 * Size[k0])
  <2>6. s0 \in SplitStates
    BY <1>1, <2>2, <2>4 DEF SplitStates
  <2>7. s0 \in J
    <3>1. Elsewhere(b, b, z)
      BY DEF Elsewhere
    <3>2. PairAt(Marks(b, z), k0, i0)
      BY <2>5 DEF Unpaired, PairAt
    <3>3. /\ s0.bits = b /\ s0.zone = z /\ s0.order = k0 /\ s0.idx = i0 /\ s0.want = want
      OBVIOUS
    <3> HIDE DEF s0
    <3>4. QED
      BY <2>3, <2>5, <2>6, <3>1, <3>2, <3>3 DEF SplitKept
  <2> HIDE DEF s0
  <2>8. s \in J /\ SplitRank[s] = 0
    <3>1. J \subseteq SplitStates
      BY DEF SplitKept
    <3>2. \A t \in J : SplitRank[t] # 0 => SplitStep[t] \in J
      BY SplitStepKeeps
    <3>3. Decreasing(SplitStates, SplitStep, SplitRank)
      BY <1>0, SplitDecreases
    <3>4. \A t \in SplitStates : Split[t] = IF SplitRank[t] = 0 THEN t ELSE Split[SplitStep[t]]
      BY <1>0, SplitIs
    <3> HIDE DEF J
    <3>5. QED
      BY <2>7, <3>1, <3>2, <3>3, <3>4, LoopKeeps
  <2> HIDE DEF s
  <2> DEFINE i == s.idx  o == Marks(s.bits, z)
  <2>9. /\ s \in SplitStates /\ Elsewhere(b, s.bits, z) /\ Framed(o, z)
        /\ Covered(o) = Covered(Marks(b, z)) /\ i \in o[s.order] /\ PairAt(o, s.order, i)
        /\ s.want = want
    BY <2>8 DEF SplitKept
  <2>10. s.order = want /\ s.bits \subseteq Nat /\ i \in Nat
    BY <2>8, <2>9, SplitFields DEF SplitRank
  <2>11. InZone(z, want, i) /\ Pages(want, i) \subseteq Covered(o)
    BY <1>0, <1>1, <2>9, <2>10, MarkedInZone
  <2>12. i \in 0 .. Extent(z, want)
    BY <1>0, <1>1, <2>11, InZoneIndex
  <2>13. Marks(c, z) = [o EXCEPT ![want] = @ \ {i}] /\ Elsewhere(s.bits, c, z)
    <3> HIDE DEF i
    <3>1. QED
      BY <1>1, <2>12, ClearBit DEF i
  <2>14. o \in Bitmaps
    BY <1>0, MarksAre
  <2> HIDE DEF o, i, c
  <2>15. Apart(Marks(c, z)) /\ Covered(Marks(c, z)) = Covered(o) \ Pages(want, i)
    <3>1. Apart(o) /\ i \in o[want]
      BY <2>9, <2>10 DEF Framed
    <3>2. QED
      BY <1>1, <2>13, <2>14, <3>1, ClearBlock, ZenonT(60)
  <2>16. Unpaired(Marks(c, z))
    BY <1>1, <2>9, <2>10, <2>13, <2>14, PairClear, ZenonT(60)
  <2>17. Framed(Marks(c, z), z)
    BY <2>9, <2>15 DEF Framed
  <2>18. Elsewhere(b, c, z)
    BY <2>9, <2>13, ElsewhereTrans
  <2>19. Sound(c)
    BY <2>16, <2>17, <2>18, SoundElsewhere
  <2>20. Takes(b, c, z, want, i)
    BY <2>9, <2>10, <2>11, <2>15, <2>18, <2>19 DEF Takes
  <2>21. c \in SUBSET Nat
    BY <2>10 DEF c
  <2>22. got = [bits |-> c, page |-> ZoneStart(z) + i * Size[want]]
    BY <1>2, <1>5 DEF i, c
  <2>23. QED
    BY <2>10, <2>20, <2>21, <2>22 DEF want
<1>6. QED
  BY <1>4, <1>5

-----------------------------------------------------------------------------
(* The merging loop of buddy_free                                          *)

MergeEnds(s) == s.order = MaxOrder \/ BitOf(s.zone, s.order, BuddyOf(s.idx)) \notin s.bits

MergeStep == [s \in MergeStates |-> MergeRound(s)]
MergeRank == [s \in MergeStates |-> IF MergeEnds(s) THEN 0 ELSE MaxOrder - s.order]

LEMMA MergeFields ==
    ASSUME NEW s \in MergeStates
    PROVE  /\ s.bits \subseteq Nat /\ s.zone \in Zones /\ s.order \in Orders /\ s.idx \in Nat
           /\ s.order \in Nat /\ s.order <= MaxOrder
           /\ (MergeRank[s] = 0 <=> MergeEnds(s))
           /\ MergeRank[s] \in Nat /\ MergeRank[s] <= MaxOrder - s.order
           /\ MergeStep[s] = MergeRound(s)
<1>1. s.bits \subseteq Nat /\ s.zone \in Zones /\ s.order \in Orders /\ s.idx \in Nat
  BY DEF MergeStates
<1>2. s.order \in Nat /\ s.order <= MaxOrder /\ MaxOrder - s.order \in Nat
  BY <1>1, OrderAssumption DEF Orders
<1>3. MergeStep[s] = MergeRound(s) /\ MergeRank[s] = IF MergeEnds(s) THEN 0 ELSE MaxOrder - s.order
  BY DEF MergeStep, MergeRank
<1>4. ~MergeEnds(s) => MaxOrder - s.order # 0
  BY <1>2, OrderAssumption DEF MergeEnds
<1>5. QED
  BY <1>1, <1>2, <1>3, <1>4

LEMMA MergeDecreases ==
    ASSUME map \in MemoryMaps
    PROVE  Decreasing(MergeStates, MergeStep, MergeRank)
<1>1. MergeRank \in [MergeStates -> Nat]
  <2>1. MergeRank = [s \in MergeStates |-> MergeRank[s]]
    BY DEF MergeRank
  <2>2. QED
    BY <2>1, MergeFields
<1>2. ASSUME NEW s \in MergeStates, MergeRank[s] # 0
      PROVE  MergeStep[s] \in MergeStates /\ MergeRank[MergeStep[s]] < MergeRank[s]
  <2> DEFINE k == s.order  i == s.idx  z == s.zone  q == i \div 2
             c == (s.bits \ {BitOf(z, k, i), BitOf(z, k, BuddyOf(i))}) \cup {BitOf(z, k + 1, q)}
  <2>1. /\ s.bits \subseteq Nat /\ z \in Zones /\ k \in Orders /\ i \in Nat /\ k \in Nat
        /\ ~MergeEnds(s) /\ MergeStep[s] = MergeRound(s)
    BY <1>2, MergeFields
  <2>2. k + 1 \in Orders /\ k # MaxOrder
    BY <2>1, OrderAssumption DEF Orders, MergeEnds
  <2>3. q \in Nat
    BY <2>1, BuddyHalves
  <2>4. BitOf(z, k + 1, q) \in Nat
    BY <2>1, <2>2, <2>3, RoomIs
  <2>5. c \subseteq Nat
    BY <2>1, <2>4
  <2>6. MergeRound(s) = [bits |-> c, zone |-> z, order |-> k + 1, idx |-> q]
    BY DEF MergeRound
  <2> HIDE DEF c, q
  <2>7. MergeRound(s) \in MergeStates /\ MergeRound(s).order = k + 1
    BY <2>1, <2>2, <2>3, <2>5, <2>6 DEF MergeStates
  <2>8. MergeRank[MergeRound(s)] \in Nat /\ MergeRank[MergeRound(s)] <= MaxOrder - (k + 1)
    BY <2>7, MergeFields
  <2>9. MergeRank[s] = MaxOrder - k
    BY <2>1 DEF MergeRank
  <2>10. QED
    BY <2>1, <2>7, <2>8, <2>9, OrderAssumption
<1>3. QED
  BY <1>1, <1>2 DEF Decreasing

LEMMA MergeIs ==
    ASSUME map \in MemoryMaps
    PROVE  \A s \in MergeStates :
               Merge[s] = IF MergeRank[s] = 0 THEN s ELSE Merge[MergeStep[s]]
<1> DEFINE R(f) == f = [s \in MergeStates |->
               IF s.order = MaxOrder \/ BitOf(s.zone, s.order, BuddyOf(s.idx)) \notin s.bits
               THEN s ELSE f[MergeRound(s)]]
           Q(f) == f = [s \in MergeStates |-> IF MergeEnds(s) THEN s ELSE f[MergeRound(s)]]
<1>1. Merge = CHOOSE f : R(f)
  BY DEF Merge
<1>2. \A f : R(f) <=> Q(f)
  BY DEF MergeEnds
<1> HIDE DEF R
<1>3. ASSUME NEW s \in MergeStates
      PROVE  (MergeRank[s] = 0 <=> MergeEnds(s)) /\ MergeStep[s] = MergeRound(s)
  BY MergeFields
<1>4. PICK f : /\ f = [s \in MergeStates |-> f[s]]
               /\ \A s \in MergeStates : f[s] = IF MergeRank[s] = 0 THEN s ELSE f[MergeStep[s]]
  BY MergeDecreases, LoopExists
<1>5. Q(f)
  BY <1>3, <1>4
<1>6. Q(Merge)
  BY <1>1, <1>2, <1>5
<1>7. \A s \in MergeStates : Merge[s] = IF MergeEnds(s) THEN s ELSE Merge[MergeRound(s)]
  BY <1>6
<1>8. QED
  BY <1>3, <1>7

(* What a round keeps; F is the set of the free pages of the zone.         *)
MergeKept(b, z, F) ==
    {s \in MergeStates :
        /\ s.zone = z
        /\ Elsewhere(b, s.bits, z)
        /\ Framed(Marks(s.bits, z), z)
        /\ Covered(Marks(s.bits, z)) = F
        /\ s.idx \in Marks(s.bits, z)[s.order]
        /\ PairAt(Marks(s.bits, z), s.order, s.idx)}

LEMMA MergeStepKeeps ==
    ASSUME Layout, NEW b, NEW z \in Zones, NEW F,
           NEW s \in MergeKept(b, z, F), MergeRank[s] # 0
    PROVE  MergeStep[s] \in MergeKept(b, z, F)
<1>0. map \in MemoryMaps /\ s \in MergeStates
  BY DEF Layout, MergeKept
<1> DEFINE k == s.order  i == s.idx  o == Marks(s.bits, z)  q == i \div 2  j == BuddyOf(i)
           b1 == s.bits \ {BitOf(z, k, i)}
           b2 == b1 \ {BitOf(z, k, j)}
           b3 == b2 \cup {BitOf(z, k + 1, q)}
           n == [o EXCEPT ![k] = @ \ {i, j}, ![k + 1] = @ \cup {q}]
<1>1. /\ s.zone = z /\ Elsewhere(b, s.bits, z) /\ Framed(o, z)
      /\ Covered(o) = F /\ i \in o[k] /\ PairAt(o, k, i)
  BY DEF MergeKept
<1>2. k \in Orders /\ k # MaxOrder /\ k + 1 \in Orders /\ i \in Nat /\ k + 1 # k
  <2>1. k \in Orders /\ i \in Nat /\ ~MergeEnds(s)
    BY <1>0, MergeFields
  <2>2. QED
    BY <2>1, OrderAssumption DEF Orders, MergeEnds
<1>3. MergeStep[s] = [bits |-> b3, zone |-> z, order |-> k + 1, idx |-> q]
  <2>1. MergeStep[s] = MergeRound(s)
    BY <1>0, MergeFields
  <2>2. MergeRound(s) = [bits |-> (s.bits \ {BitOf(z, k, i), BitOf(z, k, j)}) \cup {BitOf(z, k + 1, q)},
                         zone |-> z, order |-> k + 1, idx |-> q]
    BY <1>1 DEF MergeRound
  <2>3. b3 = (s.bits \ {BitOf(z, k, i), BitOf(z, k, j)}) \cup {BitOf(z, k + 1, q)}
    OBVIOUS
  <2> HIDE DEF b3, q, j
  <2>4. QED
    BY <2>1, <2>2, <2>3
<1>4. MergeStep[s] \in MergeStates
  BY <1>0, MergeDecreases DEF Decreasing
<1>5. o \in Bitmaps
  BY <1>0, MarksAre
<1>6. InZone(z, k, i)
  BY <1>0, <1>1, <1>2, MarkedInZone
<1>7. i \in 0 .. Extent(z, k) /\ j \in 0 .. Extent(z, k)
  BY <1>0, <1>2, <1>6, InZoneIndex
<1>8. j \in o[k]
  <2>1. BitOf(z, k, j) \in s.bits
    BY <1>0, <1>1, MergeFields DEF MergeEnds
  <2> HIDE DEF j
  <2>2. QED
    BY <1>2, <1>7, <2>1, MarksMember
<1>9. InZone(z, k, j)
  BY <1>0, <1>1, <1>2, <1>8, MarkedInZone
<1>10. q \in Nat /\ InZone(z, k + 1, q)
  <2>1. q \in Nat /\ {i, j} = {2 * q, 2 * q + 1}
    BY <1>2, BuddyHalves
  <2>2. (k + 1) - 1 = k /\ k + 1 # 0
    BY <1>2, OrderAssumption DEF Orders
  <2> HIDE DEF q, j, i, k
  <2>3. Pages(k + 1, q) = Pages(k, 2 * q) \cup Pages(k, 2 * q + 1)
    BY <1>2, <2>1, <2>2, PagesSplit
  <2>4. Pages(k + 1, q) \subseteq Pages(k, i) \cup Pages(k, j)
    BY <2>1, <2>3
  <2>5. QED
    BY <1>6, <1>9, <2>1, <2>4 DEF InZone
<1>11. q \in 0 .. Extent(z, k + 1)
  BY <1>0, <1>2, <1>10, InZoneIndex
<1> HIDE DEF q, j
<1>12. /\ Marks(b1, z) = [o EXCEPT ![k] = @ \ {i}]
       /\ Elsewhere(s.bits, b1, z)
  BY <1>2, <1>7, ClearBit
<1>13. /\ Marks(b2, z) = [Marks(b1, z) EXCEPT ![k] = @ \ {j}]
       /\ Elsewhere(b1, b2, z)
  <2> HIDE DEF b1, k, i
  <2>1. QED
    BY <1>2, <1>7, ClearBit
<1>14. /\ Marks(b3, z) = [Marks(b2, z) EXCEPT ![k + 1] = @ \cup {q}]
       /\ Elsewhere(b2, b3, z)
  <2> HIDE DEF b2, k, i
  <2>1. QED
    BY <1>2, <1>11, SetBit
<1> HIDE DEF b1, b2, b3
<1>15. Marks(b3, z) = n
  <2> HIDE DEF o, k, i
  <2>1. QED
    BY <1>2, <1>5, <1>12, <1>13, <1>14 DEF Bitmaps
<1>16. Elsewhere(b, b3, z)
  BY <1>1, <1>12, <1>13, <1>14, ElsewhereTrans
<1>17. n \in Bitmaps /\ Apart(n) /\ Covered(n) = Covered(o)
  <2>1. Apart(o) /\ i \in o[k] /\ BuddyOf(i) \in o[k]
    BY <1>1, <1>8 DEF Framed, j
  <2>2. n = [o EXCEPT ![k] = @ \ {i, BuddyOf(i)}, ![k + 1] = @ \cup {i \div 2}]
    BY DEF j, q
  <2> HIDE DEF o, k, i, n
  <2>3. QED
    BY <1>2, <1>5, <2>1, <2>2, MergeBlock, ZenonT(60)
<1>18. PairAt(n, k + 1, q)
  <2>1. n = [o EXCEPT ![k] = @ \ {i, BuddyOf(i)}, ![k + 1] = @ \cup {i \div 2}] /\ q = i \div 2
    BY DEF j, q
  <2> HIDE DEF o, k, i, n
  <2>2. QED
    BY <1>1, <1>2, <1>5, <2>1, PairMerge
<1>19. q \in n[k + 1]
  <2> HIDE DEF o, k, i
  <2>1. QED
    BY <1>2, <1>5 DEF Bitmaps
<1>20. Framed(n, z)
  BY <1>1, <1>17 DEF Framed
<1> DEFINE t == MergeStep[s]
<1>21. t.bits = b3 /\ t.zone = z /\ t.order = k + 1 /\ t.idx = q
  BY <1>3
<1> HIDE DEF t, n, o, k, i
<1>22. t \in MergeKept(b, z, F)
  BY <1>1, <1>4, <1>15, <1>16, <1>17, <1>18, <1>19, <1>20, <1>21 DEF MergeKept, t
<1>23. QED
  BY <1>22 DEF t


(* What a free does: the pages P are free in the zone, too.                *)
Gives(b, c, z, P) ==
    /\ c \in SUBSET Nat
    /\ Covered(Marks(c, z)) = Covered(Marks(b, z)) \cup P
    /\ Elsewhere(b, c, z)
    /\ Sound(c)

LEMMA MergeTypes ==
    ASSUME map \in MemoryMaps, NEW s \in MergeStates
    PROVE  Merge[s] \in MergeStates
<1>1. Decreasing(MergeStates, MergeStep, MergeRank)
  BY MergeDecreases
<1>2. \A t \in MergeStates : Merge[t] = IF MergeRank[t] = 0 THEN t ELSE Merge[MergeStep[t]]
  BY MergeIs
<1>3. \A t \in MergeStates : MergeRank[t] # 0 => MergeStep[t] \in MergeStates
  BY <1>1 DEF Decreasing
<1>4. QED
  BY <1>1, <1>2, <1>3, LoopKeeps

LEMMA FreeEffect ==
    ASSUME Layout, NEW b, b \subseteq Nat, Sound(b), NEW z \in Zones, NEW k \in Orders,
           NEW i, InZone(z, k, i), Pages(k, i) \cap Covered(Marks(b, z)) = {}
    PROVE  Gives(b, Merge[[bits |-> b \cup {BitOf(z, k, i)}, zone |-> z,
                           order |-> k, idx |-> i]].bits, z, Pages(k, i))
<1>0. map \in MemoryMaps /\ i \in Nat
  BY DEF Layout, InZone
<1> DEFINE a == b \cup {BitOf(z, k, i)}
           s0 == [bits |-> a, zone |-> z, order |-> k, idx |-> i]
           s == Merge[s0]
           F == Covered(Marks(b, z)) \cup Pages(k, i)
           J == MergeKept(b, z, F)
<1>1. i \in 0 .. Extent(z, k)
  BY <1>0, InZoneIndex
<1>2. /\ Marks(a, z) = [Marks(b, z) EXCEPT ![k] = @ \cup {i}]
      /\ Elsewhere(b, a, z)
  BY <1>1, SetBit
<1>3. a \subseteq Nat
  BY <1>0, RoomIs
<1> HIDE DEF a
<1>4. Marks(b, z) \in Bitmaps /\ Framed(Marks(b, z), z) /\ Unpaired(Marks(b, z))
  BY <1>0, MarksAre DEF Sound
<1>5. Apart(Marks(a, z)) /\ Covered(Marks(a, z)) = F
  <2>1. Apart(Marks(b, z))
    BY <1>4 DEF Framed
  <2> DEFINE o == Marks(b, z)  n == [o EXCEPT ![k] = @ \cup {i}]
  <2>2. o \in Bitmaps /\ Apart(o) /\ i \in Nat /\ Pages(k, i) \cap Covered(o) = {}
    BY <1>0, <1>4, <2>1
  <2>3. Marks(a, z) = n /\ F = Covered(o) \cup Pages(k, i)
    BY <1>2
  <2> HIDE DEF o, F
  <2>4. Apart(n) /\ Covered(n) = Covered(o) \cup Pages(k, i)
    BY <2>2, MarkBlock
  <2>5. QED
    BY <2>3, <2>4
<1>6. PairAt(Marks(a, z), k, i)
  BY <1>0, <1>2, <1>4, PairMark
<1>7. i \in Marks(a, z)[k]
  BY <1>2, <1>4 DEF Bitmaps
<1>8. Framed(Marks(a, z), z)
  <2>1. F \subseteq 0 .. (ZoneExtent(map, z) - 1)
    BY <1>4 DEF Framed, InZone
  <2>2. QED
    BY <1>5, <2>1 DEF Framed
<1>9. s0 \in J
  <2>1. s0 \in MergeStates
    BY <1>0, <1>3 DEF MergeStates
  <2>2. s0.bits = a /\ s0.zone = z /\ s0.order = k /\ s0.idx = i
    OBVIOUS
  <2> HIDE DEF s0, F
  <2>3. QED
    BY <1>2, <1>5, <1>6, <1>7, <1>8, <2>1, <2>2 DEF MergeKept
<1> HIDE DEF F
<1>10. s \in J /\ MergeRank[s] = 0
  <2>1. J \subseteq MergeStates
    BY DEF MergeKept
  <2>2. \A t \in J : MergeRank[t] # 0 => MergeStep[t] \in J
    BY MergeStepKeeps
  <2>3. Decreasing(MergeStates, MergeStep, MergeRank)
    BY <1>0, MergeDecreases
  <2>4. \A t \in MergeStates : Merge[t] = IF MergeRank[t] = 0 THEN t ELSE Merge[MergeStep[t]]
    BY <1>0, MergeIs
  <2> HIDE DEF J, s0
  <2>5. QED
    BY <1>9, <2>1, <2>2, <2>3, <2>4, LoopKeeps
<1>11. s = Merge[[bits |-> b \cup {BitOf(z, k, i)}, zone |-> z, order |-> k, idx |-> i]]
  BY DEF s, s0, a
<1> HIDE DEF s, s0
<1> DEFINE c == s.bits  l == s.order  x == s.idx  o == Marks(c, z)
<1>12. /\ s \in MergeStates /\ s.zone = z /\ Elsewhere(b, c, z) /\ Framed(o, z)
       /\ Covered(o) = F /\ x \in o[l] /\ PairAt(o, l, x)
  BY <1>10 DEF MergeKept
<1>13. l \in Orders /\ x \in Nat /\ c \subseteq Nat /\ MergeEnds(s)
  BY <1>10, <1>12, MergeFields
<1>14. InZone(z, l, x)
  BY <1>0, <1>12, <1>13, MarkedInZone
<1>15. l # MaxOrder => BuddyOf(x) \notin o[l]
  <2>1. l # MaxOrder => BitOf(z, l, BuddyOf(x)) \notin c
    BY <1>12, <1>13 DEF MergeEnds
  <2>2. QED
    BY <1>13, <2>1, MarksMember
<1>16. Unpaired(o)
  <2> SUFFICES ASSUME NEW j \in Orders, NEW y \in o[j], j # MaxOrder, BuddyOf(y) \in o[j]
               PROVE  FALSE
    BY DEF Unpaired
  <2>1. j = l /\ y \in {x, BuddyOf(x)}
    BY <1>12 DEF PairAt
  <2>2. BuddyOf(BuddyOf(x)) = x
    BY <1>13, BuddyHalves
  <2>3. BuddyOf(x) \in o[l]
    BY <2>1, <2>2
  <2>4. QED
    BY <1>15, <2>1, <2>3
<1>17. Sound(c)
  BY <1>12, <1>16, SoundElsewhere
<1>18. Gives(b, c, z, Pages(k, i))
  BY <1>12, <1>13, <1>17 DEF Gives, F
<1>19. QED
  BY <1>11, <1>18

-----------------------------------------------------------------------------
(* buddy_free and buddy_free_range                                         *)

LEMMA SizeMono == \A j, k \in Orders : j < k => Size[j] < Size[k]
<1> SUFFICES ASSUME NEW j \in Orders PROVE \A k \in Orders : j < k => Size[j] < Size[k]
  OBVIOUS
<1> DEFINE T == {k \in Orders : j < k /\ ~(Size[j] < Size[k])}
<1> SUFFICES ASSUME T # {} PROVE FALSE
  OBVIOUS
<1>1. T \subseteq Nat
  BY OrderAssumption DEF Orders
<1>2. PICK k \in T : \A l \in T : k <= l
  BY <1>1, LeastNatural
<1>3. k - 1 \in Orders /\ k \in Orders /\ k - 1 < MaxOrder /\ (k - 1) + 1 = k /\ j <= k - 1 /\ ~(k <= k - 1)
  BY <1>2, OrderAssumption DEF Orders
<1>4. Size[k] = 2 * Size[k - 1]
  BY <1>3, SizeAssumption
<1>5. k - 1 \notin T
  BY <1>2, <1>3
<1>6. Size[j] <= Size[k - 1]
  <2>1. CASE j = k - 1
    BY <2>1, SizePos
  <2>2. CASE j # k - 1
    <3>1. j < k - 1
      BY <1>3, <2>2, OrderAssumption DEF Orders
    <3>2. QED
      BY <1>3, <1>5, <3>1, SizePos
  <2>3. QED
    BY <2>1, <2>2
<1>7. QED
  BY <1>2, <1>3, <1>4, <1>6, SizePos

(* The order of a whole block.                                             *)
LEMMA SizeOrder ==
    ASSUME NEW k \in Orders
    PROVE  Size[k] \in Nat /\ ~TooLarge(Size[k]) /\ log2_roundup(Size[k]) = k
<1>1. Size[k] \in Nat /\ k \in Nat /\ MaxOrder \in Orders /\ k <= MaxOrder
  BY SizePos, OrderAssumption DEF Orders
<1>2. Size[k] <= Size[MaxOrder]
  <2>1. CASE k = MaxOrder
    BY <1>1, <2>1
  <2>2. CASE k # MaxOrder
    BY <1>1, <2>2, SizeMono, SizePos, OrderAssumption
  <2>3. QED
    BY <2>1, <2>2
<1>3. ~TooLarge(Size[k])
  BY <1>1, <1>2, SizePos DEF TooLarge
<1> DEFINE j == log2_roundup(Size[k])
<1>4. j \in Orders /\ Size[k] <= Size[j] /\ (Size[k] <= Size[k] => j <= k)
  BY <1>1, <1>3, OrderOf
<1> HIDE DEF j
<1>5. j = k
  <2>1. ~(j < k)
    BY <1>1, <1>4, SizeMono, SizePos
  <2>2. j \in Nat /\ j <= k
    BY <1>1, <1>4, OrderAssumption DEF Orders
  <2>3. QED
    BY <1>1, <2>1, <2>2
<1>6. QED
  BY <1>1, <1>3, <1>5 DEF j

LEMMA QuotientOfProduct ==
    ASSUME NEW i \in Nat, NEW s \in Nat \ {0}
    PROVE  i * s \in Nat /\ (i * s) \div s = i
<1> DEFINE e == i * s  q == e \div s
<1>1. e \in Nat
  OBVIOUS
<1>2. q \in Nat /\ e % s \in Nat /\ e = s * q + (e % s) /\ (i * s <= e => i <= q)
  BY <1>1, Quotient
<1>3. i <= q
  BY <1>1, <1>2
<1>4. i < q => i * s + s <= q * s
  BY <1>2, MulMono
<1>5. s * q = q * s /\ q * s \in Nat
  BY <1>2
<1>6. ~(i < q)
  <2> HIDE DEF q
  <2>1. q * s <= e
    BY <1>1, <1>2, <1>5
  <2>2. QED
    BY <1>1, <1>4, <1>5, <2>1
<1>7. QED
  BY <1>1, <1>2, <1>3, <1>6

LEMMA BuddyFreeEffect ==
    ASSUME Layout, NEW b, b \subseteq Nat, Sound(b), NEW z \in Zones, NEW num \in Nat,
           NEW k \in Orders, k = log2_roundup(num), NEW i, InZone(z, k, i),
           Pages(k, i) \cap Covered(Marks(b, z)) = {},
           NEW page, page = ZoneStart(z) + i * Size[k]
    PROVE  Gives(b, buddy_free(b, z, page, num), z, Pages(k, i))
<1>1. map \in MemoryMaps /\ i \in Nat /\ Size[k] \in Nat \ {0}
  BY SizePos DEF Layout, InZone
<1>2. i * Size[k] \in Nat /\ (i * Size[k]) \div Size[k] = i
  BY <1>1, QuotientOfProduct
<1>3. ZoneStart(z) \in Nat
  BY <1>1, ZonesAre
<1>4. page - ZoneStart(z) = i * Size[k]
  BY <1>2, <1>3
<1>5. (page - ZoneStart(z)) \div Size[k] = i
  BY <1>2, <1>4
<1>6. buddy_free(b, z, page, num) =
          Merge[[bits |-> b \cup {BitOf(z, k, i)}, zone |-> z, order |-> k, idx |-> i]].bits
  BY <1>5 DEF buddy_free
<1>7. Gives(b, Merge[[bits |-> b \cup {BitOf(z, k, i)}, zone |-> z, order |-> k, idx |-> i]].bits,
            z, Pages(k, i))
  BY FreeEffect
<1>8. QED
  BY <1>6, <1>7

LEMMA BuddyFreeTypes ==
    ASSUME map \in MemoryMaps, NEW b \in SUBSET Nat, NEW z \in Zones, NEW num \in Nat, ~TooLarge(num),
           NEW page \in Nat, ZoneStart(z) <= page
    PROVE  buddy_free(b, z, page, num) \in SUBSET Nat
<1> DEFINE k == log2_roundup(num)  i == (page - ZoneStart(z)) \div Size[k]
           s == [bits |-> b \cup {BitOf(z, k, i)}, zone |-> z, order |-> k, idx |-> i]
<1>1. k \in Orders
  BY OrderOf
<1>2. page - ZoneStart(z) \in Nat /\ Size[k] \in Nat \ {0}
  BY <1>1, ZonesAre, SizePos
<1> HIDE DEF k
<1>3. i \in Nat
  BY <1>2, Quotient
<1> HIDE DEF i
<1>4. BitOf(z, k, i) \in Nat
  BY <1>1, <1>3, RoomIs
<1>5. s \in MergeStates
  BY <1>1, <1>3, <1>4 DEF MergeStates
<1>6. buddy_free(b, z, page, num) = Merge[s].bits
  BY DEF buddy_free, k, i
<1> HIDE DEF s
<1>7. Merge[s] \in MergeStates
  BY <1>5, MergeTypes
<1>8. QED
  BY <1>6, <1>7, MergeFields

LEMMA FitIs ==
    ASSUME map \in MemoryMaps, NEW z \in Zones, NEW r \in RangeType, r.extent # 0,
           ZoneStart(z) <= r.start
    PROVE  LET k == LargestFit(z, r)
           IN  k \in Orders /\ Size[k] <= r.extent /\ (r.start - ZoneStart(z)) % Size[k] = 0
<1> DEFINE T == {k \in Orders : Size[k] <= r.extent /\ (r.start - ZoneStart(z)) % Size[k] = 0}
<1>1. r.start \in Nat /\ r.extent \in Nat
  BY DEF RangeType
<1>2. r.start - ZoneStart(z) \in Nat
  BY <1>1, ZonesAre
<1>3. 0 \in T
  <2>1. 0 \in Orders /\ Size[0] = 1
    BY SizeAssumption, OrderAssumption DEF Orders
  <2>2. (r.start - ZoneStart(z)) % 1 = 0
    BY <1>2
  <2>3. QED
    BY <1>1, <2>1, <2>2
<1>4. T \subseteq Nat /\ \A x \in T : x <= MaxOrder
  BY OrderAssumption DEF Orders
<1>5. LargestFit(z, r) = Max(T)
  BY DEF LargestFit
<1>6. Max(T) \in T
  <2> HIDE DEF T
  <2>1. QED
    BY <1>3, <1>4, MaxOf, OrderAssumption
<1>7. QED
  BY <1>5, <1>6

(* The pages of a range, counted from the start of the zone.               *)
Span(z, r) == {p \in Nat : ZoneStart(z) + p \in PagesOf(r)}

LEMMA SpanIs ==
    ASSUME map \in MemoryMaps, NEW z \in Zones, NEW r \in RangeType, ZoneStart(z) <= r.start
    PROVE  /\ r.start - ZoneStart(z) \in Nat
           /\ \A p : p \in Span(z, r) <=>
                  /\ p \in Nat /\ r.start - ZoneStart(z) <= p
                  /\ p < (r.start - ZoneStart(z)) + r.extent
<1>1. r.start \in Nat /\ r.extent \in Nat /\ ZoneStart(z) \in Nat
  BY ZonesAre DEF RangeType
<1>2. \A p : p \in Span(z, r) <=>
          p \in Nat /\ ZoneStart(z) + p \in r.start .. (r.start + r.extent - 1)
  BY DEF Span, PagesOf
<1>3. QED
  BY <1>1, <1>2

RangeStep == [s \in RangeStates |-> FreeRangeRound(s)]
RangeRank == [s \in RangeStates |-> s.range.extent]

(* One round takes the block (k, i) off the start of the range.            *)
LEMMA RangeRoundIs ==
    ASSUME map \in MemoryMaps, NEW s \in RangeStates, s.range.extent # 0
    PROVE  \E k \in Orders, i \in Nat :
              LET t == FreeRangeRound(s)
              IN  /\ s.range.start = ZoneStart(s.zone) + i * Size[k]
                  /\ t.bits = buddy_free(s.bits, s.zone, s.range.start, Size[k])
                  /\ t.zone = s.zone
                  /\ t \in RangeStates /\ t.range.extent < s.range.extent
                  /\ Span(s.zone, s.range) = Pages(k, i) \cup Span(s.zone, t.range)
                  /\ Pages(k, i) \cap Span(s.zone, t.range) = {}
<1> DEFINE z == s.zone  r == s.range  k == LargestFit(z, r)  n == Size[k]
           x == r.start - ZoneStart(z)  i == x \div n
           q == [start |-> r.start + n, extent |-> r.extent - n]
           c == buddy_free(s.bits, z, r.start, n)
           t == FreeRangeRound(s)
<1>1. s.bits \in SUBSET Nat /\ z \in Zones /\ r \in RangeType /\ ZoneStart(z) <= r.start
  BY DEF RangeStates
<1>2. r.start \in Nat /\ r.extent \in Nat /\ ZoneStart(z) \in Nat
  BY <1>1, ZonesAre DEF RangeType
<1>3. k \in Orders /\ n <= r.extent /\ x % n = 0
  BY <1>1, FitIs
<1>4. t = [bits |-> c, zone |-> z, range |-> q]
  BY DEF FreeRangeRound
<1> HIDE DEF k
<1>5. n \in Nat \ {0} /\ x \in Nat
  BY <1>1, <1>2, <1>3, SizePos
<1>6. i \in Nat /\ x = n * i + (x % n)
  BY <1>5, Quotient
<1>7. x = i * n /\ i * n \in Nat
  <2>1. n * i = i * n /\ i * n \in Nat
    BY <1>5, <1>6
  <2> HIDE DEF x, n, i
  <2>2. QED
    BY <1>3, <1>6, <2>1
<1>8. c \in SUBSET Nat
  <2>1. ~TooLarge(n) /\ n \in Nat
    BY <1>3, SizeOrder
  <2> HIDE DEF n
  <2>2. QED
    BY <1>1, <1>2, <2>1, BuddyFreeTypes
<1>9. q \in RangeType /\ q.start = r.start + n /\ q.extent = r.extent - n
  BY <1>2, <1>3, <1>5 DEF RangeType
<1>10. ZoneStart(z) <= q.start /\ q.extent < r.extent
  BY <1>1, <1>2, <1>5, <1>9
<1> HIDE DEF c, q, i
<1>11. t.bits = c /\ t.zone = z /\ t.range = q
  BY <1>4
<1>12. t \in RangeStates
  BY <1>1, <1>4, <1>8, <1>9, <1>10 DEF RangeStates
<1>13. \A p : p \in Span(z, r) <=> p \in Nat /\ x <= p /\ p < x + r.extent
  BY <1>1, SpanIs
<1>14. \A p : p \in Span(z, q) <=> p \in Nat /\ x + n <= p /\ p < x + r.extent
  <2>1. \A p : p \in Span(z, q) <=>
            p \in Nat /\ q.start - ZoneStart(z) <= p /\ p < (q.start - ZoneStart(z)) + q.extent
    BY <1>1, <1>9, <1>10, SpanIs
  <2>2. q.start - ZoneStart(z) = x + n /\ (x + n) + (r.extent - n) = x + r.extent
    BY <1>2, <1>5, <1>9
  <2> HIDE DEF x, n
  <2>3. QED
    BY <1>9, <2>1, <2>2
<1>15. \A p : p \in Pages(k, i) <=> p \in Nat /\ x <= p /\ p < x + n
  BY <1>3, <1>6, <1>7, PagesMember
<1>16. r.start = ZoneStart(z) + i * Size[k]
  BY <1>2, <1>7
<1> DEFINE e == r.extent
<1>17. x \in Nat /\ n \in Nat /\ e \in Nat /\ n <= e
  BY <1>2, <1>3, <1>5
<1>18. /\ \A p : p \in Span(z, r) <=> p \in Pages(k, i) \/ p \in Span(z, q)
       /\ \A p : ~(p \in Pages(k, i) /\ p \in Span(z, q))
  <2>1. /\ \A p : p \in Span(z, r) <=> p \in Nat /\ x <= p /\ p < x + e
        /\ \A p : p \in Span(z, q) <=> p \in Nat /\ x + n <= p /\ p < x + e
    BY <1>13, <1>14
  <2> HIDE DEF x, n, e, z, r
  <2>2. QED
    BY <1>15, <1>17, <2>1
<1>19. Span(z, r) = Pages(k, i) \cup Span(z, q) /\ Pages(k, i) \cap Span(z, q) = {}
  BY <1>18
<1>20. t.bits = buddy_free(s.bits, s.zone, s.range.start, Size[k]) /\ t.zone = s.zone /\ t.range = q
  BY <1>11 DEF c
<1>21. QED
  BY <1>3, <1>6, <1>10, <1>12, <1>16, <1>19, <1>20

LEMMA RangeDecreases ==
    ASSUME map \in MemoryMaps
    PROVE  Decreasing(RangeStates, RangeStep, RangeRank)
<1>1. ASSUME NEW s \in RangeStates
      PROVE  RangeRank[s] = s.range.extent /\ RangeRank[s] \in Nat /\ RangeStep[s] = FreeRangeRound(s)
  <2>1. s.range \in RangeType
    BY DEF RangeStates
  <2>2. QED
    BY <2>1 DEF RangeRank, RangeStep, RangeType
<1>2. RangeRank \in [RangeStates -> Nat]
  <2>1. RangeRank = [s \in RangeStates |-> RangeRank[s]]
    BY DEF RangeRank
  <2>2. QED
    BY <1>1, <2>1
<1>3. ASSUME NEW s \in RangeStates, RangeRank[s] # 0
      PROVE  RangeStep[s] \in RangeStates /\ RangeRank[RangeStep[s]] < RangeRank[s]
  <2> DEFINE t == FreeRangeRound(s)
  <2>1. s.range.extent # 0
    BY <1>1, <1>3
  <2>2. t \in RangeStates /\ t.range.extent < s.range.extent
    BY <2>1, RangeRoundIs
  <2> HIDE DEF t
  <2>3. RangeRank[t] = t.range.extent
    BY <1>1, <2>2
  <2>4. RangeStep[s] = t
    BY <1>1 DEF t
  <2>5. QED
    BY <1>1, <2>2, <2>3, <2>4
<1>4. QED
  BY <1>2, <1>3 DEF Decreasing

LEMMA FreeRangeLoopIs ==
    ASSUME map \in MemoryMaps
    PROVE  \A s \in RangeStates :
               FreeRangeLoop[s] = IF RangeRank[s] = 0 THEN s ELSE FreeRangeLoop[RangeStep[s]]
<1> DEFINE Q(f) == f = [s \in RangeStates |->
               IF s.range.extent = 0 THEN s ELSE f[FreeRangeRound(s)]]
<1>1. FreeRangeLoop = CHOOSE f : Q(f)
  BY DEF FreeRangeLoop
<1>2. ASSUME NEW s \in RangeStates
      PROVE  RangeRank[s] = s.range.extent /\ RangeStep[s] = FreeRangeRound(s)
  BY DEF RangeRank, RangeStep
<1>3. PICK f : /\ f = [s \in RangeStates |-> f[s]]
               /\ \A s \in RangeStates : f[s] = IF RangeRank[s] = 0 THEN s ELSE f[RangeStep[s]]
  BY RangeDecreases, LoopExists
<1>4. Q(f)
  BY <1>2, <1>3
<1>5. Q(FreeRangeLoop)
  BY <1>1, <1>4
<1>6. \A s \in RangeStates :
          FreeRangeLoop[s] = IF s.range.extent = 0 THEN s ELSE FreeRangeLoop[FreeRangeRound(s)]
  BY <1>5
<1>7. QED
  BY <1>2, <1>6

(* What a round keeps; G is the set of the free pages at the end.          *)
RangeKept(b, z, G) ==
    {s \in RangeStates :
        /\ s.zone = z
        /\ Elsewhere(b, s.bits, z)
        /\ Sound(s.bits)
        /\ Covered(Marks(s.bits, z)) \cup Span(z, s.range) = G
        /\ Covered(Marks(s.bits, z)) \cap Span(z, s.range) = {}
        /\ Span(z, s.range) \subseteq 0 .. (ZoneExtent(map, z) - 1)}

LEMMA RangeStepKeeps ==
    ASSUME Layout, NEW b, NEW z \in Zones, NEW G,
           NEW s \in RangeKept(b, z, G), RangeRank[s] # 0
    PROVE  RangeStep[s] \in RangeKept(b, z, G)
<1>0. map \in MemoryMaps /\ s \in RangeStates
  BY DEF Layout, RangeKept
<1> DEFINE o == Covered(Marks(s.bits, z))  t == FreeRangeRound(s)  R == Span(z, s.range)
<1>1. /\ s.zone = z /\ Elsewhere(b, s.bits, z) /\ Sound(s.bits)
      /\ o \cup R = G /\ o \cap R = {} /\ R \subseteq 0 .. (ZoneExtent(map, z) - 1)
  BY DEF RangeKept
<1>2. s.range.extent # 0 /\ RangeStep[s] = t
  BY <1>0 DEF RangeRank, RangeStep
<1>3. PICK k \in Orders, i \in Nat :
        /\ s.range.start = ZoneStart(s.zone) + i * Size[k]
        /\ t.bits = buddy_free(s.bits, s.zone, s.range.start, Size[k])
        /\ t.zone = s.zone
        /\ t \in RangeStates /\ t.range.extent < s.range.extent
        /\ Span(s.zone, s.range) = Pages(k, i) \cup Span(s.zone, t.range)
        /\ Pages(k, i) \cap Span(s.zone, t.range) = {}
  BY <1>0, <1>2, RangeRoundIs
<1> HIDE DEF t
<1>4. /\ s.range.start = ZoneStart(z) + i * Size[k]
      /\ t.bits = buddy_free(s.bits, z, s.range.start, Size[k])
      /\ t.zone = z /\ t \in RangeStates
      /\ R = Pages(k, i) \cup Span(z, t.range) /\ Pages(k, i) \cap Span(z, t.range) = {}
  BY <1>1, <1>3
<1>5. InZone(z, k, i) /\ Pages(k, i) \cap o = {}
  BY <1>1, <1>4 DEF InZone
<1>6. Gives(s.bits, t.bits, z, Pages(k, i))
  <2>1. Size[k] \in Nat /\ log2_roundup(Size[k]) = k
    BY SizeOrder
  <2>2. s.bits \subseteq Nat
    BY <1>0 DEF RangeStates
  <2>3. Gives(s.bits, buddy_free(s.bits, z, s.range.start, Size[k]), z, Pages(k, i))
    BY <1>1, <1>4, <1>5, <2>1, <2>2, BuddyFreeEffect
  <2>4. QED
    BY <1>4, <2>3
<1>7. /\ Covered(Marks(t.bits, z)) = o \cup Pages(k, i)
      /\ Elsewhere(s.bits, t.bits, z) /\ Sound(t.bits)
  BY <1>6 DEF Gives
<1>8. Elsewhere(b, t.bits, z)
  BY <1>1, <1>7, ElsewhereTrans
<1>9. /\ Covered(Marks(t.bits, z)) \cup Span(z, t.range) = G
      /\ Covered(Marks(t.bits, z)) \cap Span(z, t.range) = {}
      /\ Span(z, t.range) \subseteq 0 .. (ZoneExtent(map, z) - 1)
  <2> HIDE DEF o, R
  <2>1. QED
    BY <1>1, <1>4, <1>7
<1>10. t \in RangeKept(b, z, G)
  BY <1>4, <1>7, <1>8, <1>9 DEF RangeKept
<1>11. QED
  BY <1>2, <1>10

(* buddy_free_range frees exactly the pages of the range.                  *)
LEMMA FreeRangeEffect ==
    ASSUME Layout, NEW b, b \subseteq Nat, Sound(b), NEW z \in Zones, NEW r \in RangeType,
           ZoneStart(z) <= r.start, Span(z, r) \subseteq 0 .. (ZoneExtent(map, z) - 1),
           Covered(Marks(b, z)) \cap Span(z, r) = {}
    PROVE  Gives(b, buddy_free_range(b, z, r), z, Span(z, r))
<1> DEFINE s0 == [bits |-> b, zone |-> z, range |-> r]
           s == FreeRangeLoop[s0]
           G == Covered(Marks(b, z)) \cup Span(z, r)
           J == RangeKept(b, z, G)
<1>0. map \in MemoryMaps
  BY DEF Layout
<1>1. s0 \in RangeStates /\ s0.bits = b /\ s0.zone = z /\ s0.range = r
  BY DEF RangeStates
<1>2. buddy_free_range(b, z, r) = s.bits
  BY DEF buddy_free_range
<1> HIDE DEF s0
<1>3. Elsewhere(b, b, z)
  BY DEF Elsewhere
<1>4. s0 \in J
  BY <1>1, <1>3 DEF RangeKept
<1> HIDE DEF G
<1>5. s \in J /\ RangeRank[s] = 0
  <2>1. J \subseteq RangeStates
    BY DEF RangeKept
  <2>2. \A t \in J : RangeRank[t] # 0 => RangeStep[t] \in J
    BY RangeStepKeeps
  <2>3. Decreasing(RangeStates, RangeStep, RangeRank)
    BY <1>0, RangeDecreases
  <2>4. \A t \in RangeStates :
            FreeRangeLoop[t] = IF RangeRank[t] = 0 THEN t ELSE FreeRangeLoop[RangeStep[t]]
    BY <1>0, FreeRangeLoopIs
  <2> HIDE DEF J
  <2>5. QED
    BY <1>4, <2>1, <2>2, <2>3, <2>4, LoopKeeps
<1> HIDE DEF s
<1>6. /\ s \in RangeStates /\ s.zone = z /\ Elsewhere(b, s.bits, z) /\ Sound(s.bits)
      /\ Covered(Marks(s.bits, z)) \cup Span(z, s.range) = G
  BY <1>5 DEF RangeKept
<1>7. s.bits \in SUBSET Nat /\ s.range \in RangeType /\ ZoneStart(z) <= s.range.start
  BY <1>6 DEF RangeStates
<1>8. s.range.extent = 0
  BY <1>5, <1>6 DEF RangeRank
<1>9. Span(z, s.range) = {}
  <2>1. \A p : ~(p \in Span(z, s.range))
    BY <1>0, <1>7, <1>8, SpanIs
  <2>2. QED
    BY <2>1
<1>10. Gives(b, s.bits, z, Span(z, r))
  BY <1>6, <1>7, <1>9 DEF Gives, G
<1>11. QED
  BY <1>2, <1>10

-----------------------------------------------------------------------------
(* The free pages of all zones                                             *)

Shift(z, P) == {ZoneStart(z) + p : p \in P}
FreeIn(b, z) == Shift(z, Covered(Marks(b, z)))
FreeAll(b) == UNION {FreeIn(b, z) : z \in Zones}

InMap(z) == {p \in Nat : p < MaxExtent(map) /\ ZoneOf(p) = z}

LEMMA CoveredNat ==
    ASSUME map \in MemoryMaps, NEW b, Sound(b), NEW z \in Zones
    PROVE  /\ Covered(Marks(b, z)) \subseteq Nat
           /\ Covered(Marks(b, z)) \subseteq 0 .. (ZoneExtent(map, z) - 1)
<1>1. Covered(Marks(b, z)) \subseteq 0 .. (ZoneExtent(map, z) - 1)
  BY DEF Sound, Framed
<1>2. ZoneExtent(map, z) \in Nat
  BY ZonesAre
<1>3. QED
  BY <1>1, <1>2

LEMMA FreeInZone ==
    ASSUME map \in MemoryMaps, NEW b, Sound(b), NEW z \in Zones
    PROVE  FreeIn(b, z) \subseteq InMap(z)
<1> SUFFICES ASSUME NEW q \in Covered(Marks(b, z)) PROVE ZoneStart(z) + q \in InMap(z)
  BY DEF FreeIn, Shift
<1>1. q \in 0 .. (ZoneExtent(map, z) - 1)
  BY CoveredNat
<1> DEFINE p == ZoneStart(z) + q
<1>2. p \in Nat /\ ZoneStart(z) <= p /\ p < ZoneStart(z) + ZoneExtent(map, z)
  BY <1>1, ZonesAre
<1>3. p < MaxExtent(map) /\ ZoneOf(p) = z
  <2> HIDE DEF p
  <2>1. p < MaxExtent(map)
    BY <1>2, ZonesAre
  <2>2. QED
    BY <1>2, <2>1, ZonesAre
<1>4. QED
  BY <1>2, <1>3 DEF InMap

LEMMA FreeAllMember ==
    ASSUME NEW b
    PROVE  \A p : p \in FreeAll(b) <=> \E z \in Zones : p \in FreeIn(b, z)
BY DEF FreeAll

(* Pages of the map, counted from the start of their zone.                 *)
LEMMA InMapSpan ==
    ASSUME map \in MemoryMaps, NEW z \in Zones, NEW p \in InMap(z)
    PROVE  /\ p \in Nat /\ ZoneStart(z) \in Nat /\ ZoneStart(z) <= p
           /\ p - ZoneStart(z) \in 0 .. (ZoneExtent(map, z) - 1)
<1>1. p \in Nat /\ p < MaxExtent(map) /\ ZoneOf(p) = z
  BY DEF InMap
<1>2. ZoneStart(z) \in Nat /\ ZoneExtent(map, z) \in Nat
      /\ ZoneStart(z) <= p /\ p < ZoneStart(z) + ZoneExtent(map, z)
  BY <1>1, ZonesAre
<1>3. QED
  BY <1>1, <1>2

LEMMA GivesFree ==
    ASSUME NEW b, NEW c, NEW z \in Zones, NEW P, Gives(b, c, z, P)
    PROVE  FreeAll(c) = FreeAll(b) \cup Shift(z, P)
<1>1. \A p : p \in FreeIn(c, z) <=> p \in FreeIn(b, z) \/ p \in Shift(z, P)
  BY DEF FreeIn, Shift, Gives
<1>2. \A y \in Zones : y # z => FreeIn(c, y) = FreeIn(b, y)
  BY DEF FreeIn, Gives, Elsewhere
<1>3. \A p : p \in FreeAll(c) <=> p \in FreeAll(b) \/ p \in Shift(z, P)
  BY <1>1, <1>2, FreeAllMember
<1>4. QED
  BY <1>3

LEMMA TakesFree ==
    ASSUME map \in MemoryMaps, NEW b, Sound(b), NEW c, NEW z \in Zones, NEW k \in Orders,
           NEW i, Takes(b, c, z, k, i)
    PROVE  /\ Shift(z, Pages(k, i)) \subseteq FreeIn(b, z)
           /\ FreeAll(c) = FreeAll(b) \ Shift(z, Pages(k, i))
<1> DEFINE P == Pages(k, i)
<1>1. /\ P \subseteq Covered(Marks(b, z)) /\ Covered(Marks(c, z)) = Covered(Marks(b, z)) \ P
      /\ Elsewhere(b, c, z)
  BY DEF Takes
<1>2. Covered(Marks(b, z)) \subseteq Nat /\ ZoneStart(z) \in Nat
  BY CoveredNat, ZonesAre
<1> HIDE DEF P
<1>3. Shift(z, P) \subseteq FreeIn(b, z)
  BY <1>1 DEF FreeIn, Shift
<1>4. \A p : p \in FreeIn(c, z) <=> p \in FreeIn(b, z) /\ p \notin Shift(z, P)
  <2>1. \A x, y \in Nat : ZoneStart(z) + x = ZoneStart(z) + y => x = y
    BY <1>2
  <2>2. P \subseteq Nat
    BY <1>1, <1>2
  <2>3. QED
    BY <1>1, <1>2, <2>1, <2>2 DEF FreeIn, Shift
<1>5. \A y \in Zones : y # z => FreeIn(c, y) = FreeIn(b, y)
  BY <1>1 DEF FreeIn, Elsewhere
<1>6. \A y \in Zones : y # z => FreeIn(b, y) \cap Shift(z, P) = {}
  <2>1. \A y \in Zones : FreeIn(b, y) \subseteq InMap(y)
    BY FreeInZone
  <2>2. QED
    BY <1>3, <2>1 DEF InMap
<1>7. \A p : p \in FreeAll(c) <=> p \in FreeAll(b) /\ p \notin Shift(z, P)
  BY <1>4, <1>5, <1>6, FreeAllMember
<1>8. FreeAll(c) = FreeAll(b) \ Shift(z, P)
  BY <1>7
<1>9. QED
  BY <1>3, <1>8 DEF P

(* The pages of a range within a zone.                                     *)
LEMMA RangeOfZone ==
    ASSUME map \in MemoryMaps, NEW z \in Zones, NEW r \in RangeType, r.extent # 0,
           PagesOf(r) \subseteq InMap(z)
    PROVE  /\ ZoneStart(z) <= r.start
           /\ Span(z, r) \subseteq 0 .. (ZoneExtent(map, z) - 1)
           /\ Shift(z, Span(z, r)) = PagesOf(r)
<1>1. r.start \in Nat /\ r.extent \in Nat /\ ZoneStart(z) \in Nat
  BY ZonesAre DEF RangeType
<1>2. r.start \in PagesOf(r)
  BY <1>1 DEF PagesOf
<1>3. ZoneStart(z) <= r.start
  BY <1>2, InMapSpan
<1>4. ASSUME NEW p \in Span(z, r) PROVE p \in 0 .. (ZoneExtent(map, z) - 1)
  <2>1. p \in Nat /\ ZoneStart(z) + p \in PagesOf(r)
    BY DEF Span
  <2> DEFINE q == ZoneStart(z) + p
  <2>2. q \in InMap(z) /\ q - ZoneStart(z) = p
    BY <1>1, <2>1
  <2> HIDE DEF q
  <2>3. QED
    BY <2>2, InMapSpan
<1>5. ASSUME NEW q PROVE q \in Shift(z, Span(z, r)) <=> q \in PagesOf(r)
  <2>1. q \in Shift(z, Span(z, r)) => q \in PagesOf(r)
    BY DEF Shift, Span
  <2>2. ASSUME q \in PagesOf(r) PROVE q \in Shift(z, Span(z, r))
    <3> DEFINE p == q - ZoneStart(z)
    <3>1. q \in InMap(z)
      BY <2>2
    <3>2. q \in Nat /\ ZoneStart(z) <= q
      BY <3>1, InMapSpan
    <3>3. p \in Nat /\ ZoneStart(z) + p = q
      BY <1>1, <3>2
    <3> HIDE DEF p
    <3>4. p \in Span(z, r)
      BY <2>2, <3>3 DEF Span
    <3>5. QED
      BY <3>3, <3>4 DEF Shift
  <2>3. QED
    BY <2>1, <2>2
<1>6. Shift(z, Span(z, r)) = PagesOf(r)
  BY <1>5
<1>7. QED
  BY <1>3, <1>4, <1>6

-----------------------------------------------------------------------------
(* The loop that registers the early ranges                                *)

LEMMA PagesOfMember ==
    ASSUME NEW r \in RangeType
    PROVE  \A p : p \in PagesOf(r) <=> p \in Nat /\ r.start <= p /\ p < r.start + r.extent
BY DEF PagesOf, RangeType

(* split_range                                                             *)
LEMMA CutIs ==
    ASSUME NEW r \in RangeType, NEW loc \in Nat
    PROVE  /\ Below(r, loc) \in RangeType /\ Above(r, loc) \in RangeType
           /\ \A p : p \in PagesOf(Below(r, loc)) <=> p \in PagesOf(r) /\ p < loc
           /\ \A p : p \in PagesOf(Above(r, loc)) <=> p \in PagesOf(r) /\ loc <= p
           /\ Below(r, loc).start = r.start
           /\ Above(r, loc).extent # 0 => loc <= Above(r, loc).start
<1> DEFINE x == r.start  e == r.extent
<1>1. x \in Nat /\ e \in Nat /\ r = [start |-> x, extent |-> e]
  BY DEF RangeType
<1>2. \A p : p \in PagesOf(r) <=> p \in Nat /\ x <= p /\ p < x + e
  BY PagesOfMember
<1>3. CASE x >= loc
  <2>1. Below(r, loc) = [start |-> x, extent |-> 0] /\ Above(r, loc) = r
    BY <1>1, <1>3 DEF Below, Above
  <2>2. Below(r, loc) \in RangeType /\ Below(r, loc).start = x /\ Below(r, loc).extent = 0
    BY <1>1, <2>1 DEF RangeType
  <2>3. \A p : p \in PagesOf(Below(r, loc)) <=> p \in Nat /\ x <= p /\ p < x + 0
    BY <2>2, PagesOfMember
  <2> HIDE DEF x, e
  <2>4. QED
    BY <1>1, <1>2, <1>3, <2>1, <2>2, <2>3
<1>4. CASE ~(x >= loc) /\ x + e <= loc
  <2> DEFINE d == Min({e, loc - x})
  <2>1. d = e
    <3>1. loc - x \in Nat /\ e <= loc - x
      BY <1>1, <1>4
    <3>2. Min({e, loc - x}) \in {e, loc - x} /\ Min({e, loc - x}) <= e /\ Min({e, loc - x}) <= loc - x
      BY <1>1, <3>1, MinOfTwo
    <3> HIDE DEF x, e
    <3>3. QED
      BY <1>1, <3>1, <3>2
  <2>2. Below(r, loc) = [start |-> x, extent |-> d]
    BY <1>1, <1>4 DEF Below
  <2>3. Above(r, loc) = [start |-> x, extent |-> 0]
    BY <1>1, <1>4 DEF Above
  <2>4. Below(r, loc) = r
    BY <1>1, <2>1, <2>2
  <2>5. Above(r, loc) \in RangeType /\ Above(r, loc).start = x /\ Above(r, loc).extent = 0
    BY <1>1, <2>3 DEF RangeType
  <2>6. \A p : p \in PagesOf(Above(r, loc)) <=> p \in Nat /\ x <= p /\ p < x + 0
    BY <2>5, PagesOfMember
  <2>7. \A p : p \in PagesOf(r) => p < loc /\ ~(loc <= p)
    BY <1>1, <1>2, <1>4
  <2>8. \A p : ~(p \in PagesOf(Above(r, loc)))
    BY <1>1, <2>6
  <2>9. QED
    BY <2>4, <2>5, <2>7, <2>8
<1>5. CASE ~(x >= loc) /\ ~(x + e <= loc)
  <2> DEFINE d == Min({e, loc - x})
  <2>1. d = loc - x /\ loc - x \in Nat
    <3>1. loc - x \in Nat /\ loc - x <= e
      BY <1>1, <1>5
    <3>2. Min({e, loc - x}) \in {e, loc - x} /\ Min({e, loc - x}) <= e /\ Min({e, loc - x}) <= loc - x
      BY <1>1, <3>1, MinOfTwo
    <3> HIDE DEF x, e
    <3>3. QED
      BY <1>1, <3>1, <3>2
  <2>2. Below(r, loc) = [start |-> x, extent |-> d]
    BY <1>1, <1>5 DEF Below
  <2>3. Above(r, loc) = [start |-> loc, extent |-> x + e - loc]
    BY <1>1, <1>5 DEF Above
  <2>4. Below(r, loc) \in RangeType /\ Below(r, loc).start = x /\ Below(r, loc).extent = loc - x
    BY <1>1, <2>1, <2>2 DEF RangeType
  <2>5. x + e - loc \in Nat
    BY <1>1, <1>5
  <2>6. Above(r, loc) \in RangeType /\ Above(r, loc).start = loc /\ Above(r, loc).extent = x + e - loc
    BY <1>1, <2>3, <2>5 DEF RangeType
  <2>7. \A p : p \in PagesOf(Below(r, loc)) <=> p \in Nat /\ x <= p /\ p < x + (loc - x)
    BY <2>4, PagesOfMember
  <2>8. \A p : p \in PagesOf(Above(r, loc)) <=> p \in Nat /\ loc <= p /\ p < loc + (x + e - loc)
    BY <2>6, PagesOfMember
  <2>9. /\ \A p : p \in PagesOf(Below(r, loc)) <=> p \in PagesOf(r) /\ p < loc
        /\ \A p : p \in PagesOf(Above(r, loc)) <=> p \in PagesOf(r) /\ loc <= p
    <3> HIDE DEF x, e
    <3>1. QED
      BY <1>1, <1>2, <1>5, <2>7, <2>8
  <2>10. QED
    BY <2>4, <2>6, <2>9
<1>6. QED
  BY <1>3, <1>4, <1>5

LEMMA FreeRangeTypes ==
    ASSUME map \in MemoryMaps, NEW b \in SUBSET Nat, NEW z \in Zones, NEW r \in RangeType,
           r.extent # 0 => ZoneStart(z) <= r.start
    PROVE  FreePart(b, z, r) \in SUBSET Nat
<1>1. CASE r.extent = 0
  BY <1>1 DEF FreePart
<1>2. CASE r.extent # 0
  <2> DEFINE s == [bits |-> b, zone |-> z, range |-> r]
  <2>1. s \in RangeStates
    BY <1>2 DEF RangeStates
  <2>2. FreePart(b, z, r) = FreeRangeLoop[s].bits
    BY <1>2 DEF FreePart, buddy_free_range
  <2>3. Decreasing(RangeStates, RangeStep, RangeRank)
    BY RangeDecreases
  <2>4. \A t \in RangeStates :
            FreeRangeLoop[t] = IF RangeRank[t] = 0 THEN t ELSE FreeRangeLoop[RangeStep[t]]
    BY FreeRangeLoopIs
  <2>5. \A t \in RangeStates : RangeRank[t] # 0 => RangeStep[t] \in RangeStates
    BY <2>3 DEF Decreasing
  <2> HIDE DEF s
  <2>6. FreeRangeLoop[s] \in RangeStates
    BY <2>1, <2>3, <2>4, <2>5, LoopKeeps
  <2>7. FreeRangeLoop[s].bits \in SUBSET Nat
    BY <2>6 DEF RangeStates
  <2>8. QED
    BY <2>2, <2>7
<1>3. QED
  BY <1>1, <1>2

(* One part of a range: its pages get free, and nothing else changes.      *)
LEMMA FreePartEffect ==
    ASSUME Layout, NEW b \in SUBSET Nat, Sound(b), NEW z \in Zones, NEW r \in RangeType,
           PagesOf(r) \subseteq InMap(z), PagesOf(r) \cap FreeAll(b) = {}
    PROVE  LET c == FreePart(b, z, r)
           IN  c \in SUBSET Nat /\ Sound(c) /\ FreeAll(c) = FreeAll(b) \cup PagesOf(r)
<1>0. map \in MemoryMaps
  BY DEF Layout
<1>1. CASE r.extent = 0
  <2>1. PagesOf(r) = {}
    <3>1. \A p : ~(p \in PagesOf(r))
      BY <1>1, PagesOfMember DEF RangeType
    <3>2. QED
      BY <3>1
  <2>2. QED
    BY <1>1, <2>1 DEF FreePart
<1>2. CASE r.extent # 0
  <2>1. /\ ZoneStart(z) <= r.start
        /\ Span(z, r) \subseteq 0 .. (ZoneExtent(map, z) - 1)
        /\ Shift(z, Span(z, r)) = PagesOf(r)
    BY <1>0, <1>2, RangeOfZone
  <2>2. Covered(Marks(b, z)) \cap Span(z, r) = {}
    <3>1. ASSUME NEW p, p \in Covered(Marks(b, z)), p \in Span(z, r) PROVE FALSE
      <4>1. ZoneStart(z) + p \in FreeIn(b, z) /\ ZoneStart(z) + p \in PagesOf(r)
        BY <3>1 DEF FreeIn, Shift, Span
      <4>2. QED
        BY <4>1, FreeAllMember
    <3>2. QED
      BY <3>1
  <2> DEFINE c == buddy_free_range(b, z, r)
  <2>3. Gives(b, c, z, Span(z, r))
    BY <2>1, <2>2, FreeRangeEffect
  <2> HIDE DEF c
  <2>4. FreeAll(c) = FreeAll(b) \cup PagesOf(r)
    BY <2>1, <2>3, GivesFree
  <2>5. c \in SUBSET Nat /\ Sound(c)
    BY <2>3 DEF Gives
  <2>6. FreePart(b, z, r) = c
    BY <1>2 DEF FreePart, c
  <2>7. QED
    BY <2>4, <2>5, <2>6
<1>3. QED
  BY <1>1, <1>2

RangesApart(rs) ==
    \A n, l \in DOMAIN rs : n # l => PagesOf(rs[n]) \cap PagesOf(rs[l]) = {}

LEMMA RangePagesMember ==
    ASSUME NEW rs
    PROVE  \A p : p \in RangePages(rs) <=> \E n \in DOMAIN rs : p \in PagesOf(rs[n])
BY DEF RangePages

LEMMA HeadTailRanges ==
    ASSUME NEW rs \in Seq(RangeType), rs # <<>>
    PROVE  /\ Head(rs) \in RangeType /\ Tail(rs) \in Seq(RangeType)
           /\ Len(rs) \in Nat /\ Len(Tail(rs)) = Len(rs) - 1
           /\ RangePages(rs) = PagesOf(Head(rs)) \cup RangePages(Tail(rs))
           /\ RangesApart(rs) =>
                 /\ RangesApart(Tail(rs))
                 /\ PagesOf(Head(rs)) \cap RangePages(Tail(rs)) = {}
<1> DEFINE t == Tail(rs)  h == Head(rs)
<1>1. /\ h \in RangeType /\ t \in Seq(RangeType) /\ Len(t) = Len(rs) - 1
      /\ \A i \in 1 .. Len(t) : t[i] = rs[i + 1]
  BY HeadTailProperties
<1>2. h = rs[1] /\ Len(rs) \in Nat /\ DOMAIN rs = 1 .. Len(rs) /\ DOMAIN t = 1 .. Len(t)
  BY <1>1
<1>3. Len(rs) # 0
  BY EmptySeq
<1> HIDE DEF t, h
<1>4. \A n : n \in DOMAIN rs <=> n = 1 \/ (n \in Int /\ n - 1 \in DOMAIN t)
  BY <1>1, <1>2, <1>3
<1>5. \A n \in DOMAIN t : n + 1 \in DOMAIN rs /\ n + 1 # 1 /\ t[n] = rs[n + 1] /\ n \in Int
  BY <1>1, <1>2, <1>3
<1>6. 1 \in DOMAIN rs
  BY <1>2, <1>3
<1>7. ASSUME NEW n \in DOMAIN rs, n # 1
      PROVE  n - 1 \in DOMAIN t /\ t[n - 1] = rs[n]
  <2>1. n \in Int /\ n - 1 \in DOMAIN t /\ (n - 1) + 1 = n
    BY <1>4, <1>7
  <2>2. QED
    BY <1>5, <2>1
<1>8. \A p : p \in RangePages(rs) <=> p \in PagesOf(h) \/ p \in RangePages(t)
  <2>1. ASSUME NEW p, p \in RangePages(rs) PROVE p \in PagesOf(h) \/ p \in RangePages(t)
    <3>1. PICK n \in DOMAIN rs : p \in PagesOf(rs[n])
      BY <2>1, RangePagesMember
    <3>2. CASE n = 1
      BY <1>2, <3>1, <3>2
    <3>3. CASE n # 1
      <4>1. n - 1 \in DOMAIN t /\ p \in PagesOf(t[n - 1])
        BY <1>7, <3>1, <3>3
      <4>2. QED
        BY <4>1, RangePagesMember
    <3>4. QED
      BY <3>2, <3>3
  <2>2. ASSUME NEW p, p \in RangePages(t) PROVE p \in RangePages(rs)
    <3>1. PICK n \in DOMAIN t : p \in PagesOf(t[n])
      BY <2>2, RangePagesMember
    <3>2. n + 1 \in DOMAIN rs /\ p \in PagesOf(rs[n + 1])
      BY <1>5, <3>1
    <3>3. QED
      BY <3>2, RangePagesMember
  <2>3. \A p : p \in PagesOf(h) => p \in RangePages(rs)
    BY <1>2, <1>6, RangePagesMember
  <2>4. QED
    BY <2>1, <2>2, <2>3
<1>9. ASSUME RangesApart(rs)
      PROVE  RangesApart(t) /\ PagesOf(h) \cap RangePages(t) = {}
  <2>1. ASSUME NEW n \in DOMAIN t, NEW l \in DOMAIN t, n # l
        PROVE  PagesOf(t[n]) \cap PagesOf(t[l]) = {}
    <3>1. /\ n + 1 \in DOMAIN rs /\ l + 1 \in DOMAIN rs /\ n \in Int /\ l \in Int
          /\ t[n] = rs[n + 1] /\ t[l] = rs[l + 1]
      BY <1>5
    <3>2. n + 1 # l + 1
      BY <2>1, <3>1
    <3>3. QED
      BY <1>9, <3>1, <3>2 DEF RangesApart
  <2>2. ASSUME NEW p, p \in PagesOf(h), p \in RangePages(t) PROVE FALSE
    <3>1. PICK n \in DOMAIN t : p \in PagesOf(t[n])
      BY <2>2, RangePagesMember
    <3>2. n + 1 \in DOMAIN rs /\ n + 1 # 1 /\ t[n] = rs[n + 1]
      BY <1>5
    <3>3. PagesOf(rs[1]) \cap PagesOf(rs[n + 1]) = {}
      BY <1>6, <1>9, <3>2 DEF RangesApart
    <3>4. QED
      BY <1>2, <2>2, <3>1, <3>2, <3>3
  <2>3. QED
    BY <2>1, <2>2 DEF RangesApart
<1>10. QED
  BY <1>1, <1>2, <1>8, <1>9 DEF t, h

RegisterStep == [s \in RegisterStates |-> RegisterRound(s)]
RegisterRank == [s \in RegisterStates |-> Len(s.ranges)]

LEMMA RegisterFields ==
    ASSUME NEW s \in RegisterStates
    PROVE  /\ s.bits \in SUBSET Nat /\ s.ranges \in Seq(RangeType)
           /\ RegisterRank[s] = Len(s.ranges) /\ RegisterRank[s] \in Nat
           /\ (RegisterRank[s] = 0 <=> s.ranges = <<>>)
           /\ RegisterStep[s] = RegisterRound(s)
<1>1. s.bits \in SUBSET Nat /\ s.ranges \in Seq(RangeType)
  BY DEF RegisterStates
<1>2. Len(s.ranges) \in Nat /\ (Len(s.ranges) = 0 <=> s.ranges = <<>>)
  BY <1>1, EmptySeq
<1>3. QED
  BY <1>1, <1>2 DEF RegisterRank, RegisterStep

LEMMA RegisterDecreases ==
    ASSUME map \in MemoryMaps
    PROVE  Decreasing(RegisterStates, RegisterStep, RegisterRank)
<1>1. RegisterRank \in [RegisterStates -> Nat]
  <2>1. RegisterRank = [s \in RegisterStates |-> RegisterRank[s]]
    BY DEF RegisterRank
  <2>2. QED
    BY <2>1, RegisterFields
<1>2. ASSUME NEW s \in RegisterStates, RegisterRank[s] # 0
      PROVE  RegisterStep[s] \in RegisterStates /\ RegisterRank[RegisterStep[s]] < RegisterRank[s]
  <2> DEFINE r == Head(s.ranges)
             upper == Above(r, OneMB)
             b1 == FreePart(s.bits, UNDER1MB, Below(r, OneMB))
             b2 == FreePart(b1, UNDER4GB, Below(upper, FourGB))
             b3 == FreePart(b2, NONE, Above(upper, FourGB))
             t == RegisterRound(s)
  <2>1. /\ s.bits \in SUBSET Nat /\ s.ranges \in Seq(RangeType) /\ s.ranges # <<>>
        /\ RegisterStep[s] = t
    BY <1>2, RegisterFields
  <2>2. /\ r \in RangeType /\ Tail(s.ranges) \in Seq(RangeType)
        /\ Len(Tail(s.ranges)) = Len(s.ranges) - 1
    BY <2>1, HeadTailRanges
  <2>3. t = [bits |-> b3, ranges |-> Tail(s.ranges)]
    BY DEF RegisterRound
  <2>4. /\ ZoneStart(UNDER1MB) = 0 /\ ZoneStart(UNDER4GB) = OneMB /\ ZoneStart(NONE) = FourGB
        /\ UNDER1MB \in Zones /\ UNDER4GB \in Zones /\ NONE \in Zones
    BY DEF ZoneStart, Zones, UNDER1MB, UNDER4GB, NONE
  <2> HIDE DEF r
  <2>5. /\ Below(r, OneMB) \in RangeType /\ upper \in RangeType
        /\ upper.extent # 0 => OneMB <= upper.start
    BY <2>2, CutIs, PmmNats
  <2> HIDE DEF upper
  <2>6. /\ Below(upper, FourGB) \in RangeType /\ Above(upper, FourGB) \in RangeType
        /\ Above(upper, FourGB).extent # 0 => FourGB <= Above(upper, FourGB).start
        /\ Below(upper, FourGB).start = upper.start
        /\ Below(upper, FourGB).extent # 0 => upper.extent # 0
    <3>1. /\ Below(upper, FourGB) \in RangeType /\ Above(upper, FourGB) \in RangeType
          /\ Above(upper, FourGB).extent # 0 => FourGB <= Above(upper, FourGB).start
          /\ Below(upper, FourGB).start = upper.start
          /\ \A p : p \in PagesOf(Below(upper, FourGB)) => p \in PagesOf(upper)
      BY <2>5, CutIs, PmmNats
    <3>2. Below(upper, FourGB).extent # 0 => upper.start \in PagesOf(Below(upper, FourGB))
      BY <3>1, PagesOfMember DEF RangeType
    <3>3. upper.start \in PagesOf(upper) => upper.extent # 0
      BY <2>5, PagesOfMember DEF RangeType
    <3>4. QED
      BY <3>1, <3>2, <3>3
  <2>7. b1 \in SUBSET Nat
    <3>1. Below(r, OneMB).start \in Nat
      BY <2>5 DEF RangeType
    <3>2. 0 <= Below(r, OneMB).start
      BY <3>1
    <3>3. QED
      BY <2>1, <2>4, <2>5, <3>2, FreeRangeTypes
  <2> HIDE DEF b1
  <2>8. b2 \in SUBSET Nat
    BY <2>4, <2>5, <2>6, <2>7, FreeRangeTypes
  <2> HIDE DEF b2
  <2>9. b3 \in SUBSET Nat
    BY <2>4, <2>6, <2>8, FreeRangeTypes
  <2> HIDE DEF b3
  <2>10. t \in RegisterStates /\ t.ranges = Tail(s.ranges)
    BY <2>2, <2>3, <2>9 DEF RegisterStates
  <2> HIDE DEF t
  <2>11. RegisterRank[t] = Len(s.ranges) - 1 /\ RegisterRank[s] = Len(s.ranges) /\ Len(s.ranges) \in Nat
    BY <2>2, <2>10, RegisterFields
  <2>12. QED
    BY <2>1, <2>10, <2>11
<1>3. QED
  BY <1>1, <1>2 DEF Decreasing

LEMMA FreeEarlyRangesIs ==
    ASSUME map \in MemoryMaps
    PROVE  \A s \in RegisterStates :
               FreeEarlyRanges[s] = IF RegisterRank[s] = 0 THEN s ELSE FreeEarlyRanges[RegisterStep[s]]
<1> DEFINE Q(f) == f = [s \in RegisterStates |->
               IF s.ranges = <<>> THEN s ELSE f[RegisterRound(s)]]
<1>1. FreeEarlyRanges = CHOOSE f : Q(f)
  BY DEF FreeEarlyRanges
<1>2. ASSUME NEW s \in RegisterStates
      PROVE  (RegisterRank[s] = 0 <=> s.ranges = <<>>) /\ RegisterStep[s] = RegisterRound(s)
  BY RegisterFields
<1>3. PICK f : /\ f = [s \in RegisterStates |-> f[s]]
               /\ \A s \in RegisterStates : f[s] = IF RegisterRank[s] = 0 THEN s ELSE f[RegisterStep[s]]
  BY RegisterDecreases, LoopExists
<1>4. Q(f)
  BY <1>2, <1>3
<1>5. Q(FreeEarlyRanges)
  BY <1>1, <1>4
<1>6. \A s \in RegisterStates :
          FreeEarlyRanges[s] = IF s.ranges = <<>> THEN s ELSE FreeEarlyRanges[RegisterRound(s)]
  BY <1>5
<1>7. QED
  BY <1>2, <1>6

(* What a round keeps; G is the set of the free pages at the end.          *)
RegisterKept(G) ==
    {s \in RegisterStates :
        /\ Sound(s.bits)
        /\ RangesApart(s.ranges)
        /\ RangePages(s.ranges) \subseteq 0 .. (MaxExtent(map) - 1)
        /\ FreeAll(s.bits) \cup RangePages(s.ranges) = G
        /\ FreeAll(s.bits) \cap RangePages(s.ranges) = {}}

LEMMA RegisterStepKeeps ==
    ASSUME Layout, NEW G, NEW s \in RegisterKept(G), RegisterRank[s] # 0
    PROVE  RegisterStep[s] \in RegisterKept(G)
<1>0. map \in MemoryMaps /\ s \in RegisterStates
  BY DEF Layout, RegisterKept
<1> DEFINE rs == s.ranges
           r == Head(rs)
           upper == Above(r, OneMB)
           lo == Below(r, OneMB)
           mid == Below(upper, FourGB)
           hi == Above(upper, FourGB)
           b1 == FreePart(s.bits, UNDER1MB, lo)
           b2 == FreePart(b1, UNDER4GB, mid)
           b3 == FreePart(b2, NONE, hi)
           t == RegisterStep[s]
<1>1. /\ Sound(s.bits) /\ RangesApart(rs) /\ RangePages(rs) \subseteq 0 .. (MaxExtent(map) - 1)
      /\ FreeAll(s.bits) \cup RangePages(rs) = G /\ FreeAll(s.bits) \cap RangePages(rs) = {}
  BY DEF RegisterKept
<1>2. /\ s.bits \in SUBSET Nat /\ rs \in Seq(RangeType) /\ rs # <<>> /\ t = RegisterRound(s)
  BY <1>0, RegisterFields
<1>3. t = [bits |-> b3, ranges |-> Tail(rs)]
  BY <1>2 DEF RegisterRound
<1>4. t \in RegisterStates
  BY <1>0, RegisterDecreases DEF Decreasing
<1>5. /\ r \in RangeType /\ RangePages(rs) = PagesOf(r) \cup RangePages(Tail(rs))
      /\ RangesApart(Tail(rs)) /\ PagesOf(r) \cap RangePages(Tail(rs)) = {}
  BY <1>1, <1>2, HeadTailRanges
<1> HIDE DEF r, t
<1>6. /\ lo \in RangeType /\ upper \in RangeType
      /\ \A p : p \in PagesOf(lo) <=> p \in PagesOf(r) /\ p < OneMB
      /\ \A p : p \in PagesOf(upper) <=> p \in PagesOf(r) /\ OneMB <= p
  BY <1>5, CutIs, PmmNats
<1> HIDE DEF lo, upper
<1>7. /\ mid \in RangeType /\ hi \in RangeType
      /\ \A p : p \in PagesOf(mid) <=> p \in PagesOf(upper) /\ p < FourGB
      /\ \A p : p \in PagesOf(hi) <=> p \in PagesOf(upper) /\ FourGB <= p
  BY <1>6, CutIs, PmmNats
<1> HIDE DEF mid, hi
<1>8. \A p \in PagesOf(r) : p \in Nat /\ p < MaxExtent(map)
  <2>1. PagesOf(r) \subseteq 0 .. (MaxExtent(map) - 1)
    BY <1>1, <1>5
  <2>2. QED
    BY <1>0, <2>1, MaxExtentIs
<1>9. /\ PagesOf(lo) \subseteq InMap(UNDER1MB) /\ PagesOf(mid) \subseteq InMap(UNDER4GB)
      /\ PagesOf(hi) \subseteq InMap(NONE)
  <2>1. ASSUME NEW p \in PagesOf(r)
        PROVE  /\ p < OneMB => ZoneOf(p) = UNDER1MB
               /\ OneMB <= p /\ p < FourGB => ZoneOf(p) = UNDER4GB
               /\ OneMB <= p /\ FourGB <= p => ZoneOf(p) = NONE
    BY <1>8, PmmNats DEF ZoneOf
  <2>2. QED
    BY <1>6, <1>7, <1>8, <2>1 DEF InMap
<1>10. /\ \A p : p \in PagesOf(r) <=> p \in PagesOf(lo) \/ p \in PagesOf(mid) \/ p \in PagesOf(hi)
       /\ PagesOf(lo) \cap PagesOf(mid) = {}
       /\ (PagesOf(lo) \cup PagesOf(mid)) \cap PagesOf(hi) = {}
  <2>1. \A p \in PagesOf(r) : (p < OneMB <=> ~(OneMB <= p)) /\ (p < FourGB <=> ~(FourGB <= p))
    BY <1>8, PmmNats
  <2>2. QED
    BY <1>6, <1>7, <2>1
<1>11. UNDER1MB \in Zones /\ UNDER4GB \in Zones /\ NONE \in Zones
  BY DEF Zones
<1>12. b1 \in SUBSET Nat /\ Sound(b1) /\ FreeAll(b1) = FreeAll(s.bits) \cup PagesOf(lo)
  <2>1. PagesOf(lo) \cap FreeAll(s.bits) = {}
    BY <1>1, <1>5, <1>6
  <2>2. QED
    BY <1>1, <1>2, <1>6, <1>9, <1>11, <2>1, FreePartEffect
<1> HIDE DEF b1
<1>13. b2 \in SUBSET Nat /\ Sound(b2) /\ FreeAll(b2) = FreeAll(b1) \cup PagesOf(mid)
  <2>1. PagesOf(mid) \cap FreeAll(b1) = {}
    BY <1>1, <1>5, <1>10, <1>12
  <2>2. QED
    BY <1>7, <1>9, <1>11, <1>12, <2>1, FreePartEffect
<1> HIDE DEF b2
<1>14. b3 \in SUBSET Nat /\ Sound(b3) /\ FreeAll(b3) = FreeAll(b2) \cup PagesOf(hi)
  <2>1. PagesOf(hi) \cap FreeAll(b2) = {}
    BY <1>1, <1>5, <1>10, <1>12, <1>13
  <2>2. QED
    BY <1>7, <1>9, <1>11, <1>13, <2>1, FreePartEffect
<1> HIDE DEF b3
<1>15. FreeAll(b3) = FreeAll(s.bits) \cup PagesOf(r)
  BY <1>10, <1>12, <1>13, <1>14
<1>16. t.bits = b3 /\ t.ranges = Tail(rs)
  BY <1>3
<1>17. /\ RangePages(t.ranges) \subseteq 0 .. (MaxExtent(map) - 1)
       /\ FreeAll(t.bits) \cup RangePages(t.ranges) = G
       /\ FreeAll(t.bits) \cap RangePages(t.ranges) = {}
  BY <1>1, <1>5, <1>15, <1>16
<1>18. t \in RegisterKept(G)
  BY <1>4, <1>5, <1>14, <1>16, <1>17 DEF RegisterKept
<1>19. QED
  BY <1>18 DEF t

(* Storage without a bit set.                                              *)
LEMMA NoBits ==
    ASSUME map \in MemoryMaps
    PROVE  Sound({}) /\ FreeAll({}) = {}
<1>1. ASSUME NEW z \in Zones
      PROVE  Covered(Marks({}, z)) = {} /\ Apart(Marks({}, z)) /\ Unpaired(Marks({}, z))
  <2>1. \A k \in Orders : \A i : ~(i \in Marks({}, z)[k])
    BY MarksMember
  <2>2. \A p : ~(p \in Covered(Marks({}, z)))
    BY <2>1, CoveredMember
  <2>3. QED
    BY <2>1, <2>2 DEF Apart, Unpaired
<1>2. Sound({})
  BY <1>1 DEF Sound, Framed
<1>3. FreeAll({}) = {}
  BY <1>1 DEF FreeAll, FreeIn, Shift
<1>4. QED
  BY <1>2, <1>3

(* init_physical_memory frees exactly the pages of the ranges.             *)
LEMMA RegisterEffect ==
    ASSUME Layout, NEW rs \in Seq(RangeType), RangesApart(rs),
           RangePages(rs) \subseteq 0 .. (MaxExtent(map) - 1)
    PROVE  LET c == FreeEarlyRanges[[bits |-> {}, ranges |-> rs]].bits
           IN  c \in SUBSET Nat /\ Sound(c) /\ FreeAll(c) = RangePages(rs)
<1> DEFINE s0 == [bits |-> {}, ranges |-> rs]
           s == FreeEarlyRanges[s0]
           G == RangePages(rs)
           J == RegisterKept(G)
<1>0. map \in MemoryMaps
  BY DEF Layout
<1>1. s0 \in RegisterStates /\ s0.bits = {} /\ s0.ranges = rs
  BY DEF RegisterStates
<1>2. s0 \in J
  <2> HIDE DEF s0
  <2>1. QED
    BY <1>0, <1>1, NoBits DEF RegisterKept
<1> HIDE DEF G
<1>3. s \in J /\ RegisterRank[s] = 0
  <2>1. J \subseteq RegisterStates
    BY DEF RegisterKept
  <2>2. \A t \in J : RegisterRank[t] # 0 => RegisterStep[t] \in J
    BY RegisterStepKeeps
  <2>3. Decreasing(RegisterStates, RegisterStep, RegisterRank)
    BY <1>0, RegisterDecreases
  <2>4. \A t \in RegisterStates :
            FreeEarlyRanges[t] = IF RegisterRank[t] = 0 THEN t ELSE FreeEarlyRanges[RegisterStep[t]]
    BY <1>0, FreeEarlyRangesIs
  <2> HIDE DEF J, s0
  <2>5. QED
    BY <1>2, <2>1, <2>2, <2>3, <2>4, LoopKeeps
<1>4. s = FreeEarlyRanges[[bits |-> {}, ranges |-> rs]]
  OBVIOUS
<1> HIDE DEF s
<1>5. s \in RegisterStates /\ Sound(s.bits) /\ FreeAll(s.bits) \cup RangePages(s.ranges) = G
  BY <1>3 DEF RegisterKept
<1>6. s.bits \in SUBSET Nat /\ s.ranges = <<>>
  BY <1>3, <1>5, RegisterFields
<1>7. RangePages(s.ranges) = {}
  <2>1. \A n : ~(n \in DOMAIN s.ranges)
    BY <1>6
  <2>2. QED
    BY <2>1 DEF RangePages
<1>8. QED
  BY <1>4, <1>5, <1>6, <1>7 DEF G

-----------------------------------------------------------------------------
(* early_alloc_page                                                        *)

LEMMA EarlyTakeIs ==
    ASSUME NEW rs \in Seq(RangeType), EarlyFit(rs) # {}
    PROVE  LET n == Min(EarlyFit(rs))
           IN  /\ n \in DOMAIN rs /\ EarlyTake(rs) \in Seq(RangeType)
               /\ rs[n].start \in RangePages(rs) /\ rs[n].start \in Nat
               /\ RangesApart(rs) =>
                     /\ RangesApart(EarlyTake(rs))
                     /\ RangePages(EarlyTake(rs)) = RangePages(rs) \ {rs[n].start}
<1> DEFINE n == Min(EarlyFit(rs))  x == rs[n].start  e == rs[n].extent
           q == [start |-> x + 1, extent |-> e - 1]
           t == EarlyTake(rs)
<1>1. DOMAIN rs = 1 .. Len(rs) /\ Len(rs) \in Nat
  OBVIOUS
<1>2. EarlyFit(rs) \subseteq Nat
  BY <1>1 DEF EarlyFit
<1>3. n \in EarlyFit(rs)
  BY <1>2, MinOf
<1>4. n \in DOMAIN rs /\ e > 1
  BY <1>3 DEF EarlyFit
<1>5. t = [rs EXCEPT ![n] = q]
  BY DEF EarlyTake
<1> HIDE DEF n, t
<1>6. rs[n] \in RangeType /\ x \in Nat /\ e \in Nat
  BY <1>4, RangeFields
<1>7. q \in RangeType /\ q.start = x + 1 /\ q.extent = e - 1
  BY <1>4, <1>6 DEF RangeType
<1> HIDE DEF q
<1>8. /\ t \in Seq(RangeType) /\ DOMAIN t = DOMAIN rs /\ t[n] = q
      /\ \A l \in DOMAIN rs : l # n => t[l] = rs[l]
  BY <1>1, <1>4, <1>5, <1>7, ExceptSeq
<1>9. \A p : p \in PagesOf(rs[n]) <=> p \in Nat /\ x <= p /\ p < x + e
  BY <1>6, PagesOfMember
<1>10. \A p : p \in PagesOf(q) <=> p \in Nat /\ x + 1 <= p /\ p < (x + 1) + (e - 1)
  BY <1>7, PagesOfMember
<1>11. x \in PagesOf(rs[n]) /\ \A p : p \in PagesOf(q) <=> p \in PagesOf(rs[n]) /\ p # x
  <2> HIDE DEF x, e
  <2>1. QED
    BY <1>4, <1>6, <1>9, <1>10
<1>12. x \in RangePages(rs)
  BY <1>4, <1>11, RangePagesMember
<1>13. ASSUME RangesApart(rs)
       PROVE  RangesApart(t) /\ RangePages(t) = RangePages(rs) \ {x}
  <2>1. \A l \in DOMAIN rs : PagesOf(t[l]) \subseteq PagesOf(rs[l])
    BY <1>8, <1>11
  <2>2. RangesApart(t)
    BY <1>8, <1>13, <2>1 DEF RangesApart
  <2>3. \A l \in DOMAIN rs : l # n => x \notin PagesOf(rs[l])
    BY <1>4, <1>11, <1>13 DEF RangesApart
  <2>4. \A l \in DOMAIN rs : \A p : p \in PagesOf(t[l]) <=> p \in PagesOf(rs[l]) /\ p # x
    BY <1>8, <1>11, <2>3
  <2>5. \A p : p \in RangePages(t) <=> p \in RangePages(rs) /\ p # x
    BY <1>8, <2>4, RangePagesMember
  <2>6. QED
    BY <2>2, <2>5
<1>14. QED
  BY <1>4, <1>6, <1>8, <1>12, <1>13 DEF n, t

TakeEnds(s) == s.left = 0 \/ EarlyFit(s.ranges) = {}
TakeStep == [s \in TakeStates |-> [ranges |-> EarlyTake(s.ranges), left |-> s.left - 1]]
TakeRank == [s \in TakeStates |-> IF TakeEnds(s) THEN 0 ELSE s.left]

LEMMA TakeFields ==
    ASSUME NEW s \in TakeStates
    PROVE  /\ s.ranges \in Seq(RangeType) /\ s.left \in Nat
           /\ TakeRank[s] \in Nat /\ TakeRank[s] <= s.left
           /\ (TakeRank[s] = 0 <=> TakeEnds(s))
           /\ TakeStep[s] = [ranges |-> EarlyTake(s.ranges), left |-> s.left - 1]
<1>1. s.ranges \in Seq(RangeType) /\ s.left \in Nat
  BY DEF TakeStates
<1>2. /\ TakeRank[s] = IF TakeEnds(s) THEN 0 ELSE s.left
      /\ TakeStep[s] = [ranges |-> EarlyTake(s.ranges), left |-> s.left - 1]
  BY DEF TakeRank, TakeStep
<1>3. s.left = 0 => TakeEnds(s)
  BY DEF TakeEnds
<1>4. QED
  BY <1>1, <1>2, <1>3

LEMMA TakeDecreases == Decreasing(TakeStates, TakeStep, TakeRank)
<1>1. TakeRank \in [TakeStates -> Nat]
  <2>1. TakeRank = [s \in TakeStates |-> TakeRank[s]]
    BY DEF TakeRank
  <2>2. QED
    BY <2>1, TakeFields
<1>2. ASSUME NEW s \in TakeStates, TakeRank[s] # 0
      PROVE  TakeStep[s] \in TakeStates /\ TakeRank[TakeStep[s]] < TakeRank[s]
  <2> DEFINE t == TakeStep[s]
  <2>1. /\ s.ranges \in Seq(RangeType) /\ s.left \in Nat /\ ~TakeEnds(s)
        /\ t = [ranges |-> EarlyTake(s.ranges), left |-> s.left - 1]
    BY <1>2, TakeFields
  <2>2. s.left # 0 /\ EarlyFit(s.ranges) # {}
    BY <2>1 DEF TakeEnds
  <2>3. EarlyTake(s.ranges) \in Seq(RangeType) /\ s.left - 1 \in Nat
    BY <2>1, <2>2, EarlyTakeIs
  <2> HIDE DEF t
  <2>4. t \in TakeStates /\ t.left = s.left - 1
    BY <2>1, <2>3 DEF TakeStates
  <2>5. TakeRank[t] \in Nat /\ TakeRank[t] <= s.left - 1
    BY <2>4, TakeFields
  <2>6. TakeRank[s] = s.left
    BY <2>1 DEF TakeRank
  <2>7. t \in TakeStates /\ TakeRank[t] < TakeRank[s]
    BY <2>1, <2>4, <2>5, <2>6
  <2>8. QED
    BY <2>7 DEF t
<1>3. QED
  BY <1>1, <1>2 DEF Decreasing

LEMMA EarlyTakeManyIs ==
    \A s \in TakeStates :
        EarlyTakeMany[s] = IF TakeRank[s] = 0 THEN s ELSE EarlyTakeMany[TakeStep[s]]
<1> DEFINE R(f) == f = [s \in TakeStates |->
               IF s.left = 0 \/ EarlyFit(s.ranges) = {} THEN s
               ELSE f[[ranges |-> EarlyTake(s.ranges), left |-> s.left - 1]]]
           Q(f) == f = [s \in TakeStates |-> IF TakeEnds(s) THEN s
               ELSE f[[ranges |-> EarlyTake(s.ranges), left |-> s.left - 1]]]
<1>1. EarlyTakeMany = CHOOSE f : R(f)
  BY DEF EarlyTakeMany
<1>2. \A f : R(f) <=> Q(f)
  BY DEF TakeEnds
<1> HIDE DEF R
<1>3. ASSUME NEW s \in TakeStates
      PROVE  /\ TakeRank[s] = 0 <=> TakeEnds(s)
             /\ TakeStep[s] = [ranges |-> EarlyTake(s.ranges), left |-> s.left - 1]
  BY TakeFields
<1>4. PICK f : /\ f = [s \in TakeStates |-> f[s]]
               /\ \A s \in TakeStates : f[s] = IF TakeRank[s] = 0 THEN s ELSE f[TakeStep[s]]
  BY TakeDecreases, LoopExists
<1>5. Q(f)
  BY <1>3, <1>4
<1>6. Q(EarlyTakeMany)
  BY <1>1, <1>2, <1>5
<1>7. \A s \in TakeStates : EarlyTakeMany[s] = IF TakeEnds(s) THEN s
          ELSE EarlyTakeMany[[ranges |-> EarlyTake(s.ranges), left |-> s.left - 1]]
  BY <1>6
<1>8. QED
  BY <1>3, <1>7

(* The pages of the bitmaps come out of the ranges.                        *)
LEMMA EarlyTakeManyEffect ==
    ASSUME NEW rs \in Seq(RangeType), RangesApart(rs), NEW left \in Nat
    PROVE  LET s == EarlyTakeMany[[ranges |-> rs, left |-> left]]
           IN  /\ s.ranges \in Seq(RangeType) /\ RangesApart(s.ranges) /\ s.left \in Nat
               /\ RangePages(s.ranges) \subseteq RangePages(rs)
<1> DEFINE s0 == [ranges |-> rs, left |-> left]
           J == {s \in TakeStates : RangesApart(s.ranges) /\ RangePages(s.ranges) \subseteq RangePages(rs)}
<1>1. s0 \in TakeStates /\ s0.ranges = rs
  BY DEF TakeStates
<1>2. J \subseteq TakeStates
  OBVIOUS
<1>3. ASSUME NEW s \in J, TakeRank[s] # 0 PROVE TakeStep[s] \in J
  <2> DEFINE t == TakeStep[s]
  <2>1. t \in TakeStates
    BY <1>3, TakeDecreases DEF Decreasing
  <2>2. /\ s.ranges \in Seq(RangeType) /\ ~TakeEnds(s)
        /\ t = [ranges |-> EarlyTake(s.ranges), left |-> s.left - 1]
    BY <1>3, TakeFields
  <2>3. EarlyFit(s.ranges) # {} /\ t.ranges = EarlyTake(s.ranges)
    BY <2>2 DEF TakeEnds
  <2>4. RangesApart(t.ranges) /\ RangePages(t.ranges) \subseteq RangePages(s.ranges)
    BY <2>2, <2>3, EarlyTakeIs
  <2> HIDE DEF t
  <2>5. t \in J
    BY <2>1, <2>4
  <2>6. QED
    BY <2>5 DEF t
<1> HIDE DEF s0
<1>4. s0 \in J
  BY <1>1
<1> HIDE DEF J
<1>5. EarlyTakeMany[s0] \in J
  BY <1>2, <1>3, <1>4, TakeDecreases, EarlyTakeManyIs, LoopKeeps
<1> DEFINE s == EarlyTakeMany[s0]
<1> HIDE DEF s
<1>6. s \in TakeStates /\ RangesApart(s.ranges) /\ RangePages(s.ranges) \subseteq RangePages(rs)
  BY <1>5 DEF J, s
<1>7. s = EarlyTakeMany[[ranges |-> rs, left |-> left]]
  BY DEF s, s0
<1>8. QED
  BY <1>6, <1>7, TakeFields

-----------------------------------------------------------------------------
(* The inductive invariant of the physical memory manager                  *)

EarlyInv ==
    /\ early_ranges \in Seq(RangeType)
    /\ RangesApart(early_ranges)
    /\ RangePages(early_ranges) \subseteq Reported \ KernelPages
    /\ RangePages(early_ranges) \cap taken = {}
    /\ handed = {}

FullInv ==
    /\ Sound(bits)
    /\ FreeAll(bits) \cup handed = registered
    /\ FreeAll(bits) \cap handed = {}
    /\ registered \cap taken = {}
    /\ registered \subseteq Reported \ KernelPages

PmmIInv ==
    /\ PmmTypes
    /\ taken \cap handed = {}
    /\ taken \cup handed \subseteq Reported \ KernelPages
    /\ stage = "START" => taken = {} /\ handed = {}
    /\ stage \in {"START", "EARLY"} => last = NoCall
    /\ stage = "EARLY" => EarlyInv
    /\ stage = "FULL" => FullInv
    /\ ZonePromise
    /\ NoSpuriousFailure

(* Operators of the state after a step that keeps the map.                 *)
LEMMA SameMap ==
    ASSUME map' = map
    PROVE  /\ Reported' = Reported
           /\ Sound(bits)' <=> Sound(bits')
           /\ FreeAll(bits)' = FreeAll(bits')
           /\ \A z \in Zones : MarkedFree(z)' = FreeIn(bits', z)
           /\ \A z, k : Extent(z, k)' = Extent(z, k)
<1>1. Reported' = Reported
  BY DEF Reported
<1>2. \A z, k : Extent(z, k)' = Extent(z, k)
  BY DEF Extent
<1>3. \A z, k, i : BitOf(z, k, i)' = BitOf(z, k, i)
  BY DEF BitOf
<1>4. \A z : Marks(bits, z)' = Marks(bits', z)
  BY <1>2, <1>3 DEF Marks
<1>5. Sound(bits)' <=> Sound(bits')
  BY <1>4 DEF Sound, Framed
<1>6. \A z : FreeIn(bits, z)' = FreeIn(bits', z)
  BY <1>4 DEF FreeIn, Shift
<1>7. FreeAll(bits)' = FreeAll(bits')
  BY <1>6 DEF FreeAll
<1>8. \A z \in Zones : MarkedFree(z)' = FreeIn(bits', z)
  BY <1>4 DEF MarkedFree, FreeIn, Shift
<1>9. QED
  BY <1>1, <1>2, <1>5, <1>7, <1>8

LEMMA SameCall ==
    ASSUME UNCHANGED <<last, bits, map>>, ZonePromise, NoSpuriousFailure
    PROVE  ZonePromise' /\ NoSpuriousFailure'
<1>1. ZonePromise'
  BY DEF ZonePromise
<1>2. NoSpuriousFailure'
  BY DEF NoSpuriousFailure, MarkedFree, Marks, Extent, BitOf
<1>3. QED
  BY <1>1, <1>2

LEMMA NoCallFails == last = NoCall => ZonePromise /\ NoSpuriousFailure
BY DEF NoCall, ZonePromise, NoSpuriousFailure

LEMMA NoCallFailsNext == last' = NoCall => ZonePromise' /\ NoSpuriousFailure'
BY DEF NoCall, ZonePromise, NoSpuriousFailure

LEMMA NoCallType == NoCall \in [req : Zones, num : 0 .. MaxNum, page : Nat \cup {Fail}]
BY PmmNats DEF NoCall, Zones

LEMMA PmmInitIInv == PmmInit => PmmIInv
<1> SUFFICES ASSUME PmmInit PROVE PmmIInv
  OBVIOUS
<1>1. PmmTypes
  BY NoCallType, PmmNats DEF PmmInit, PmmTypes
<1>2. ZonePromise /\ NoSpuriousFailure
  BY NoCallFails DEF PmmInit
<1>3. QED
  BY <1>1, <1>2 DEF PmmInit, PmmIInv

LEMMA PanicIInv == PmmIInv /\ panic => PmmIInv'
<1> SUFFICES ASSUME PmmIInv, panic PROVE PmmIInv'
  OBVIOUS
<1>1. /\ stage' = "PANIC" /\ map' = map /\ last' = last /\ bits' = bits /\ taken' = taken
      /\ handed' = handed /\ tables' = tables /\ early_ranges' = early_ranges
      /\ registered' = registered
  BY DEF panic
<1>2. PmmTypes'
  BY <1>1 DEF PmmTypes, PmmIInv
<1>3. ZonePromise' /\ NoSpuriousFailure'
  BY <1>1, SameCall DEF PmmIInv
<1>4. Reported' = Reported
  BY <1>1, SameMap
<1>5. QED
  BY <1>1, <1>2, <1>3, <1>4 DEF PmmIInv

LEMMA RemoveRangeIs ==
    ASSUME NEW m \in MemoryMaps, NEW n \in DOMAIN m
    PROVE  /\ remove_range(m[n]) \in RangeType
           /\ \A p \in PagesOf(remove_range(m[n])) : p \in PagesOf(m[n]) /\ p \notin KernelPages
<1> DEFINE r == m[n]  x == r.start  e == r.extent
<1>1. r \in RangeType /\ x \in Nat /\ e \in Nat
  BY RangeFields, PmmNats
<1>2. /\ x = OneMB => e >= KernelEnd
      /\ x < KernelEnd /\ x + e > OneMB => x = OneMB
  BY PmmAssumption
<1>3. \A p : p \in PagesOf(r) <=> p \in Nat /\ x <= p /\ p < x + e
  BY <1>1, PagesOfMember
<1>4. CASE x = OneMB
  <2> DEFINE q == remove_range(r)
  <2>1. q = [start |-> x + KernelEnd, extent |-> e - KernelEnd]
    BY <1>4 DEF remove_range
  <2>2. e - KernelEnd \in Nat /\ x + KernelEnd \in Nat
    BY <1>1, <1>2, <1>4, PmmNats
  <2>3. q \in RangeType /\ q.start = x + KernelEnd /\ q.extent = e - KernelEnd
    BY <2>1, <2>2 DEF RangeType
  <2> HIDE DEF q
  <2>4. \A p : p \in PagesOf(q) <=>
            p \in Nat /\ x + KernelEnd <= p /\ p < (x + KernelEnd) + (e - KernelEnd)
    BY <2>3, PagesOfMember
  <2>5. \A p \in PagesOf(q) : p \in Nat /\ x <= p /\ p < x + e /\ KernelEnd <= p
    <3> HIDE DEF x, e
    <3>1. QED
      BY <1>1, <2>4, PmmNats
  <2>6. \A p \in PagesOf(q) : p \in PagesOf(r) /\ p \notin KernelPages
    BY <1>3, <2>5, PmmNats DEF KernelPages
  <2>7. QED
    BY <2>3, <2>6 DEF q
<1>5. CASE x # OneMB
  <2>1. remove_range(r) = r
    BY <1>5 DEF remove_range
  <2>2. ~(x < KernelEnd) \/ ~(x + e > OneMB)
    BY <1>2, <1>5
  <2>3. \A p \in PagesOf(r) : p \notin OneMB .. (KernelEnd - 1)
    <3> HIDE DEF x, e
    <3>1. QED
      BY <1>1, <1>3, <2>2, PmmNats
  <2>4. QED
    BY <1>1, <2>1, <2>3 DEF KernelPages
<1>6. QED
  BY <1>4, <1>5

(* remove_range keeps the ranges apart, and off the kernel's image.        *)
LEMMA EarlyInitEarly ==
    ASSUME MapsApart, map \in MemoryMaps, taken = {}, handed = {}, init_physical_memory_early
    PROVE  EarlyInv'
<1> DEFINE rs == [n \in DOMAIN map |-> remove_range(map[n])]
<1>1. map' = map /\ taken' = taken /\ handed' = handed /\ early_ranges' = rs
  BY DEF init_physical_memory_early
<1>2. map \in Seq(RangeType)
  BY PmmNats
<1>3. \A n \in DOMAIN map :
          /\ remove_range(map[n]) \in RangeType
          /\ \A p \in PagesOf(remove_range(map[n])) : p \in PagesOf(map[n]) /\ p \notin KernelPages
  BY RemoveRangeIs
<1>4. rs \in Seq(RangeType)
  <2>1. Len(map) \in Nat /\ DOMAIN map = 1 .. Len(map)
    BY <1>2
  <2>2. rs \in [1 .. Len(map) -> RangeType]
    BY <1>3, <2>1
  <2>3. QED
    BY <2>1, <2>2, SeqDef
<1>5. DOMAIN rs = DOMAIN map /\ \A n \in DOMAIN map : rs[n] = remove_range(map[n])
  OBVIOUS
<1> HIDE DEF rs
<1>6. RangesApart(rs)
  <2>1. \A n, l \in DOMAIN map : n # l => PagesOf(map[n]) \cap PagesOf(map[l]) = {}
    BY DEF MapsApart
  <2>2. QED
    BY <1>3, <1>5, <2>1 DEF RangesApart
<1>7. RangePages(rs) \subseteq Reported \ KernelPages
  <2>1. \A p \in RangePages(rs) : \E n \in DOMAIN map : p \in PagesOf(map[n]) /\ p \notin KernelPages
    BY <1>3, <1>5, RangePagesMember
  <2>2. QED
    BY <2>1 DEF Reported
<1>8. Reported' = Reported /\ KernelPages' = KernelPages
  BY <1>1, SameMap DEF KernelPages
<1>9. RangesApart(early_ranges)' /\ RangePages(early_ranges)' = RangePages(rs)
  BY <1>1, <1>6 DEF RangesApart, RangePages, PagesOf
<1>10. QED
  BY <1>1, <1>4, <1>7, <1>8, <1>9 DEF EarlyInv

LEMMA EarlyInitIInv ==
    MapsApart /\ PmmIInv /\ init_physical_memory_early => PmmIInv'
<1> SUFFICES ASSUME MapsApart, PmmIInv, init_physical_memory_early PROVE PmmIInv'
  OBVIOUS
<1>1. /\ stage = "START" /\ stage' = "EARLY" /\ map' = map /\ last' = last /\ bits' = bits
      /\ taken' = taken /\ handed' = handed /\ tables' = tables /\ registered' = registered
  BY DEF init_physical_memory_early
<1>2. PmmTypes /\ map \in MemoryMaps /\ taken = {} /\ handed = {} /\ last = NoCall
  BY <1>1 DEF PmmIInv, PmmTypes
<1>3. EarlyInv'
  BY <1>2, EarlyInitEarly
<1>4. PmmTypes'
  <2>1. early_ranges' \in Seq(RangeType)
    BY <1>3 DEF EarlyInv
  <2>2. \A n \in DOMAIN early_ranges' : early_ranges'[n] \in [start : Nat, extent : Nat]
    BY <2>1, RangeFields DEF RangeType
  <2>3. QED
    BY <1>1, <1>2, <2>2 DEF PmmTypes
<1>5. ZonePromise' /\ NoSpuriousFailure'
  BY <1>1, SameCall DEF PmmIInv
<1>6. QED
  BY <1>1, <1>2, <1>3, <1>4, <1>5 DEF PmmIInv

LEMMA ReportedNat ==
    ASSUME map \in MemoryMaps
    PROVE  Reported \subseteq 0 .. (MaxExtent(map) - 1) /\ Reported \subseteq Nat
<1>1. ASSUME NEW p \in Reported PROVE p \in Nat /\ p < MaxExtent(map)
  <2>1. PICK n \in DOMAIN map : p \in PagesOf(map[n])
    BY DEF Reported
  <2>2. map[n] \in RangeType /\ map[n].start \in Nat /\ map[n].extent \in Nat
    BY RangeFields, PmmNats
  <2>3. p \in Nat /\ p < map[n].start + map[n].extent
    BY <2>1, <2>2, PagesOfMember
  <2>4. map[n].start + map[n].extent <= MaxExtent(map) /\ MaxExtent(map) \in Nat
    BY MaxExtentIs
  <2>5. QED
    BY <2>2, <2>3, <2>4
<1>2. MaxExtent(map) \in Nat
  BY MaxExtentIs
<1>3. QED
  BY <1>1, <1>2

LEMMA EarlyAllocIInv == PmmIInv /\ early_alloc_page => PmmIInv'
<1> SUFFICES ASSUME PmmIInv, early_alloc_page PROVE PmmIInv'
  OBVIOUS
<1>1. CASE EarlyFit(early_ranges) = {}
  <2>1. panic
    BY <1>1 DEF early_alloc_page
  <2>2. QED
    BY <2>1, PanicIInv
<1>2. CASE EarlyFit(early_ranges) # {}
  <2> DEFINE rs == early_ranges  x == rs[Min(EarlyFit(rs))].start  qs == EarlyTake(rs)
  <2>1. /\ stage = "EARLY" /\ stage' = stage /\ map' = map /\ last' = last /\ bits' = bits
        /\ taken' = taken \cup {x} /\ handed' = handed /\ tables > 0 /\ tables' = tables - 1
        /\ early_ranges' = qs /\ registered' = registered
    BY <1>2 DEF early_alloc_page
  <2>2. PmmTypes /\ map \in MemoryMaps /\ EarlyInv /\ last = NoCall
    BY <2>1 DEF PmmIInv, PmmTypes
  <2>3. /\ rs \in Seq(RangeType) /\ RangesApart(rs) /\ RangePages(rs) \cap taken = {}
        /\ RangePages(rs) \subseteq Reported \ KernelPages /\ handed = {}
    BY <2>2 DEF EarlyInv
  <2>4. /\ qs \in Seq(RangeType) /\ x \in RangePages(rs) /\ x \in Nat /\ RangesApart(qs)
        /\ RangePages(qs) = RangePages(rs) \ {x}
    BY <1>2, <2>3, EarlyTakeIs
  <2> HIDE DEF x, qs
  <2>5. Reported' = Reported /\ KernelPages' = KernelPages
    BY <2>1, SameMap DEF KernelPages
  <2>6. EarlyInv'
    <3>1. RangesApart(early_ranges)' /\ RangePages(early_ranges)' = RangePages(qs)
      BY <2>1, <2>4 DEF RangesApart, RangePages, PagesOf
    <3>2. QED
      BY <2>1, <2>3, <2>4, <2>5, <3>1 DEF EarlyInv
  <2>7. PmmTypes'
    <3>1. tables - 1 \in 0 .. PageTables
      BY <2>1, <2>2, PmmNats DEF PmmTypes
    <3>2. \A n \in DOMAIN qs : qs[n] \in [start : Nat, extent : Nat]
      BY <2>4, RangeFields DEF RangeType
    <3>3. QED
      BY <2>1, <2>2, <2>4, <3>1, <3>2 DEF PmmTypes
  <2>8. ZonePromise' /\ NoSpuriousFailure'
    BY <2>1, SameCall DEF PmmIInv
  <2>9. /\ (taken \cap handed = {})'
        /\ (taken \cup handed \subseteq Reported \ KernelPages)'
    BY <2>1, <2>3, <2>4, <2>5 DEF PmmIInv
  <2>10. QED
    BY <2>1, <2>2, <2>6, <2>7, <2>8, <2>9 DEF PmmIInv
<1>3. QED
  BY <1>1, <1>2

LEMMA BitmapPagesNat ==
    ASSUME map \in MemoryMaps
    PROVE  BitmapPages \in Nat
<1> DEFINE x == buddy_calc_overhead(map, 0)  y == buddy_calc_overhead(map, 1)
           z == buddy_calc_overhead(map, 2)  e == x + y + z + PageBytes - 1
<1>1. 0 \in Zones /\ 1 \in Zones /\ 2 \in Zones
  BY DEF Zones, NONE, UNDER1MB, UNDER4GB
<1>2. x \in Nat /\ y \in Nat /\ z \in Nat
  BY <1>1, StorageIs
<1>3. BitmapPages = e \div PageBytes
  BY DEF BitmapPages
<1> HIDE DEF x, y, z
<1>4. e \in Nat
  BY <1>2, PmmNats
<1> HIDE DEF e
<1>5. e \div PageBytes \in Nat
  BY <1>4, PmmNats, Quotient
<1>6. QED
  BY <1>3, <1>5

LEMMA RegisterIInv == StorageFits /\ PmmIInv /\ init_physical_memory => PmmIInv'
<1> SUFFICES ASSUME StorageFits, PmmIInv, init_physical_memory PROVE PmmIInv'
  OBVIOUS
<1> DEFINE s == EarlyTakeMany[[ranges |-> early_ranges, left |-> BitmapPages]]
           rs == s.ranges
           c == FreeEarlyRanges[[bits |-> {}, ranges |-> rs]].bits
           es == [n \in DOMAIN rs |-> Above(Above(rs[n], OneMB), FourGB)]
<1>1. CASE s.left > 0
  <2>1. panic
    BY <1>1 DEF init_physical_memory
  <2>2. QED
    BY <2>1, PanicIInv
<1>2. CASE ~(s.left > 0)
  <2>1. /\ stage = "EARLY" /\ stage' = "FULL" /\ map' = map /\ last' = last
        /\ taken' = taken \cup (RangePages(early_ranges) \ RangePages(rs))
        /\ bits' = c /\ registered' = RangePages(rs) /\ early_ranges' = es
        /\ handed' = handed /\ tables' = tables
    BY <1>2 DEF init_physical_memory
  <2>2. PmmTypes /\ map \in MemoryMaps /\ EarlyInv /\ last = NoCall
    BY <2>1 DEF PmmIInv, PmmTypes
  <2>3. /\ early_ranges \in Seq(RangeType) /\ RangesApart(early_ranges)
        /\ RangePages(early_ranges) \cap taken = {} /\ handed = {}
        /\ RangePages(early_ranges) \subseteq Reported \ KernelPages
    BY <2>2 DEF EarlyInv
  <2>4. BitmapPages \in Nat
    BY <2>2, BitmapPagesNat
  <2>5. /\ rs \in Seq(RangeType) /\ RangesApart(rs)
        /\ RangePages(rs) \subseteq RangePages(early_ranges)
    BY <2>3, <2>4, EarlyTakeManyEffect
  <2> HIDE DEF s, rs
  <2>6. Layout
    BY <2>2 DEF Layout
  <2>7. Reported \subseteq 0 .. (MaxExtent(map) - 1) /\ Reported \subseteq Nat
    BY <2>2, ReportedNat
  <2>8. c \in SUBSET Nat /\ Sound(c) /\ FreeAll(c) = RangePages(rs)
    <3>1. RangePages(rs) \subseteq 0 .. (MaxExtent(map) - 1)
      BY <2>3, <2>5, <2>7
    <3>2. QED
      BY <2>5, <2>6, <3>1, RegisterEffect
  <2> HIDE DEF c
  <2>9. Reported' = Reported /\ KernelPages' = KernelPages
    BY <2>1, SameMap DEF KernelPages
  <2>10. Sound(bits)' /\ FreeAll(bits)' = RangePages(rs)
    <3>1. Sound(bits') /\ FreeAll(bits') = RangePages(rs)
      BY <2>1, <2>8
    <3>2. QED
      BY <2>1, <3>1, SameMap
  <2>11. FullInv'
    BY <2>1, <2>3, <2>5, <2>9, <2>10 DEF FullInv
  <2>12. PmmTypes'
    <3>1. ASSUME NEW n \in DOMAIN es PROVE es[n] \in [start : Nat, extent : Nat]
      <4>1. n \in DOMAIN rs /\ es[n] = Above(Above(rs[n], OneMB), FourGB)
        OBVIOUS
      <4>2. Above(Above(rs[n], OneMB), FourGB) \in RangeType
        BY <2>5, <4>1, RangeFields, CutIs, PmmNats
      <4>3. QED
        BY <4>1, <4>2 DEF RangeType
    <3> HIDE DEF es
    <3>2. registered' \cup taken' \cup handed' \subseteq Nat
      BY <2>1, <2>2, <2>3, <2>5, <2>7 DEF PmmTypes
    <3>3. QED
      BY <2>1, <2>2, <2>8, <3>1, <3>2 DEF PmmTypes
  <2>13. ZonePromise' /\ NoSpuriousFailure'
    BY <2>1, <2>2, NoCallFailsNext
  <2>14. /\ (taken \cap handed = {})'
         /\ (taken \cup handed \subseteq Reported \ KernelPages)'
    BY <2>1, <2>3, <2>9 DEF PmmIInv
  <2>15. QED
    BY <2>1, <2>11, <2>12, <2>13, <2>14 DEF PmmIInv
<1>3. QED
  BY <1>1, <1>2

(* The pages of a block that alloc_pages returns.                          *)
LEMMA BlockIsShift ==
    ASSUME map \in MemoryMaps, NEW z \in Zones, NEW num, NEW k \in Orders, k = log2_roundup(num),
           NEW i \in Nat, NEW page, page = ZoneStart(z) + i * Size[k]
    PROVE  BlockPages(page, num) = Shift(z, Pages(k, i)) /\ page \in Nat
<1> DEFINE zs == ZoneStart(z)  x == i * Size[k]  n == Size[k]
<1>1. zs \in Nat /\ n \in Nat /\ n >= 1 /\ x \in Nat
  <2>1. zs \in Nat /\ n \in Nat /\ n >= 1
    BY ZonesAre, SizePos
  <2>2. QED
    BY <2>1
<1>2. \A p : p \in Pages(k, i) <=> p \in Nat /\ x <= p /\ p < x + n
  BY PagesMember
<1>3. BlockPages(page, num) = page .. (page + n - 1) /\ page = zs + x
  BY DEF BlockPages
<1>4. Shift(z, Pages(k, i)) = {zs + p : p \in Pages(k, i)}
  BY DEF Shift
<1> HIDE DEF zs, x, n
<1>5. ASSUME NEW q PROVE q \in page .. (page + n - 1) <=> q \in Shift(z, Pages(k, i))
  <2>1. ASSUME q \in page .. (page + n - 1) PROVE q \in Shift(z, Pages(k, i))
    <3> DEFINE p == q - zs
    <3>1. p \in Nat /\ x <= p /\ p < x + n /\ zs + p = q
      BY <1>1, <1>3, <2>1
    <3> HIDE DEF p
    <3>2. p \in Pages(k, i)
      BY <1>2, <3>1
    <3>3. QED
      BY <1>4, <3>1, <3>2
  <2>2. ASSUME q \in Shift(z, Pages(k, i)) PROVE q \in page .. (page + n - 1)
    <3>1. PICK p \in Pages(k, i) : q = zs + p
      BY <1>4, <2>2
    <3>2. p \in Nat /\ x <= p /\ p < x + n
      BY <1>2
    <3>3. QED
      BY <1>1, <1>3, <3>1, <3>2
  <2>3. QED
    BY <2>1, <2>2
<1>6. BlockPages(page, num) = Shift(z, Pages(k, i))
  BY <1>3, <1>5
<1>7. QED
  BY <1>1, <1>3, <1>6

(* The zones in which alloc_pages looks.                                   *)
Searched(req) == {req} \cup (IF req = NONE THEN {UNDER4GB} ELSE {})

Result(req, num) ==
    LET first == buddy_alloc(bits, req, num)
    IN  IF first.page = Fail /\ req = NONE THEN buddy_alloc(first.bits, UNDER4GB, num) ELSE first

LEMMA ResultIs ==
    ASSUME Layout, bits \subseteq Nat, Sound(bits), NEW req \in Zones, NEW num \in Nat, ~TooLarge(num)
    PROVE  LET got == Result(req, num)
               want == log2_roundup(num)
           IN  \/ /\ got = [bits |-> bits, page |-> Fail]
                  /\ \A z \in Searched(req) : \A k \in want .. MaxOrder : Marks(bits, z)[k] = {}
               \/ \E z \in Searched(req), i \in Nat, c \in SUBSET Nat :
                     /\ got = [bits |-> c, page |-> ZoneStart(z) + i * Size[want]]
                     /\ Takes(bits, c, z, want, i)
<1> DEFINE got == Result(req, num)  want == log2_roundup(num)
           first == buddy_alloc(bits, req, num)
           second == buddy_alloc(bits, UNDER4GB, num)
           Fails(g, z) == /\ g = [bits |-> bits, page |-> Fail]
                          /\ \A k \in want .. MaxOrder : Marks(bits, z)[k] = {}
           Finds(g, z) == \E i \in Nat, c \in SUBSET Nat :
                             /\ g = [bits |-> c, page |-> ZoneStart(z) + i * Size[want]]
                             /\ Takes(bits, c, z, want, i)
<1>1. Fails(first, req) \/ Finds(first, req)
  BY AllocEffect
<1>2. UNDER4GB \in Zones /\ req \in Searched(req) /\ (req = NONE => UNDER4GB \in Searched(req))
  BY DEF Zones, Searched
<1>3. Fails(second, UNDER4GB) \/ Finds(second, UNDER4GB)
  BY <1>2, AllocEffect
<1>4. Finds(first, req) => first.page # Fail
  <2> SUFFICES ASSUME Finds(first, req) PROVE first.page # Fail
    OBVIOUS
  <2>1. PICK i \in Nat, c \in SUBSET Nat :
            first = [bits |-> c, page |-> ZoneStart(req) + i * Size[want]]
    OBVIOUS
  <2>2. want \in Orders /\ map \in MemoryMaps
    BY OrderOf DEF Layout
  <2>3. ZoneStart(req) \in Nat /\ i * Size[want] \in Nat
    BY <2>2, ZonesAre, SizePos
  <2>4. first.page = ZoneStart(req) + i * Size[want]
    BY <2>1
  <2>5. QED
    BY <2>3, <2>4 DEF Fail
<1> HIDE DEF first, second
<1>5. got = IF first.page = Fail /\ req = NONE THEN buddy_alloc(first.bits, UNDER4GB, num) ELSE first
  BY DEF Result, first
<1>6. CASE Finds(first, req)
  <2>1. got = first
    BY <1>4, <1>5, <1>6
  <2>2. QED
    BY <1>2, <1>6, <2>1
<1>7. CASE Fails(first, req)
  <2>1. first.page = Fail /\ first.bits = bits
    BY <1>7
  <2>2. CASE req = NONE
    <3>1. got = second
      BY <1>5, <2>1, <2>2 DEF second
    <3>2. Searched(req) = {req, UNDER4GB}
      BY <2>2 DEF Searched
    <3> HIDE DEF got
    <3>3. CASE Fails(second, UNDER4GB)
      BY <1>7, <3>1, <3>2, <3>3 DEF got
    <3>4. CASE Finds(second, UNDER4GB)
      BY <1>2, <2>2, <3>1, <3>4 DEF got
    <3>5. QED
      BY <1>3, <3>3, <3>4
  <2>3. CASE req # NONE
    <3>1. got = first /\ Searched(req) = {req}
      BY <1>5, <2>3 DEF Searched
    <3>2. QED
      BY <1>7, <3>1
  <2>4. QED
    BY <2>2, <2>3
<1>8. QED
  BY <1>1, <1>6, <1>7

(* With nothing marked from an order on, no block of that order is free.   *)
LEMMA NothingFree ==
    ASSUME map \in MemoryMaps, NEW b, Sound(b), NEW z \in Zones, NEW k \in Orders,
           \A j \in k .. MaxOrder : Marks(b, z)[j] = {}, NEW i \in Nat
    PROVE  ~(\A p \in 0 .. (Size[k] - 1) : ZoneStart(z) + i * Size[k] + p \in FreeIn(b, z))
<1> SUFFICES ASSUME \A p \in 0 .. (Size[k] - 1) : ZoneStart(z) + i * Size[k] + p \in FreeIn(b, z)
             PROVE  FALSE
  OBVIOUS
<1> DEFINE o == Marks(b, z)  zs == ZoneStart(z)  x == i * Size[k]  n == Size[k]
<1>1. zs \in Nat /\ n \in Nat /\ x \in Nat
  <2>1. zs \in Nat /\ n \in Nat
    BY ZonesAre, SizePos
  <2>2. QED
    BY <2>1
<1>2. o \in Bitmaps /\ Unpaired(o) /\ Covered(o) \subseteq Nat
  BY MarksAre, CoveredNat DEF Sound
<1>3. Pages(k, i) \subseteq Covered(o)
  <2> SUFFICES ASSUME NEW q \in Pages(k, i) PROVE q \in Covered(o)
    OBVIOUS
  <2>1. q \in Nat /\ x <= q /\ q < x + n
    BY PagesMember
  <2> DEFINE p == q - x
  <2>2. p \in 0 .. (n - 1) /\ zs + x + p = zs + q
    <3> HIDE DEF zs, x, n
    <3>1. QED
      BY <1>1, <2>1
  <2>3. zs + x + p \in FreeIn(b, z)
    BY <2>2
  <2> HIDE DEF p
  <2>4. zs + q \in FreeIn(b, z)
    BY <2>2, <2>3
  <2>5. PICK y \in Covered(o) : zs + q = zs + y
    BY <2>4 DEF FreeIn, Shift
  <2>6. q = y
    <3> HIDE DEF zs, x, n
    <3>1. QED
      BY <1>1, <1>2, <2>1, <2>5
  <2>7. QED
    BY <2>5, <2>6
<1>4. PICK j \in Orders : \E y \in o[j] : k <= j
  BY <1>2, <1>3, FreeBlockCovered
<1>5. j \in k .. MaxOrder
  BY <1>4, OrderAssumption DEF Orders
<1>6. QED
  BY <1>4, <1>5

LEMMA AllocPagesIInv ==
    ASSUME StorageFits, PmmIInv, NEW req \in Zones, NEW num \in 1 .. MaxNum, alloc_pages(req, num)
    PROVE  PmmIInv'
<1> DEFINE got == Result(req, num)  want == log2_roundup(num)
<1>1. CASE TooLarge(num)
  <2>1. panic
    BY <1>1 DEF alloc_pages
  <2>2. QED
    BY <2>1, PanicIInv
<1>2. CASE ~TooLarge(num)
  <2>1. /\ stage = "FULL" /\ stage' = stage /\ map' = map /\ tables' = tables
        /\ early_ranges' = early_ranges /\ registered' = registered /\ taken' = taken
        /\ bits' = got.bits
        /\ handed' = IF got.page = Fail THEN handed ELSE handed \cup BlockPages(got.page, num)
        /\ last' = [req |-> req, num |-> num, page |-> got.page]
    BY <1>2 DEF alloc_pages, Result
  <2>2. PmmTypes /\ map \in MemoryMaps /\ bits \subseteq Nat /\ FullInv
    BY <2>1 DEF PmmIInv, PmmTypes
  <2>3. /\ Sound(bits) /\ FreeAll(bits) \cup handed = registered
        /\ FreeAll(bits) \cap handed = {} /\ registered \cap taken = {}
        /\ registered \subseteq Reported \ KernelPages
    BY <2>2 DEF FullInv
  <2>4. Layout
    BY <2>2 DEF Layout
  <2>5. num \in Nat /\ num \in 0 .. MaxNum
    BY PmmNats
  <2>6. want \in Orders
    BY <1>2, <2>5, OrderOf
  <2>7. Reported' = Reported /\ KernelPages' = KernelPages
    BY <2>1, SameMap DEF KernelPages
  <2> HIDE DEF got, want
  <2>8. CASE /\ got = [bits |-> bits, page |-> Fail]
             /\ \A z \in Searched(req) : \A k \in want .. MaxOrder : Marks(bits, z)[k] = {}
    <3>1. got.bits = bits /\ got.page = Fail
      BY <2>8
    <3>2. bits' = bits /\ handed' = handed /\ last' = [req |-> req, num |-> num, page |-> Fail]
      BY <2>1, <3>1
    <3>3. PmmTypes'
      BY <2>1, <2>2, <2>5, <3>2 DEF PmmTypes
    <3>4. FullInv'
      <4>1. Sound(bits') /\ FreeAll(bits') = FreeAll(bits)
        BY <2>3, <3>2
      <4>2. Sound(bits)' /\ FreeAll(bits)' = FreeAll(bits)
        BY <2>1, <4>1, SameMap
      <4>3. QED
        BY <2>1, <2>3, <2>7, <3>2, <4>2 DEF FullInv
    <3>5. /\ last'.page = Fail /\ last'.req = req /\ last'.num = num
      BY <3>2
    <3>6. ZonePromise'
      BY <3>5 DEF ZonePromise
    <3>7. NoSpuriousFailure'
      <4>1. ASSUME NEW z \in Searched(req), NEW i \in 0 .. Extent(z, want)
            PROVE  ~(\A p \in 0 .. (Size[want] - 1) :
                         ZoneStart(z) + i * Size[want] + p \in FreeIn(bits, z))
        <5>1. z \in Zones
          BY DEF Searched, Zones
        <5>2. Extent(z, want) \in Nat
          BY <2>2, <2>6, <5>1, RoomIs
        <5>3. i \in Nat /\ \A j \in want .. MaxOrder : Marks(bits, z)[j] = {}
          BY <2>8, <5>2
        <5>4. QED
          BY <2>2, <2>3, <2>6, <5>1, <5>3, NothingFree
      <4>2. /\ \A z \in Zones : MarkedFree(z)' = FreeIn(bits, z)
            /\ \A z, k : Extent(z, k)' = Extent(z, k)
        <5>1. \A z \in Zones : MarkedFree(z)' = FreeIn(bits', z)
          BY <2>1, SameMap
        <5>2. QED
          BY <2>1, <3>2, <5>1, SameMap
      <4>3. \A z \in Searched(req) : z \in Zones
        BY DEF Searched, Zones
      <4>4. \A z \in Searched(req) : \A i \in 0 .. Extent(z, want)' :
                ~(\A p \in 0 .. (Size[want] - 1) :
                      ZoneStart(z) + i * Size[want] + p \in MarkedFree(z)')
        BY <4>1, <4>2, <4>3
      <4>5. QED
        BY <3>5, <4>4 DEF NoSpuriousFailure, Searched, want
    <3>8. QED
      BY <2>1, <2>7, <3>2, <3>3, <3>4, <3>6, <3>7 DEF PmmIInv
  <2>9. CASE \E z \in Searched(req), i \in Nat, c \in SUBSET Nat :
                /\ got = [bits |-> c, page |-> ZoneStart(z) + i * Size[want]]
                /\ Takes(bits, c, z, want, i)
    <3>1. PICK z \in Searched(req), i \in Nat, c \in SUBSET Nat :
                /\ got = [bits |-> c, page |-> ZoneStart(z) + i * Size[want]]
                /\ Takes(bits, c, z, want, i)
      BY <2>9
    <3> DEFINE page == got.page  P == Shift(z, Pages(want, i))
    <3>2. z \in Zones
      BY DEF Searched, Zones
    <3>3. page = ZoneStart(z) + i * Size[want] /\ got.bits = c
      BY <3>1
    <3>4. BlockPages(page, num) = P /\ page \in Nat
      <4> HIDE DEF page
      <4>1. QED
        BY <2>2, <2>6, <3>2, <3>3, BlockIsShift DEF want
    <3>5. page # Fail
      BY <3>4 DEF Fail
    <3>6. P \subseteq FreeIn(bits, z) /\ FreeAll(c) = FreeAll(bits) \ P
      BY <2>2, <2>3, <2>6, <3>1, <3>2, TakesFree
    <3>7. Sound(c)
      BY <3>1 DEF Takes
    <3>8. P \subseteq InMap(z) /\ P \subseteq FreeAll(bits)
      BY <2>2, <2>3, <3>2, <3>6, FreeInZone, FreeAllMember
    <3> HIDE DEF P, page
    <3>9. /\ bits' = c /\ handed' = handed \cup P
          /\ last' = [req |-> req, num |-> num, page |-> page]
      BY <2>1, <3>3, <3>4, <3>5 DEF page
    <3>10. Reported \subseteq Nat
      BY <2>2, ReportedNat
    <3>11. PmmTypes'
      BY <2>1, <2>2, <2>3, <2>5, <3>4, <3>8, <3>9, <3>10 DEF PmmTypes
    <3>12. FullInv'
      <4>1. Sound(bits') /\ FreeAll(bits') = FreeAll(bits) \ P
        BY <3>6, <3>7, <3>9
      <4>2. Sound(bits)' /\ FreeAll(bits)' = FreeAll(bits) \ P
        BY <2>1, <4>1, SameMap
      <4>3. QED
        BY <2>1, <2>3, <2>7, <3>8, <3>9, <4>2 DEF FullInv
    <3>13. last'.page = page /\ last'.req = req /\ last'.num = num
      BY <3>9
    <3>14. ZonePromise'
      <4>1. req = UNDER1MB => z = UNDER1MB
        BY DEF Searched, NONE, UNDER1MB
      <4>2. req = UNDER4GB => z = UNDER4GB
        BY DEF Searched, NONE, UNDER4GB
      <4>3. ASSUME NEW p \in P
            PROVE  (req = UNDER1MB => p < OneMB) /\ (req = UNDER4GB => p < FourGB)
        <5>1. p \in Nat /\ ZoneOf(p) = z
          BY <3>8 DEF InMap
        <5>2. z = UNDER1MB => p < OneMB
          BY <5>1, PmmNats DEF ZoneOf, UNDER1MB, UNDER4GB, NONE
        <5>3. z = UNDER4GB => p < FourGB
          BY <5>1, PmmNats DEF ZoneOf, UNDER1MB, UNDER4GB, NONE
        <5>4. QED
          BY <4>1, <4>2, <5>2, <5>3
      <4>4. \A p \in BlockPages(page, num) :
                (req = UNDER1MB => p < OneMB) /\ (req = UNDER4GB => p < FourGB)
        BY <3>4, <4>3
      <4>5. QED
        BY <3>13, <4>4 DEF ZonePromise, BlockPages
    <3>15. NoSpuriousFailure'
      BY <3>5, <3>13 DEF NoSpuriousFailure
    <3>16. /\ (taken \cap handed = {})'
           /\ (taken \cup handed \subseteq Reported \ KernelPages)'
      BY <2>1, <2>3, <2>7, <3>8, <3>9 DEF PmmIInv
    <3>17. QED
      BY <2>1, <3>11, <3>12, <3>14, <3>15, <3>16 DEF PmmIInv
  <2>10. QED
    <3>1. \/ /\ got = [bits |-> bits, page |-> Fail]
             /\ \A z \in Searched(req) : \A k \in want .. MaxOrder : Marks(bits, z)[k] = {}
          \/ \E z \in Searched(req), i \in Nat, c \in SUBSET Nat :
                /\ got = [bits |-> c, page |-> ZoneStart(z) + i * Size[want]]
                /\ Takes(bits, c, z, want, i)
      BY <1>2, <2>2, <2>3, <2>4, <2>5, ResultIs DEF got, want
    <3>2. QED
      BY <2>8, <2>9, <3>1
<1>3. QED
  BY <1>1, <1>2

LEMMA FreePagesIInv ==
    ASSUME StorageFits, PmmIInv, NEW page \in Reported, NEW num \in 1 .. MaxNum, free_pages(page, num)
    PROVE  PmmIInv'
<1> DEFINE z == ZoneOf(page)  k == log2_roundup(num)  P == BlockPages(page, num)
           i == (page - ZoneStart(z)) \div Size[k]
           c == buddy_free(bits, z, page, num)
<1>1. /\ stage = "FULL" /\ stage' = stage /\ map' = map /\ tables' = tables
      /\ early_ranges' = early_ranges /\ registered' = registered /\ taken' = taken
      /\ bits' = c /\ handed' = handed \ P /\ last' = NoCall
      /\ ~TooLarge(num) /\ P \subseteq handed /\ \A p \in P : ZoneOf(p) = z
      /\ (page - ZoneStart(z)) % Size[k] = 0
  BY DEF free_pages
<1>2. PmmTypes /\ map \in MemoryMaps /\ bits \subseteq Nat /\ FullInv
  BY <1>1 DEF PmmIInv, PmmTypes
<1>3. /\ Sound(bits) /\ FreeAll(bits) \cup handed = registered
      /\ FreeAll(bits) \cap handed = {} /\ registered \cap taken = {}
      /\ registered \subseteq Reported \ KernelPages
  BY <1>2 DEF FullInv
<1>4. Layout /\ num \in Nat
  BY <1>2, PmmNats DEF Layout
<1>5. k \in Orders /\ z \in Zones
  BY <1>1, <1>4, OrderOf DEF ZoneOf, Zones
<1>6. Reported \subseteq 0 .. (MaxExtent(map) - 1) /\ Reported \subseteq Nat /\ MaxExtent(map) \in Nat
  BY <1>2, ReportedNat, MaxExtentIs
<1>7. page \in InMap(z)
  BY <1>6 DEF InMap
<1> HIDE DEF k, z
<1>8. page \in Nat /\ ZoneStart(z) \in Nat /\ ZoneStart(z) <= page
  BY <1>2, <1>5, <1>7, InMapSpan
<1>9. page - ZoneStart(z) \in Nat /\ Size[k] \in Nat \ {0}
  BY <1>5, <1>8, SizePos
<1>10. i \in Nat /\ page - ZoneStart(z) = i * Size[k]
  <2> DEFINE e == page - ZoneStart(z)  n == Size[k]
  <2>1. i \in Nat /\ e = n * i + (e % n)
    BY <1>9, Quotient
  <2>2. n * i = i * n /\ i * n \in Nat
    BY <1>9, <2>1
  <2>3. e % n = 0 /\ i \in Nat
    BY <1>1, <2>1
  <2>4. e = i * n
    <3> HIDE DEF e, n, i
    <3>1. QED
      BY <2>1, <2>2, <2>3
  <2>5. QED
    BY <2>1, <2>4
<1> HIDE DEF i
<1>11. page = ZoneStart(z) + i * Size[k]
  <2>1. i * Size[k] \in Nat
    BY <1>9, <1>10
  <2>2. QED
    BY <1>8, <1>10, <2>1
<1>12. P = Shift(z, Pages(k, i))
  BY <1>2, <1>5, <1>10, <1>11, BlockIsShift DEF k
<1>13. P \subseteq InMap(z)
  <2> HIDE DEF P
  <2>1. ASSUME NEW p \in P PROVE p \in Nat /\ p < MaxExtent(map) /\ ZoneOf(p) = z
    <3>1. p \in Reported
      BY <1>1, <1>3
    <3>2. p \in Nat /\ p < MaxExtent(map)
      BY <1>6, <3>1
    <3>3. QED
      BY <1>1, <3>2
  <2>2. QED
    BY <2>1 DEF InMap
<1>14. InZone(z, k, i)
  <2> SUFFICES ASSUME NEW q \in Pages(k, i) PROVE q \in 0 .. (ZoneExtent(map, z) - 1)
    BY <1>10 DEF InZone
  <2> DEFINE p == ZoneStart(z) + q
  <2>1. q \in Nat /\ p \in P
    BY <1>5, <1>10, <1>12, PagesMember DEF Shift
  <2>2. p - ZoneStart(z) \in 0 .. (ZoneExtent(map, z) - 1)
    BY <1>2, <1>5, <1>13, <2>1, InMapSpan
  <2>3. p - ZoneStart(z) = q
    BY <1>8, <2>1
  <2>4. QED
    BY <2>2, <2>3
<1>15. Pages(k, i) \cap Covered(Marks(bits, z)) = {}
  <2> SUFFICES ASSUME NEW q \in Pages(k, i), q \in Covered(Marks(bits, z)) PROVE FALSE
    OBVIOUS
  <2>1. ZoneStart(z) + q \in P /\ ZoneStart(z) + q \in FreeIn(bits, z)
    BY <1>12 DEF Shift, FreeIn
  <2>2. ZoneStart(z) + q \in FreeAll(bits)
    BY <1>5, <2>1, FreeAllMember
  <2>3. QED
    BY <1>1, <1>3, <2>1, <2>2
<1>16. Gives(bits, c, z, Pages(k, i))
  BY <1>2, <1>3, <1>4, <1>5, <1>11, <1>14, <1>15, BuddyFreeEffect DEF k
<1> HIDE DEF c, P
<1>17. FreeAll(c) = FreeAll(bits) \cup P /\ Sound(c) /\ c \in SUBSET Nat
  <2>1. FreeAll(c) = FreeAll(bits) \cup Shift(z, Pages(k, i))
    BY <1>5, <1>16, GivesFree
  <2>2. Sound(c) /\ c \in SUBSET Nat
    BY <1>16 DEF Gives
  <2>3. QED
    BY <1>12, <2>1, <2>2
<1>18. Reported' = Reported /\ KernelPages' = KernelPages
  BY <1>1, SameMap DEF KernelPages
<1>19. PmmTypes'
  BY <1>1, <1>2, <1>17, NoCallType DEF PmmTypes
<1>20. FullInv'
  <2>1. Sound(bits') /\ FreeAll(bits') = FreeAll(bits) \cup P
    BY <1>1, <1>17
  <2>2. Sound(bits)' /\ FreeAll(bits)' = FreeAll(bits) \cup P
    BY <1>1, <2>1, SameMap
  <2>3. QED
    BY <1>1, <1>3, <1>18, <2>2 DEF FullInv
<1>21. ZonePromise' /\ NoSpuriousFailure'
  BY <1>1, NoCallFailsNext
<1>22. /\ (taken \cap handed = {})'
       /\ (taken \cup handed \subseteq Reported \ KernelPages)'
  BY <1>1, <1>18 DEF PmmIInv
<1>23. QED
  BY <1>1, <1>19, <1>20, <1>21, <1>22 DEF PmmIInv

LEMMA PmmNextIInv ==
    ASSUME MapsApart, StorageFits, PmmIInv, [PmmNext]_pmm_vars
    PROVE  PmmIInv'
<1>1. CASE init_physical_memory_early
  BY <1>1, EarlyInitIInv
<1>2. CASE early_alloc_page
  BY <1>2, EarlyAllocIInv
<1>3. CASE init_physical_memory
  BY <1>3, RegisterIInv
<1>4. CASE \E req \in Zones, num \in 1 .. MaxNum : alloc_pages(req, num)
  BY <1>4, AllocPagesIInv
<1>5. CASE \E page \in Reported, num \in 1 .. MaxNum : free_pages(page, num)
  BY <1>5, FreePagesIInv
<1>6. CASE UNCHANGED pmm_vars
  <2>1. /\ stage' = stage /\ map' = map /\ last' = last /\ bits' = bits /\ taken' = taken
        /\ handed' = handed /\ tables' = tables /\ early_ranges' = early_ranges
        /\ registered' = registered
    BY <1>6 DEF pmm_vars
  <2>2. ZonePromise' /\ NoSpuriousFailure'
    BY <2>1, SameCall DEF PmmIInv
  <2>3. Reported' = Reported /\ KernelPages' = KernelPages
    BY <2>1, SameMap DEF KernelPages
  <2>4. PmmTypes'
    BY <2>1 DEF PmmTypes, PmmIInv
  <2>5. stage = "EARLY" => EarlyInv'
    <3>1. RangesApart(early_ranges)' <=> RangesApart(early_ranges)
      BY <2>1 DEF RangesApart
    <3>2. RangePages(early_ranges)' = RangePages(early_ranges)
      BY <2>1 DEF RangePages
    <3>3. QED
      BY <2>1, <2>3, <3>1, <3>2 DEF EarlyInv, PmmIInv
  <2>6. stage = "FULL" => FullInv'
    <3>1. (Sound(bits') <=> Sound(bits)) /\ FreeAll(bits') = FreeAll(bits)
      BY <2>1
    <3>2. (Sound(bits)' <=> Sound(bits)) /\ FreeAll(bits)' = FreeAll(bits)
      BY <2>1, <3>1, SameMap
    <3>3. QED
      BY <2>1, <2>3, <3>2 DEF FullInv, PmmIInv
  <2>7. QED
    BY <2>1, <2>2, <2>3, <2>4, <2>5, <2>6 DEF PmmIInv
<1>7. QED
  BY <1>1, <1>2, <1>3, <1>4, <1>5, <1>6 DEF PmmNext, Stopped

LEMMA PmmInvariance == MapsApart /\ StorageFits => (PmmSpec => []PmmIInv)
<1> SUFFICES ASSUME MapsApart, StorageFits PROVE PmmSpec => []PmmIInv
  OBVIOUS
<1>1. PmmInit => PmmIInv
  BY PmmInitIInv
<1>2. PmmIInv /\ [PmmNext]_pmm_vars => PmmIInv'
  BY PmmNextIInv
<1>3. QED
  BY <1>1, <1>2, PTL DEF PmmSpec

(* What the invariant says of the free pages.                              *)
LEMMA AllFreeIs == AllFree = IF stage = "FULL" THEN FreeAll(bits) ELSE {}
<1>1. \A z : MarkedFree(z) = FreeIn(bits, z)
  BY DEF MarkedFree, FreeIn, Shift
<1>2. QED
  BY <1>1 DEF AllFree, FreeAll

LEMMA PmmIInvNoDoubleUse == PmmIInv => NoDoubleUse
<1> SUFFICES ASSUME PmmIInv PROVE NoDoubleUse
  OBVIOUS
<1>1. /\ PmmTypes /\ taken \cap handed = {}
      /\ taken \cup handed \subseteq Reported \ KernelPages
  BY DEF PmmIInv
<1>2. /\ AllFree \cap (handed \cup taken) = {}
      /\ AllFree \subseteq Reported \ KernelPages
  <2>1. CASE stage = "FULL"
    <3>1. FullInv /\ AllFree = FreeAll(bits)
      BY <2>1, AllFreeIs DEF PmmIInv
    <3>2. QED
      BY <3>1 DEF FullInv
  <2>2. CASE stage # "FULL"
    BY <2>2, AllFreeIs
  <2>3. QED
    BY <2>1, <2>2
<1>3. QED
  BY <1>1, <1>2 DEF NoDoubleUse

LEMMA PmmIInvConserved == PmmIInv => Conserved
BY AllFreeIs DEF PmmIInv, FullInv, Conserved

-----------------------------------------------------------------------------
(* Start-up, whatever the layout of the bitmaps                            *)

(* The pages that early_alloc_page gives out for page tables and bitmaps   *)
(* and those that init_physical_memory registers are apart, are memory     *)
(* that the boot loader reported, and are not the kernel's image.          *)
StartUpApart ==
    /\ taken \cap registered = {}
    /\ taken \cup registered \subseteq Reported \ KernelPages

StartUpInv ==
    /\ map \in MemoryMaps
    /\ stage = "START" => taken = {} /\ handed = {}
    /\ stage = "EARLY" => EarlyInv
    /\ stage \in {"START", "EARLY"} => registered = {}
    /\ StartUpApart

LEMMA EarlyAllocStartUp == StartUpInv /\ early_alloc_page => StartUpInv'
<1> SUFFICES ASSUME StartUpInv, early_alloc_page PROVE StartUpInv'
  OBVIOUS
<1>1. map' = map /\ map \in MemoryMaps /\ registered' = registered /\ registered = {}
      /\ EarlyInv /\ handed' = handed
  BY DEF early_alloc_page, panic, StartUpInv
<1>2. Reported' = Reported /\ KernelPages' = KernelPages
  BY <1>1, SameMap DEF KernelPages
<1>3. CASE EarlyFit(early_ranges) = {}
  BY <1>1, <1>2, <1>3 DEF early_alloc_page, panic, StartUpInv, StartUpApart
<1>4. CASE EarlyFit(early_ranges) # {}
  <2> DEFINE rs == early_ranges  x == rs[Min(EarlyFit(rs))].start  qs == EarlyTake(rs)
  <2>1. stage = "EARLY" /\ stage' = stage /\ taken' = taken \cup {x} /\ early_ranges' = qs
    BY <1>4 DEF early_alloc_page
  <2>2. /\ rs \in Seq(RangeType) /\ RangesApart(rs) /\ RangePages(rs) \cap taken = {}
        /\ RangePages(rs) \subseteq Reported \ KernelPages /\ handed = {}
    BY <1>1 DEF EarlyInv
  <2>3. /\ qs \in Seq(RangeType) /\ x \in RangePages(rs) /\ RangesApart(qs)
        /\ RangePages(qs) = RangePages(rs) \ {x}
    BY <1>4, <2>2, EarlyTakeIs
  <2> HIDE DEF x, qs
  <2>4. RangesApart(early_ranges)' /\ RangePages(early_ranges)' = RangePages(qs)
    BY <2>1, <2>3 DEF RangesApart, RangePages, PagesOf
  <2>5. EarlyInv'
    BY <1>1, <1>2, <2>1, <2>2, <2>3, <2>4 DEF EarlyInv
  <2>6. StartUpApart'
    BY <1>1, <1>2, <2>1, <2>2, <2>3 DEF StartUpApart, StartUpInv
  <2>7. QED
    BY <1>1, <2>1, <2>5, <2>6 DEF StartUpInv
<1>5. QED
  BY <1>3, <1>4

LEMMA RegisterStartUp == StartUpInv /\ init_physical_memory => StartUpInv'
<1> SUFFICES ASSUME StartUpInv, init_physical_memory PROVE StartUpInv'
  OBVIOUS
<1> DEFINE s == EarlyTakeMany[[ranges |-> early_ranges, left |-> BitmapPages]]
           rs == s.ranges
<1>1. map' = map /\ map \in MemoryMaps /\ EarlyInv /\ registered = {} /\ stage = "EARLY"
  BY DEF init_physical_memory, panic, StartUpInv
<1>2. Reported' = Reported /\ KernelPages' = KernelPages
  BY <1>1, SameMap DEF KernelPages
<1>3. CASE s.left > 0
  BY <1>1, <1>2, <1>3 DEF init_physical_memory, panic, StartUpInv, StartUpApart
<1>4. CASE ~(s.left > 0)
  <2>1. /\ stage' = "FULL" /\ registered' = RangePages(rs)
        /\ taken' = taken \cup (RangePages(early_ranges) \ RangePages(rs))
    BY <1>4 DEF init_physical_memory
  <2>2. BitmapPages \in Nat
    BY <1>1, BitmapPagesNat
  <2>3. RangePages(rs) \subseteq RangePages(early_ranges)
    BY <1>1, <2>2, EarlyTakeManyEffect DEF EarlyInv
  <2> HIDE DEF s, rs
  <2>4. StartUpApart'
    BY <1>1, <1>2, <2>1, <2>3 DEF StartUpApart, StartUpInv, EarlyInv
  <2>5. QED
    BY <1>1, <2>1, <2>4 DEF StartUpInv
<1>5. QED
  BY <1>3, <1>4

LEMMA NextStartUp ==
    ASSUME MapsApart, StartUpInv, [PmmNext]_pmm_vars
    PROVE  StartUpInv'
<1>1. CASE init_physical_memory_early
  <2>1. /\ stage = "START" /\ stage' = "EARLY" /\ map' = map /\ taken' = taken
        /\ registered' = registered
    BY <1>1 DEF init_physical_memory_early
  <2>2. map \in MemoryMaps /\ taken = {} /\ handed = {} /\ registered = {}
    BY <2>1 DEF StartUpInv
  <2>3. EarlyInv'
    BY <1>1, <2>2, EarlyInitEarly
  <2>4. QED
    BY <2>1, <2>2, <2>3 DEF StartUpInv, StartUpApart
<1>2. CASE early_alloc_page
  BY <1>2, EarlyAllocStartUp
<1>3. CASE init_physical_memory
  BY <1>3, RegisterStartUp
<1>4. CASE \/ \E req \in Zones, num \in 1 .. MaxNum : alloc_pages(req, num)
           \/ \E page \in Reported, num \in 1 .. MaxNum : free_pages(page, num)
  <2>1. /\ stage = "FULL" /\ stage' \in {"FULL", "PANIC"} /\ map' = map /\ taken' = taken
        /\ registered' = registered
    BY <1>4 DEF alloc_pages, free_pages, panic
  <2>2. Reported' = Reported /\ KernelPages' = KernelPages
    BY <2>1, SameMap DEF KernelPages
  <2>3. QED
    BY <2>1, <2>2 DEF StartUpInv, StartUpApart
<1>5. CASE UNCHANGED pmm_vars
  <2>1. /\ stage' = stage /\ map' = map /\ taken' = taken /\ handed' = handed
        /\ early_ranges' = early_ranges /\ registered' = registered
    BY <1>5 DEF pmm_vars
  <2>2. Reported' = Reported /\ KernelPages' = KernelPages
    BY <2>1, SameMap DEF KernelPages
  <2>3. /\ RangesApart(early_ranges)' <=> RangesApart(early_ranges)
        /\ RangePages(early_ranges)' = RangePages(early_ranges)
    BY <2>1 DEF RangesApart, RangePages
  <2>4. QED
    BY <2>1, <2>2, <2>3 DEF StartUpInv, StartUpApart, EarlyInv
<1>6. QED
  BY <1>1, <1>2, <1>3, <1>4, <1>5 DEF PmmNext, Stopped

(* Whatever memory the boot loader reports, in ranges that are apart, the  *)
(* early pages and the registered pages are apart, are memory, and are not *)
(* the kernel's, from start-up on and wherever the bitmaps lie.            *)
THEOREM StartUpSafe == MapsApart => (PmmSpec => []StartUpApart)
<1> SUFFICES ASSUME MapsApart PROVE PmmSpec => []StartUpApart
  OBVIOUS
<1>1. PmmInit => StartUpInv
  BY DEF PmmInit, StartUpInv, StartUpApart
<1>2. StartUpInv /\ [PmmNext]_pmm_vars => StartUpInv'
  BY NextStartUp
<1>3. StartUpInv => StartUpApart
  BY DEF StartUpInv
<1>4. QED
  BY <1>1, <1>2, <1>3, PTL DEF PmmSpec

-----------------------------------------------------------------------------
(* What follows if the bitmaps do not overlap.  With the offsets of        *)
(* pmm.c:163-171 StorageFits fails on any PC, whose zone below 4GB is by   *)
(* far larger than the one below 1MB; these lemmas say that nothing else   *)
(* stands in the way of the properties.                                    *)

(* The kernel's image, the early pages, the pages of callers and the free  *)
(* pages of pmm.c are apart and within the memory that is reported.        *)
LEMMA NoDoubleUseAlways == MapsApart /\ StorageFits => (PmmSpec => []NoDoubleUse)
<1> SUFFICES ASSUME MapsApart, StorageFits PROVE PmmSpec => []NoDoubleUse
  OBVIOUS
<1>1. PmmSpec => []PmmIInv
  BY PmmInvariance
<1>2. PmmIInv => NoDoubleUse
  BY PmmIInvNoDoubleUse
<1>3. QED
  BY <1>1, <1>2, PTL

(* alloc_pages and free_pages lose no page: what init_physical_memory      *)
(* registered is free or handed out.                                       *)
LEMMA ConservedAlways == MapsApart /\ StorageFits => (PmmSpec => []Conserved)
<1> SUFFICES ASSUME MapsApart, StorageFits PROVE PmmSpec => []Conserved
  OBVIOUS
<1>1. PmmSpec => []PmmIInv
  BY PmmInvariance
<1>2. PmmIInv => Conserved
  BY PmmIInvConserved
<1>3. QED
  BY <1>1, <1>2, PTL

(* alloc_pages keeps to the zone that it was asked for.                    *)
LEMMA ZonePromiseAlways == MapsApart /\ StorageFits => (PmmSpec => []ZonePromise)
<1> SUFFICES ASSUME MapsApart, StorageFits PROVE PmmSpec => []ZonePromise
  OBVIOUS
<1>1. PmmSpec => []PmmIInv
  BY PmmInvariance
<1>2. PmmIInv => ZonePromise
  BY DEF PmmIInv
<1>3. QED
  BY <1>1, <1>2, PTL

(* alloc_pages fails only if the zones it may use have no aligned block of *)
(* that size.                                                              *)
LEMMA NoSpuriousFailureAlways == MapsApart /\ StorageFits => (PmmSpec => []NoSpuriousFailure)
<1> SUFFICES ASSUME MapsApart, StorageFits PROVE PmmSpec => []NoSpuriousFailure
  OBVIOUS
<1>1. PmmSpec => []PmmIInv
  BY PmmInvariance
<1>2. PmmIInv => NoSpuriousFailure
  BY DEF PmmIInv
<1>3. QED
  BY <1>1, <1>2, PTL
=============================================================================
