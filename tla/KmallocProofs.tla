--------------------------- MODULE KmallocProofs ---------------------------
(***************************************************************************)
(* Proofs about the kernel heap (Kmalloc), for any number of contexts that *)
(* interrupt each other in kmalloc and kfree, any requests, and any sizes  *)
(* of headers, caches, pages, slabs and of the vmspace.                    *)
(***************************************************************************)
EXTENDS Kmalloc, TLAPS, WellFoundedInduction

(* The sizes of blocks, as powers of two.                                  *)
PageSizes == PageLog2 .. MaxBlockLog2
BlockSizes == Caches \cup PageSizes

SlabPages(s) == PagesOf(s, SlabLog2)
PageSize == Size[PageLog2]
Aligned(a) == \E p \in Pages : a = p * PageSize

Apart(p, q) == p \cap q = {}

(* What the footer leaves of a slab.                                       *)
SlabArea == Size[SlabLog2] - FooterSize

(* Somebody asks a cache whose bitmaps lie over objects.                   *)
SomeOverlaid ==
    \E sz \in Requests : CacheLog2(sz) \in Caches /\ ~RoomFor(CacheLog2(sz))

-----------------------------------------------------------------------------
(* The inductive invariant                                                 *)

(* How the blocks h that are held lie in the vmspace and in the caches: v  *)
(* are the free pages, sl the slabs of the caches, u their used objects.   *)

BlockTypes(h) ==
    \A x \in h :
        /\ x.addr \in Addresses /\ x.got \in BlockSizes /\ x.sz \in Requests
        /\ x.sz + HeaderSize <= Size[x.got]

SlabsPlaced(v, sl) ==
    \A k \in Caches : \A s \in sl[k] :
        /\ Aligned(s) /\ s % Size[SlabLog2] = 0
        /\ SlabPages(s) \subseteq Pages \ v
        /\ \A j \in Caches : \A t \in sl[j] :
              (k = j /\ s = t) \/ Apart(SlabPages(s), SlabPages(t))

LargePlaced(h, v, sl) ==
    \A x \in h : x.got \notin Caches =>
        /\ Aligned(x.addr)
        /\ PagesOf(x.addr, x.got) \subseteq Pages \ v
        /\ \A k \in Caches : \A s \in sl[k] : Apart(PagesOf(x.addr, x.got), SlabPages(s))
        /\ \A y \in h : y.got \notin Caches =>
              x = y \/ Apart(PagesOf(x.addr, x.got), PagesOf(y.addr, y.got))

(* An object in use belongs to one block.                                  *)
SmallPlaced(h, sl, u) ==
    /\ \A x \in h : x.got \in Caches =>
          /\ \E s \in sl[x.got] : x.addr \in Objects(s, x.got)
          /\ x.addr \in u[x.got]
          /\ \A y \in h : y.got = x.got /\ y.addr = x.addr => x = y
    /\ \A k \in Caches : \A a \in u[k] : \E x \in h : x.got = k /\ x.addr = a

Covered(h, v, sl) ==
    \A p \in Pages :
        \/ p \in v
        \/ \E k \in Caches : \E s \in sl[k] : p \in SlabPages(s)
        \/ \E x \in h : x.got \notin Caches /\ p \in PagesOf(x.addr, x.got)

Layout(h, v, sl, u) ==
    /\ v \subseteq Pages
    /\ sl \in [Caches -> SUBSET Addresses] /\ u \in [Caches -> SUBSET Addresses]
    /\ BlockTypes(h)
    /\ SlabsPlaced(v, sl)
    /\ LargePlaced(h, v, sl)
    /\ SmallPlaced(h, sl, u)

Busy == {c \in Contexts : call[c] # None}

(* The headers of blocks that callers hold are intact, and calls in        *)
(* progress have the size that the block was given.                        *)
HeaderInv ==
    /\ DOMAIN hdr \subseteq Addresses
    /\ \A a \in DOMAIN hdr : hdr[a] \in BlockSizes
    /\ \A b \in live :
          b.ptr = b.addr + HeaderSize /\ b.addr \in DOMAIN hdr /\ hdr[b.addr] = b.got

Calls ==
    [op : {"alloc", "free"}, addr : Addresses, l2 : BlockSizes, got : BlockSizes, sz : Requests]

CallInv ==
    /\ live \subseteq [addr : Addresses, ptr : Nat, got : BlockSizes, sz : Requests]
    /\ call \in [Contexts -> Calls \cup {None}]
    /\ \A c \in Busy : call[c].l2 = call[c].got
    /\ \A c, d \in Busy : call[c] = call[d] => c = d

StateInv ==
    /\ state \in {"start", "up", "panic", "wild", "overlaid"}
    /\ state = "overlaid" => SomeOverlaid
    /\ state = "start" => Held = {} /\ slabs = [k \in Caches |-> {}] /\ used = slabs
    /\ state = "up" => Covered(Held, vfree, slabs)

IInv ==
    /\ StateInv
    /\ CallInv
    /\ HeaderInv
    /\ Layout(Held, vfree, slabs, used)

-----------------------------------------------------------------------------
(* Powers of two                                                           *)

(* A set of natural numbers that is not empty has a least element.         *)
LEMMA LeastNatural ==
    ASSUME NEW T, T \subseteq Nat, T # {}
    PROVE  \E x \in T : \A y \in T : x <= y
<1>1. IsWellFoundedOn(OpToRel(<, Nat), Nat)
  BY NatLessThanWellFounded
<1>2. PICK x \in T : \A y \in T : ~(<<y, x>> \in OpToRel(<, Nat))
  BY <1>1, WFMin
<1>3. \A y \in T : ~(y < x)
  BY <1>2 DEF OpToRel
<1> QED BY <1>3

(* One that has an upper bound has a greatest element.                     *)
LEMMA GreatestNatural ==
    ASSUME NEW T, NEW n \in Nat, T \subseteq 0 .. n, T # {}
    PROVE  Max(T) \in T /\ \A y \in T : y <= Max(T)
<1> DEFINE U == {n - x : x \in T}
<1>1. U \subseteq Nat /\ U # {}
  OBVIOUS
<1>2. PICK z \in U : \A y \in U : z <= y
  BY <1>1, LeastNatural
<1>3. PICK x \in T : z = n - x
  BY <1>2
<1>4. \A y \in T : n - x <= n - y
  BY <1>2, <1>3
<1>5. \E m \in T : \A y \in T : m >= y
  BY <1>3, <1>4
<1> QED BY <1>5 DEF Max

LEMMA SizeFacts ==
    /\ Size \in [0 .. 30 -> Nat] /\ Size[0] = 1
    /\ \A k \in 0 .. 29 : Size[k + 1] = 2 * Size[k]
    /\ \A k \in 0 .. 30 : Size[k] \in Nat
BY KmallocAssumption

(* Size[k] = Size[j] * Size[k - j]                                         *)
LEMMA SizeProduct ==
    ASSUME NEW j \in 0 .. 30, NEW k \in j .. 30
    PROVE  Size[k] = Size[j] * Size[k - j]
<1> DEFINE Bad == {m \in j .. 30 : Size[m] # Size[j] * Size[m - j]}
<1> SUFFICES ASSUME k \in Bad PROVE FALSE
  OBVIOUS
<1>0. Bad \subseteq Nat /\ Bad # {}
  OBVIOUS
<1>1. PICK m \in Bad : \A y \in Bad : m <= y
  <2> HIDE DEF Bad
  <2> QED BY <1>0, LeastNatural
<1>2. m # j
  BY <1>1, SizeFacts
<1>3. m \in Nat /\ m - 1 \in j .. 30 /\ m - 1 \notin Bad
  BY <1>1, <1>2
<1>4. Size[m - 1] = Size[j] * Size[m - 1 - j]
  BY <1>3
<1>5. Size[m] = 2 * Size[m - 1] /\ Size[m - j] = 2 * Size[m - 1 - j]
  <2>1. m - 1 \in 0 .. 29 /\ m - 1 - j \in 0 .. 29
    BY <1>1, <1>3
  <2> QED BY <2>1, SizeFacts
<1>6. Size[j] \in Nat /\ Size[m - 1 - j] \in Nat
  <2>1. m - 1 - j \in 0 .. 30
    BY <1>1, <1>3
  <2> QED BY <2>1, SizeFacts
<1>7. Size[m] = Size[j] * Size[m - j]
  BY <1>4, <1>5, <1>6
<1> QED BY <1>1, <1>7

LEMMA SizePositive ==
    ASSUME NEW k \in 0 .. 30
    PROVE  Size[k] \in Nat \ {0}
<1> DEFINE Bad == {m \in 0 .. 30 : Size[m] = 0}
<1> SUFFICES ASSUME k \in Bad PROVE FALSE
  BY SizeFacts
<1>0. Bad \subseteq Nat /\ Bad # {}
  OBVIOUS
<1>1. PICK m \in Bad : \A y \in Bad : m <= y
  <2> HIDE DEF Bad
  <2> QED BY <1>0, LeastNatural
<1>2. m # 0
  BY <1>1, SizeFacts
<1>3. m - 1 \in 0 .. 29 /\ m - 1 \notin Bad
  BY <1>1, <1>2
<1>4. Size[m] = 2 * Size[m - 1] /\ Size[m - 1] \in Nat \ {0}
  BY <1>3, SizeFacts
<1> QED BY <1>1, <1>4

LEMMA SizeMonotone ==
    ASSUME NEW j \in 0 .. 30, NEW k \in j .. 30
    PROVE  Size[j] <= Size[k]
<1>1. k \in 0 .. 30 /\ k - j \in 0 .. 30
  OBVIOUS
<1>2. Size[j] \in Nat \ {0} /\ Size[k - j] \in Nat \ {0} /\ Size[k] = Size[j] * Size[k - j]
  BY <1>1, SizePositive, SizeProduct
<1> QED BY <1>2

(* The sizes of blocks are numbers for which Size is defined.              *)
LEMMA Logs ==
    /\ \A k \in BlockSizes : k \in 0 .. 30 /\ MinLog2 <= k
    /\ \A k \in BlockSizes : k \notin Caches => k \in PageSizes
    /\ \A k \in PageSizes : k \notin Caches /\ k - PageLog2 \in 0 .. 30 /\ k \in 0 .. 30
    /\ SlabLog2 \in PageSizes /\ PageLog2 \in PageSizes
    /\ \A k \in Caches : k <= SlabLog2 /\ k <= MaxLog2 /\ k \in 0 .. 30
    /\ {MinLog2, MaxLog2} \subseteq Caches
    /\ {MinLog2, MaxLog2, PageLog2, SlabLog2, MaxBlockLog2} \subseteq Nat
    /\ MinLog2 <= MaxLog2 /\ MaxLog2 < PageLog2
BY KmallocAssumption, SMTT(30) DEF BlockSizes, Caches, PageSizes

LEMMA Sizes ==
    /\ PageSize \in Nat \ {0}
    /\ \A k \in BlockSizes : Size[k] \in Nat \ {0}
    /\ \A k \in PageSizes : /\ Size[k - PageLog2] \in Nat \ {0}
                            /\ Size[k] = PageSize * Size[k - PageLog2]
    /\ HeaderSize \in Nat \ {0} /\ SlabArea \in Nat /\ SlabArea < Size[SlabLog2]
    /\ NPages \in Nat
<1>1. \A k \in BlockSizes : Size[k] \in Nat \ {0}
  BY Logs, SizePositive
<1>2. \A k \in PageSizes : Size[k - PageLog2] \in Nat \ {0}
  BY Logs, SizePositive
<1>3. \A k \in PageSizes : Size[k] = PageSize * Size[k - PageLog2]
  <2>1. PageLog2 \in 0 .. 30 /\ \A k \in PageSizes : k \in PageLog2 .. 30
    BY Logs DEF PageSizes
  <2> QED BY <2>1, SizeProduct DEF PageSize
<1>4. PageSize \in Nat \ {0}
  BY <1>1, Logs DEF PageSize, BlockSizes
<1>5. SlabArea \in Nat /\ SlabArea < Size[SlabLog2]
  <2>1. Size[MaxLog2] \in Nat /\ Size[SlabLog2] \in Nat
    BY <1>1, Logs DEF BlockSizes
  <2>2. FooterSize \in Nat \ {0} /\ Size[MaxLog2] + FooterSize <= Size[SlabLog2]
    BY KmallocAssumption
  <2> QED BY <2>1, <2>2 DEF SlabArea
<1> QED BY <1>1, <1>2, <1>3, <1>4, <1>5, KmallocAssumption

(* log2_roundup rounds up.                                                 *)
LEMMA RoundUp ==
    ASSUME NEW n \in Nat, 1 <= n, n <= Size[30]
    PROVE  log2_roundup(n) \in 0 .. 30 /\ n <= Size[log2_roundup(n)]
<1> DEFINE T == {k \in 0 .. 30 : Size[k] <= n}
           l2 == Max(T)
<1>1. 0 \in T
  BY SizeFacts
<1>2. l2 \in T /\ \A k \in T : k <= l2
  BY <1>1, GreatestNatural
<1>3. log2_roundup(n) = IF n = Size[l2] THEN l2 ELSE l2 + 1
  BY DEF log2_roundup
<1> HIDE DEF l2
<1>4. CASE n = Size[l2]
  BY <1>2, <1>3, <1>4
<1>5. CASE n # Size[l2]
  <2>1. l2 # 30
    BY <1>2, <1>5, SizeFacts
  <2>2. l2 + 1 \in 0 .. 30 /\ l2 + 1 \notin T
    BY <1>2, <2>1
  <2>3. n <= Size[l2 + 1]
    BY <2>2, SizeFacts
  <2> QED BY <1>3, <1>5, <2>2, <2>3
<1> QED BY <1>4, <1>5

(* A request with its header fits into the block it gets.                  *)
LEMMA RequestFits ==
    ASSUME NEW sz \in Requests
    PROVE  /\ CacheLog2(sz) \in MinLog2 .. 30
           /\ sz + HeaderSize <= Size[CacheLog2(sz)]
<1> DEFINE r == log2_roundup(sz + HeaderSize)
<1>1. sz \in Nat /\ sz + HeaderSize \in Nat /\ 1 <= sz + HeaderSize /\ sz + HeaderSize <= Size[30]
  BY KmallocAssumption
<1>2. r \in 0 .. 30 /\ sz + HeaderSize <= Size[r]
  BY <1>1, RoundUp
<1>3. MinLog2 \in 0 .. 30
  BY Logs DEF BlockSizes
<1> HIDE DEF r
<1>4. Max({MinLog2, r}) \in {MinLog2, r} /\ \A y \in {MinLog2, r} : y <= Max({MinLog2, r})
  BY <1>2, <1>3, GreatestNatural
<1>5. CacheLog2(sz) = Max({MinLog2, r})
  BY DEF CacheLog2, r
<1>6. CacheLog2(sz) \in MinLog2 .. 30 /\ CacheLog2(sz) \in r .. 30
  BY <1>2, <1>3, <1>4, <1>5
<1>7. Size[r] <= Size[CacheLog2(sz)]
  BY <1>2, <1>6, SizeMonotone
<1>8. Size[r] \in Nat /\ Size[CacheLog2(sz)] \in Nat
  BY <1>2, <1>3, <1>6, SizeFacts
<1> QED BY <1>1, <1>2, <1>6, <1>7, <1>8

-----------------------------------------------------------------------------
(* Addresses, pages and objects                                            *)

LEMMA AlignedFacts ==
    ASSUME NEW a, Aligned(a)
    PROVE  /\ a \in Nat /\ a \in Addresses
           /\ a \div PageSize \in Pages /\ a = (a \div PageSize) * PageSize
<1>1. PICK p \in Pages : a = p * PageSize
  BY DEF Aligned
<1>2. p \in Nat /\ p + 1 <= NPages /\ PageSize \in Nat \ {0} /\ NPages \in Nat
  BY Sizes DEF Pages
<1>3. a \in Nat /\ a \div PageSize = p
  BY <1>1, <1>2
<1>4. (p + 1) * PageSize <= NPages * PageSize
  BY <1>2
<1>5. a \in Addresses
  BY <1>1, <1>2, <1>4 DEF Addresses, PageSize
<1> QED BY <1>1, <1>3, <1>5

(* The bytes of a block are in its pages.                                  *)
LEMMA BytesInPages ==
    ASSUME NEW l \in PageSizes, NEW a, Aligned(a), NEW x \in Nat, a <= x, x < a + Size[l]
    PROVE  x \div PageSize \in PagesOf(a, l)
<1> DEFINE p == a \div PageSize
           n == Size[l - PageLog2]
           q == x \div PageSize
<1>1. p \in Nat /\ a = p * PageSize /\ PageSize \in Nat \ {0} /\ n \in Nat /\ Size[l] = PageSize * n
  BY AlignedFacts, Sizes DEF Pages
<1>2. PagesOf(a, l) = p .. (p + n - 1)
  BY DEF PagesOf, PageSize
<1>3. q \in Int /\ PageSize * q <= x /\ x < PageSize * (q + 1)
  BY <1>1
<1> HIDE DEF p, q, n
<1>4. p * PageSize < PageSize * (q + 1) /\ PageSize * q < (p + n) * PageSize
  BY <1>1, <1>3
<1>5. p < q + 1 /\ q < p + n
  BY <1>1, <1>3, <1>4
<1> QED BY <1>1, <1>2, <1>3, <1>5 DEF q

LEMMA PageAddress ==
    ASSUME NEW x \in Nat, x \div PageSize \in Pages
    PROVE  x \in Addresses
<1> DEFINE q == x \div PageSize
<1>1. /\ q \in Nat /\ q + 1 <= NPages /\ PageSize \in Nat \ {0} /\ NPages \in Nat
      /\ x < PageSize * (q + 1)
  BY Sizes DEF Pages
<1> HIDE DEF q
<1>2. PageSize * (q + 1) <= NPages * PageSize
  BY <1>1
<1> QED BY <1>1, <1>2 DEF Addresses, PageSize

LEMMA FreeBlockFacts ==
    ASSUME NEW l \in PageSizes, vfree \subseteq Pages, NEW a \in FreeBlocks(l)
    PROVE  /\ Aligned(a) /\ a \in Addresses /\ a % Size[l] = 0
           /\ PagesOf(a, l) \subseteq vfree
<1>1. Aligned(a) /\ a % Size[l] = 0 /\ PagesOf(a, l) \subseteq vfree
  BY DEF FreeBlocks, Aligned, PageSize
<1> QED BY <1>1, AlignedFacts

(* Objects lie within the part of a slab that is for objects.              *)
LEMMA ObjectFacts ==
    ASSUME NEW k \in Caches, NEW s \in Nat, NEW a \in Objects(s, k)
    PROVE  /\ a \in Nat /\ s <= a /\ a + Size[k] <= s + SlabArea
           /\ a + Size[k] <= s + bitmap_num(k) * Size[k]
<1>1. PICK i \in 0 .. (SlabArea \div Size[k] - 1) : a = s + i * Size[k]
  BY DEF Objects, bitmap_num, SlabArea
<1>2. Size[k] \in Nat \ {0} /\ SlabArea \in Nat
  BY Sizes DEF BlockSizes
<1> DEFINE q == SlabArea \div Size[k]
<1>3. q \in Nat /\ q * Size[k] <= SlabArea /\ i \in Nat /\ i + 1 <= q
  BY <1>1, <1>2
<1>4. bitmap_num(k) = q
  BY DEF bitmap_num, SlabArea
<1> HIDE DEF q
<1>5. (i + 1) * Size[k] <= q * Size[k]
  BY <1>2, <1>3
<1>6. a + Size[k] = s + (i + 1) * Size[k] /\ i * Size[k] \in Nat /\ q * Size[k] \in Nat
  BY <1>1, <1>2, <1>3
<1>7. a \in Nat /\ s <= a
  BY <1>1, <1>2, <1>6
<1>8. a + Size[k] <= s + q * Size[k] /\ a + Size[k] <= s + SlabArea
  <2>1. PICK y \in Nat : y = q * Size[k]
    BY <1>6
  <2>2. PICK z \in Int : z = (i + 1) * Size[k]
    BY <1>2, <1>3
  <2> QED BY <1>2, <1>3, <1>5, <1>6, <2>1, <2>2
<1> QED BY <1>4, <1>7, <1>8

(* Only where the bitmap has no room does it lie in an object.             *)
LEMMA OverlaidFacts ==
    ASSUME NEW k \in Caches, NEW s \in Nat, NEW a \in Objects(s, k), Overlaid(s, a, k)
    PROVE  ~RoomFor(k)
<1>1. Size[k] \in Nat \ {0} /\ SlabArea \in Nat
  BY Sizes DEF BlockSizes
<1>2. SlabArea \div Size[k] \in Nat
  BY <1>1
<1>3. PICK n \in Nat : n = bitmap_num(k)
  BY <1>2 DEF bitmap_num, SlabArea
<1>4. PICK y \in Nat : y = n * Size[k]
  BY <1>1
<1>5. PICK z \in Nat : z = n \div 8 + 1
  OBVIOUS
<1>6. a \in Nat /\ a + Size[k] <= s + y
  BY <1>3, <1>4, ObjectFacts
<1>7. Size[SlabLog2] \in Nat /\ FooterSize \in Nat
  BY Sizes, Logs, KmallocAssumption DEF BlockSizes
<1>8. a + Size[k] > s + Size[SlabLog2] - FooterSize - z
  BY <1>3, <1>5 DEF Overlaid, bitmap_sz
<1>9. ~(y + z + FooterSize <= Size[SlabLog2])
  BY <1>1, <1>6, <1>7, <1>8
<1> QED BY <1>3, <1>4, <1>5, <1>9 DEF RoomFor, bitmap_sz

LEMMA ObjectsApart ==
    ASSUME NEW k \in Caches, NEW s \in Nat, NEW a \in Objects(s, k), NEW b \in Objects(s, k), a # b
    PROVE  a + Size[k] <= b \/ b + Size[k] <= a
<1>1. PICK i \in Int : a = s + i * Size[k]
  BY DEF Objects
<1>2. PICK j \in Int : b = s + j * Size[k]
  BY DEF Objects
<1>3. Size[k] \in Nat \ {0}
  BY Sizes DEF BlockSizes
<1>4. CASE i < j
  <2>1. (i + 1) * Size[k] <= j * Size[k]
    BY <1>3, <1>4
  <2>2. (i + 1) * Size[k] = i * Size[k] + Size[k]
    BY <1>3
  <2> QED BY <1>1, <1>2, <1>3, <2>1, <2>2
<1>5. CASE j < i
  <2>1. (j + 1) * Size[k] <= i * Size[k]
    BY <1>3, <1>5
  <2>2. (j + 1) * Size[k] = j * Size[k] + Size[k]
    BY <1>3
  <2> QED BY <1>1, <1>2, <1>3, <2>1, <2>2
<1>6. i # j
  BY <1>1, <1>2
<1>7. i < j \/ j < i
  BY <1>1, <1>2, <1>6
<1> QED BY <1>4, <1>5, <1>7

LEMMA Remainder ==
    ASSUME NEW m \in Nat \ {0}, NEW s \in Nat, s % m = 0, NEW r \in 0 .. (m - 1)
    PROVE  (s + r) % m = r
OBVIOUS

(* A slab is found from any address in it.                                 *)
LEMMA SlabOfFacts ==
    ASSUME NEW s \in Nat, s % Size[SlabLog2] = 0,
           NEW x \in Nat, s <= x, x < s + Size[SlabLog2]
    PROVE  SlabOf(x) = s
<1>1. Size[SlabLog2] \in Nat \ {0}
  BY Sizes, Logs DEF BlockSizes
<1>2. x - s \in 0 .. (Size[SlabLog2] - 1) /\ s + (x - s) = x
  BY <1>1
<1>3. (s + (x - s)) % Size[SlabLog2] = x - s
  BY <1>1, <1>2, Remainder
<1> QED BY <1>2, <1>3 DEF SlabOf

LEMMA SlabOfBelow ==
    ASSUME NEW x \in Nat
    PROVE  SlabOf(x) \in Nat /\ SlabOf(x) <= x /\ x < SlabOf(x) + Size[SlabLog2]
<1>1. Size[SlabLog2] \in Nat \ {0}
  BY Sizes, Logs DEF BlockSizes
<1>2. x % Size[SlabLog2] \in 0 .. (Size[SlabLog2] - 1) /\ x % Size[SlabLog2] <= x
  BY <1>1
<1> QED BY <1>1, <1>2 DEF SlabOf

(* An object's bytes are in the pages of its slab.                         *)
LEMMA ObjectPages ==
    ASSUME NEW k \in Caches, NEW s, Aligned(s), NEW a \in Objects(s, k),
           NEW x \in a .. (a + Size[k] - 1)
    PROVE  /\ x \div PageSize \in SlabPages(s)
           /\ x \in Nat /\ s <= x /\ x < s + SlabArea
<1>1. s \in Nat /\ Size[k] \in Nat /\ SlabArea \in Nat /\ SlabArea < Size[SlabLog2] /\ Size[SlabLog2] \in Nat
  BY AlignedFacts, Sizes, Logs DEF BlockSizes
<1>2. a \in Nat /\ s <= a /\ a + Size[k] <= s + SlabArea
  BY <1>1, ObjectFacts
<1>3. x \in Nat /\ s <= x /\ x < s + SlabArea /\ x < s + Size[SlabLog2]
  BY <1>1, <1>2
<1> QED BY <1>3, BytesInPages, Logs DEF SlabPages

(* The first object of a slab is at its start.                             *)
LEMMA FirstObject ==
    ASSUME NEW k \in Caches, NEW s \in Nat
    PROVE  s \in Objects(s, k)
<1>1. Size[k] \in Nat \ {0} /\ SlabArea \in Nat /\ Size[k] <= SlabArea
  <2>1. k \in 0 .. 30 /\ MaxLog2 \in k .. 30
    BY Logs
  <2>2. Size[k] <= Size[MaxLog2] /\ Size[MaxLog2] + FooterSize <= Size[SlabLog2] /\ FooterSize \in Nat
    BY <2>1, SizeMonotone, KmallocAssumption
  <2>3. Size[MaxLog2] \in Nat /\ Size[k] \in Nat \ {0} /\ SlabArea \in Nat /\ Size[SlabLog2] \in Nat
    BY Sizes, Logs DEF BlockSizes
  <2> QED BY <2>2, <2>3 DEF SlabArea
<1> DEFINE q == SlabArea \div Size[k]
<1>2. q \in Int /\ SlabArea < Size[k] * (q + 1)
  BY <1>1
<1> HIDE DEF q
<1>3. q >= 1
  BY <1>1, <1>2
<1>4. 0 \in 0 .. (q - 1) /\ s = s + 0 * Size[k]
  BY <1>1, <1>2, <1>3
<1> QED BY <1>4 DEF Objects, bitmap_num, SlabArea, q

-----------------------------------------------------------------------------
(* What a layout implies                                                   *)

Bytes(x) == x.addr .. (x.addr + Size[x.got] - 1)

(* The bytes of a block are in pages of its own, or in pages of a slab of  *)
(* its cache.                                                              *)
LEMMA BlockPages ==
    ASSUME NEW h, NEW v, NEW sl, NEW u, Layout(h, v, sl, u), NEW x \in h, NEW z \in Bytes(x)
    PROVE  /\ z \in Nat
           /\ x.got \notin Caches => z \div PageSize \in PagesOf(x.addr, x.got)
           /\ x.got \in Caches => \E s \in sl[x.got] :
                 /\ x.addr \in Objects(s, x.got)
                 /\ z \div PageSize \in SlabPages(s)
                 /\ Aligned(s) /\ s % Size[SlabLog2] = 0 /\ s <= z /\ z < s + SlabArea
<1>1. x.addr \in Nat /\ x.got \in BlockSizes /\ Size[x.got] \in Nat
  BY Sizes DEF Layout, BlockTypes, Addresses
<1>2. z \in Nat /\ x.addr <= z /\ z < x.addr + Size[x.got]
  BY <1>1 DEF Bytes
<1>3. ASSUME x.got \notin Caches PROVE z \div PageSize \in PagesOf(x.addr, x.got)
  <2>1. x.got \in PageSizes /\ Aligned(x.addr)
    BY <1>1, <1>3, Logs DEF Layout, LargePlaced
  <2> QED BY <1>2, <2>1, BytesInPages
<1>4. ASSUME x.got \in Caches
      PROVE  \E s \in sl[x.got] :
                 /\ x.addr \in Objects(s, x.got)
                 /\ z \div PageSize \in SlabPages(s)
                 /\ Aligned(s) /\ s % Size[SlabLog2] = 0 /\ s <= z /\ z < s + SlabArea
  <2>1. PICK s \in sl[x.got] : x.addr \in Objects(s, x.got)
    BY <1>4 DEF Layout, SmallPlaced
  <2>2. Aligned(s) /\ s % Size[SlabLog2] = 0
    BY <1>4 DEF Layout, SlabsPlaced
  <2>3. z \div PageSize \in SlabPages(s) /\ s <= z /\ z < s + SlabArea
    BY <1>4, <2>1, <2>2, ObjectPages DEF Bytes
  <2> QED BY <2>1, <2>2, <2>3
<1> QED BY <1>2, <1>3, <1>4

(* Blocks do not share a byte.                                             *)
LEMMA BytesApart ==
    ASSUME NEW h, NEW v, NEW sl, NEW u, Layout(h, v, sl, u), NEW x \in h, NEW y \in h, x # y
    PROVE  Apart(Bytes(x), Bytes(y))
<1> SUFFICES ASSUME NEW z \in Bytes(x), z \in Bytes(y) PROVE FALSE
  BY DEF Apart
<1>1. CASE x.got \notin Caches /\ y.got \notin Caches
  <2>1. z \div PageSize \in PagesOf(x.addr, x.got) /\ z \div PageSize \in PagesOf(y.addr, y.got)
    BY <1>1, BlockPages
  <2> QED BY <1>1, <2>1 DEF Layout, LargePlaced, Apart
<1>2. CASE x.got \notin Caches /\ y.got \in Caches
  <2>1. z \div PageSize \in PagesOf(x.addr, x.got)
    BY <1>2, BlockPages
  <2>2. PICK s \in sl[y.got] : z \div PageSize \in SlabPages(s)
    BY <1>2, BlockPages
  <2> QED BY <1>2, <2>1, <2>2 DEF Layout, LargePlaced, Apart
<1>3. CASE x.got \in Caches /\ y.got \notin Caches
  <2>1. z \div PageSize \in PagesOf(y.addr, y.got)
    BY <1>3, BlockPages
  <2>2. PICK s \in sl[x.got] : z \div PageSize \in SlabPages(s)
    BY <1>3, BlockPages
  <2> QED BY <1>3, <2>1, <2>2 DEF Layout, LargePlaced, Apart
<1>4. CASE x.got \in Caches /\ y.got \in Caches
  <2>1. PICK s \in sl[x.got] : x.addr \in Objects(s, x.got) /\ z \div PageSize \in SlabPages(s) /\ Aligned(s)
    BY <1>4, BlockPages
  <2>2. PICK t \in sl[y.got] : y.addr \in Objects(t, y.got) /\ z \div PageSize \in SlabPages(t)
    BY <1>4, BlockPages
  <2>3. x.got = y.got /\ s = t
    BY <1>4, <2>1, <2>2 DEF Layout, SlabsPlaced, Apart
  <2>4. x.addr # y.addr
    BY <1>4, <2>3 DEF Layout, SmallPlaced
  <2>5. s \in Nat
    BY <2>1, AlignedFacts
  <2>6. x.addr + Size[x.got] <= y.addr \/ y.addr + Size[x.got] <= x.addr
    BY <1>4, <2>1, <2>2, <2>3, <2>4, <2>5, ObjectsApart
  <2>7. x.addr \in Nat /\ y.addr \in Nat /\ Size[x.got] \in Nat
    BY Sizes DEF Layout, BlockTypes, Addresses
  <2>8. z \in Int /\ x.addr <= z /\ z < x.addr + Size[x.got] /\ y.addr <= z /\ z < y.addr + Size[x.got]
    BY <2>3, <2>7 DEF Bytes
  <2> QED BY <2>6, <2>7, <2>8
<1> QED BY <1>1, <1>2, <1>3, <1>4

-----------------------------------------------------------------------------
(* How a layout changes                                                    *)

(* A block changes hands.                                                  *)
LEMMA Handover ==
    ASSUME NEW h, NEW v, NEW sl, NEW u, Layout(h, v, sl, u), NEW x \in h, NEW y,
           y.addr = x.addr, y.got = x.got, y.sz = x.sz, NEW g, g = (h \ {x}) \cup {y}
    PROVE  Layout(g, v, sl, u) /\ (Covered(h, v, sl) => Covered(g, v, sl))
<1>1. BlockTypes(g)
  BY DEF Layout, BlockTypes
<1>2. LargePlaced(g, v, sl)
  BY DEF Layout, LargePlaced
<1>3. SmallPlaced(g, sl, u)
  BY DEF Layout, SmallPlaced
<1>4. Covered(h, v, sl) => Covered(g, v, sl)
  BY DEF Covered
<1> QED BY <1>1, <1>2, <1>3, <1>4 DEF Layout

(* An unused object of a slab is given out.                                *)
LEMMA AddObject ==
    ASSUME NEW h, NEW v, NEW sl, NEW u, Layout(h, v, sl, u),
           NEW x, x.got \in Caches, x.addr \notin u[x.got],
           \E s \in sl[x.got] : x.addr \in Objects(s, x.got),
           x.sz \in Requests, x.sz + HeaderSize <= Size[x.got]
    PROVE  /\ Layout(h \cup {x}, v, sl, [u EXCEPT ![x.got] = @ \cup {x.addr}])
           /\ Covered(h, v, sl) => Covered(h \cup {x}, v, sl)
           /\ x.addr \in Addresses
<1> DEFINE g == h \cup {x}
           k == x.got
           a == x.addr
           w == [u EXCEPT ![k] = @ \cup {a}]
<1>0. PICK s \in sl[k] : a \in Objects(s, k)
  OBVIOUS
<1>1. Aligned(s) /\ SlabPages(s) \subseteq Pages
  BY DEF Layout, SlabsPlaced
<1>2. a \in Addresses
  <2>1. s \in Nat
    BY <1>1, AlignedFacts
  <2>2. a \in Nat /\ Size[k] \in Nat \ {0}
    BY <1>0, <2>1, ObjectFacts, Sizes DEF BlockSizes
  <2>3. a \in a .. (a + Size[k] - 1)
    BY <2>2
  <2>4. a \div PageSize \in SlabPages(s)
    BY <1>0, <1>1, <2>3, ObjectPages
  <2> QED BY <1>1, <2>2, <2>4, PageAddress
<1>3. w \in [Caches -> SUBSET Addresses] /\ w[k] = u[k] \cup {a} /\ \A j \in Caches : j # k => w[j] = u[j]
  BY <1>2 DEF Layout
<1> HIDE DEF w
<1>4. BlockTypes(g)
  BY <1>2 DEF Layout, BlockTypes, BlockSizes
<1>5. LargePlaced(g, v, sl)
  BY DEF Layout, LargePlaced
<1>6. SmallPlaced(g, sl, w)
  <2>1. \A y \in h : ~(y.got = k /\ y.addr = a)
    BY DEF Layout, SmallPlaced
  <2> QED BY <1>0, <1>3, <2>1 DEF Layout, SmallPlaced
<1>7. Covered(h, v, sl) => Covered(g, v, sl)
  BY DEF Covered
<1>8. Layout(g, v, sl, w)
  BY <1>2, <1>3, <1>4, <1>5, <1>6 DEF Layout
<1> QED BY <1>2, <1>7, <1>8 DEF w

(* A cache takes a slab.                                                   *)
LEMMA AddSlab ==
    ASSUME NEW h, NEW v, NEW sl, NEW u, Layout(h, v, sl, u),
           NEW k \in Caches, NEW s, Aligned(s), s % Size[SlabLog2] = 0, SlabPages(s) \subseteq v
    PROVE  /\ Layout(h, v \ SlabPages(s), [sl EXCEPT ![k] = @ \cup {s}], u)
           /\ Covered(h, v, sl) => Covered(h, v \ SlabPages(s), [sl EXCEPT ![k] = @ \cup {s}])
           /\ s \in [sl EXCEPT ![k] = @ \cup {s}][k] /\ s \notin u[k]
<1> DEFINE v1 == v \ SlabPages(s)
           sl1 == [sl EXCEPT ![k] = @ \cup {s}]
<1>1. s \in Addresses /\ s \in Nat
  BY AlignedFacts
<1>2. sl1 \in [Caches -> SUBSET Addresses] /\ sl1[k] = sl[k] \cup {s} /\ \A j \in Caches : j # k => sl1[j] = sl[j]
  BY <1>1 DEF Layout
<1> HIDE DEF sl1
<1>3. \A j \in Caches : \A t \in sl1[j] : t \in sl[j] \/ (j = k /\ t = s)
  BY <1>2
<1>4. SlabsPlaced(v1, sl1)
  BY <1>3 DEF Layout, SlabsPlaced, Apart
<1>5. LargePlaced(h, v1, sl1)
  BY <1>3 DEF Layout, LargePlaced, Apart
<1>6. SmallPlaced(h, sl1, u)
  BY <1>2 DEF Layout, SmallPlaced
<1>7. ASSUME Covered(h, v, sl) PROVE Covered(h, v1, sl1)
  BY <1>2, <1>7 DEF Covered
<1>8. s \notin u[k]
  <2> SUFFICES ASSUME s \in u[k] PROVE FALSE
    OBVIOUS
  <2>1. PICK x \in h : x.got = k /\ x.addr = s
    BY DEF Layout, SmallPlaced
  <2>2. s \in Bytes(x)
    BY <1>1, <2>1, Sizes DEF Bytes, BlockSizes
  <2>3. PICK t \in sl[k] : s \div PageSize \in SlabPages(t)
    BY <2>1, <2>2, BlockPages
  <2>4. s \div PageSize \in SlabPages(s)
    <3>1. s < s + Size[SlabLog2] /\ SlabLog2 \in PageSizes
      BY <1>1, Sizes, Logs DEF BlockSizes
    <3> QED BY <1>1, <3>1, BytesInPages DEF SlabPages
  <2> QED BY <2>3, <2>4 DEF Layout, SlabsPlaced
<1>9. Layout(h, v1, sl1, u)
  BY <1>2, <1>4, <1>5, <1>6 DEF Layout
<1>10. s \in sl1[k]
  BY <1>2
<1> QED BY <1>7, <1>8, <1>9, <1>10 DEF sl1

(* Pages are given out.                                                    *)
LEMMA AddLarge ==
    ASSUME NEW h, NEW v, NEW sl, NEW u, Layout(h, v, sl, u),
           NEW x, x.got \in PageSizes, Aligned(x.addr), PagesOf(x.addr, x.got) \subseteq v,
           x.sz \in Requests, x.sz + HeaderSize <= Size[x.got],
           NEW v1, v1 = v \ PagesOf(x.addr, x.got), NEW g, g = h \cup {x}
    PROVE  Layout(g, v1, sl, u) /\ (Covered(h, v, sl) => Covered(g, v1, sl))
<1>1. x.addr \in Addresses /\ x.got \notin Caches /\ x.got \in BlockSizes
  BY AlignedFacts, Logs DEF BlockSizes
<1>2. BlockTypes(g)
  BY <1>1 DEF Layout, BlockTypes
<1>3. SlabsPlaced(v1, sl)
  BY DEF Layout, SlabsPlaced
<1>4. LargePlaced(g, v1, sl)
  BY DEF Layout, LargePlaced, SlabsPlaced, Apart
<1>5. SmallPlaced(g, sl, u)
  BY <1>1 DEF Layout, SmallPlaced
<1>6. ASSUME Covered(h, v, sl) PROVE Covered(g, v1, sl)
  BY <1>1, <1>6 DEF Covered
<1> QED BY <1>2, <1>3, <1>4, <1>5, <1>6 DEF Layout

(* An object comes back.                                                   *)
LEMMA DropObject ==
    ASSUME NEW h, NEW v, NEW sl, NEW u, Layout(h, v, sl, u), NEW x \in h, x.got \in Caches
    PROVE  /\ Layout(h \ {x}, v, sl, [u EXCEPT ![x.got] = @ \ {x.addr}])
           /\ Covered(h, v, sl) => Covered(h \ {x}, v, sl)
<1> DEFINE k == x.got
           g == h \ {x}
           w == [u EXCEPT ![k] = @ \ {x.addr}]
<1>1. /\ w \in [Caches -> SUBSET Addresses] /\ w[k] = u[k] \ {x.addr}
      /\ \A j \in Caches : j # k => w[j] = u[j]
  BY DEF Layout
<1> HIDE DEF w
<1>2. BlockTypes(g)
  BY DEF Layout, BlockTypes
<1>3. LargePlaced(g, v, sl)
  BY DEF Layout, LargePlaced
<1>4. SmallPlaced(g, sl, w)
  <2>1. \A y \in g : ~(y.got = k /\ y.addr = x.addr)
    BY DEF Layout, SmallPlaced
  <2> QED BY <1>1, <2>1 DEF Layout, SmallPlaced
<1>5. ASSUME Covered(h, v, sl) PROVE Covered(g, v, sl)
  BY <1>5 DEF Covered
<1>6. Layout(g, v, sl, w)
  BY <1>1, <1>2, <1>3, <1>4 DEF Layout
<1> QED BY <1>5, <1>6 DEF w

(* A slab without used objects goes back to the vmspace.                   *)
LEMMA DropSlab ==
    ASSUME NEW h, NEW v, NEW sl, NEW u, Layout(h, v, sl, u),
           NEW k \in Caches, NEW s \in sl[k], u[k] \cap Objects(s, k) = {}
    PROVE  /\ Layout(h, v \cup SlabPages(s), [sl EXCEPT ![k] = @ \ {s}], u)
           /\ Covered(h, v, sl) => Covered(h, v \cup SlabPages(s), [sl EXCEPT ![k] = @ \ {s}])
<1> DEFINE v1 == v \cup SlabPages(s)
           sl1 == [sl EXCEPT ![k] = @ \ {s}]
<1>1. /\ sl1 \in [Caches -> SUBSET Addresses] /\ sl1[k] = sl[k] \ {s}
      /\ \A j \in Caches : j # k => sl1[j] = sl[j]
  BY DEF Layout
<1> HIDE DEF sl1
<1>2. \A j \in Caches : \A t \in sl1[j] : t \in sl[j] /\ ~(j = k /\ t = s)
  BY <1>1
<1>3. SlabPages(s) \subseteq Pages
  BY DEF Layout, SlabsPlaced
<1>4. SlabsPlaced(v1, sl1)
  BY <1>2, <1>3 DEF Layout, SlabsPlaced, Apart
<1>5. LargePlaced(h, v1, sl1)
  BY <1>2 DEF Layout, LargePlaced, Apart
<1>6. SmallPlaced(h, sl1, u)
  <2>1. ASSUME NEW x \in h, x.got \in Caches
        PROVE  \E t \in sl1[x.got] : x.addr \in Objects(t, x.got)
    <3>1. PICK t \in sl[x.got] : x.addr \in Objects(t, x.got)
      BY <2>1 DEF Layout, SmallPlaced
    <3>2. x.addr \in u[x.got]
      BY <2>1 DEF Layout, SmallPlaced
    <3>3. t \in sl1[x.got]
      BY <1>1, <2>1, <3>1, <3>2
    <3> QED BY <3>1, <3>3
  <2> QED BY <2>1 DEF Layout, SmallPlaced
<1>7. ASSUME Covered(h, v, sl) PROVE Covered(h, v1, sl1)
  BY <1>1, <1>7 DEF Covered
<1>8. Layout(h, v1, sl1, u)
  BY <1>1, <1>3, <1>4, <1>5, <1>6 DEF Layout
<1> QED BY <1>7, <1>8 DEF sl1

(* Pages come back.                                                        *)
LEMMA DropLarge ==
    ASSUME NEW h, NEW v, NEW sl, NEW u, Layout(h, v, sl, u), NEW x \in h, x.got \notin Caches,
           NEW v1, v1 = v \cup PagesOf(x.addr, x.got)
    PROVE  Layout(h \ {x}, v1, sl, u) /\ (Covered(h, v, sl) => Covered(h \ {x}, v1, sl))
<1> DEFINE g == h \ {x}
<1>1. PagesOf(x.addr, x.got) \subseteq Pages
  BY DEF Layout, LargePlaced
<1>2. BlockTypes(g)
  BY DEF Layout, BlockTypes
<1>3. SlabsPlaced(v1, sl)
  BY DEF Layout, SlabsPlaced, LargePlaced, Apart
<1>4. LargePlaced(g, v1, sl)
  BY DEF Layout, LargePlaced, Apart
<1>5. SmallPlaced(g, sl, u)
  BY DEF Layout, SmallPlaced
<1>6. ASSUME Covered(h, v, sl) PROVE Covered(g, v1, sl)
  BY <1>6 DEF Covered
<1> QED BY <1>1, <1>2, <1>3, <1>4, <1>5, <1>6 DEF Layout

-----------------------------------------------------------------------------
(* Who holds the blocks                                                    *)

LEMMA DistinctAddresses ==
    ASSUME NEW h, NEW v, NEW sl, NEW u, Layout(h, v, sl, u), NEW x \in h, NEW y \in h,
           x.addr = y.addr
    PROVE  x = y
<1>1. x.addr \in Nat /\ Size[x.got] \in Nat \ {0} /\ Size[y.got] \in Nat \ {0}
  BY Sizes DEF Layout, BlockTypes, Addresses
<1>2. x.addr \in Bytes(x) /\ x.addr \in Bytes(y)
  BY <1>1 DEF Bytes
<1> QED BY <1>2, BytesApart DEF Apart

LEMMA HeldIs == Held = live \cup {call[c] : c \in Busy}
BY DEF Held, Busy

(* A call is not a block that a caller holds.                              *)
LEMMA CallsNotLive ==
    ASSUME CallInv
    PROVE  /\ \A x \in Calls : x \notin live /\ x # None /\ x.op \in {"alloc", "free"}
           /\ \A c \in Busy : call[c] \in Calls /\ c \in Contexts
<1>1. \A c \in Busy : call[c] \in Calls /\ c \in Contexts
  BY DEF Busy, CallInv
<1>2. ASSUME NEW x \in Calls PROVE x \notin live
  <2> SUFFICES ASSUME x \in live PROVE FALSE
    OBVIOUS
  <2>1. x \in [addr : Addresses, ptr : Nat, got : BlockSizes, sz : Requests]
    BY DEF CallInv
  <2>2. DOMAIN x = {"addr", "ptr", "got", "sz"}
    BY <2>1
  <2>3. "op" \in DOMAIN x
    BY DEF Calls
  <2> QED BY <2>2, <2>3
<1>3. ASSUME NEW x \in Calls PROVE x # None /\ x.op \in {"alloc", "free"}
  BY DEF Calls, None
<1> QED BY <1>1, <1>2, <1>3

(* Context c begins a call with x, ends its call, or changes it for b.     *)
LEMMA HeldBegins ==
    ASSUME CallInv, NEW c \in Contexts, call[c] = None, NEW x \in Calls,
           call' = [call EXCEPT ![c] = x]
    PROVE  {call'[d] : d \in Busy'} = {call[d] : d \in Busy} \cup {x}
<1>1. x # None
  BY CallsNotLive
<1>2. \A d \in Contexts : call'[d] = IF d = c THEN x ELSE call[d]
  BY DEF CallInv
<1>3. Busy' = Busy \cup {c} /\ c \notin Busy
  BY <1>1, <1>2 DEF Busy
<1>4. \A d \in Busy : call'[d] = call[d]
  BY <1>2, <1>3 DEF Busy
<1> QED BY <1>2, <1>3, <1>4

LEMMA HeldEnds ==
    ASSUME CallInv, NEW c \in Busy, call' = [call EXCEPT ![c] = None]
    PROVE  {call'[d] : d \in Busy'} = {call[d] : d \in Busy} \ {call[c]}
<1>1. \A d \in Contexts : call'[d] = IF d = c THEN None ELSE call[d]
  BY DEF CallInv, Busy
<1>2. Busy' = Busy \ {c}
  BY <1>1 DEF Busy
<1>3. \A d \in Busy : call'[d] = IF d = c THEN None ELSE call[d]
  BY <1>1 DEF Busy
<1>4. \A d \in Busy : d # c => call[d] # call[c]
  BY DEF CallInv
<1> QED BY <1>2, <1>3, <1>4

LEMMA CallBegins ==
    ASSUME CallInv, NEW c \in Contexts, NEW x \in Calls, x.l2 = x.got,
           x \notin {call[d] : d \in Busy}, call[c] = None,
           call' = [call EXCEPT ![c] = x], live' \subseteq live
    PROVE  CallInv'
<1>1. \A d \in Contexts : call'[d] = IF d = c THEN x ELSE call[d]
  BY DEF CallInv
<1>2. \A d \in Busy' : (d = c /\ call'[d] = x) \/ (d \in Busy /\ call'[d] = call[d])
  BY <1>1 DEF Busy
<1>3. call' \in [Contexts -> Calls \cup {None}]
  BY DEF CallInv
<1>4. \A d, e \in Busy' : call'[d] = call'[e] => d = e
  BY <1>2 DEF CallInv
<1>5. \A d \in Busy' : call'[d].l2 = call'[d].got
  BY <1>2 DEF CallInv
<1> QED BY <1>3, <1>4, <1>5 DEF CallInv

LEMMA CallEnds ==
    ASSUME CallInv, NEW c \in Contexts, call' = [call EXCEPT ![c] = None],
           live' \subseteq [addr : Addresses, ptr : Nat, got : BlockSizes, sz : Requests]
    PROVE  CallInv'
<1>1. \A d \in Contexts : call'[d] = IF d = c THEN None ELSE call[d]
  BY DEF CallInv
<1>2. \A d \in Busy' : d \in Busy /\ call'[d] = call[d]
  BY <1>1 DEF Busy
<1>3. call' \in [Contexts -> Calls \cup {None}]
  BY DEF CallInv
<1> QED BY <1>2, <1>3 DEF CallInv

(* kmalloc has got a block, and nothing else of the heap has changed hands.*)
LEMMA AllocBegins ==
    ASSUME IInv, state = "up", NEW c \in Contexts, call[c] = None,
           NEW a \in Addresses, NEW k \in BlockSizes, NEW sz \in Requests,
           Got(c, a, k, k, sz), live' = live, hdr' = hdr,
           state' = "up" \/ (state' = "overlaid" /\ SomeOverlaid),
           NEW x, x = [op |-> "alloc", addr |-> a, l2 |-> k, got |-> k, sz |-> sz],
           x \notin Held,
           Layout(Held \cup {x}, vfree', slabs', used'),
           Covered(Held \cup {x}, vfree', slabs')
    PROVE  IInv'
<1>1. x \in Calls /\ x.l2 = x.got
  BY DEF Calls
<1>2. call' = [call EXCEPT ![c] = x]
  BY DEF Got
<1>3. CallInv
  BY DEF IInv
<1>4. Held' = Held \cup {x}
  <2>1. Held' = live' \cup {call'[d] : d \in Busy'}
    BY DEF Held, Busy
  <2> QED BY <1>1, <1>2, <1>3, <2>1, HeldBegins, HeldIs
<1>5. x \notin {call[d] : d \in Busy}
  BY HeldIs
<1>6. CallInv'
  BY <1>1, <1>2, <1>3, <1>5, CallBegins
<1>7. HeaderInv'
  BY DEF IInv, HeaderInv
<1>8. StateInv'
  BY <1>4 DEF StateInv, SomeOverlaid
<1> QED BY <1>4, <1>6, <1>7, <1>8 DEF IInv

-----------------------------------------------------------------------------
(* IInv is inductive                                                       *)

LEMMA InitIInv == Init => IInv
<1> SUFFICES ASSUME Init PROVE IInv
  OBVIOUS
<1>1. Busy = {} /\ Held = {}
  BY DEF Init, Busy, Held
<1>2. StateInv
  BY <1>1 DEF Init, StateInv
<1>3. CallInv
  BY <1>1 DEF Init, CallInv
<1>4. HeaderInv
  BY DEF Init, HeaderInv
<1>5. Layout(Held, vfree, slabs, used)
  BY <1>1 DEF Init, Layout, BlockTypes, SlabsPlaced, LargePlaced, SmallPlaced
<1> QED BY <1>2, <1>3, <1>4, <1>5 DEF IInv

LEMMA HeldSame ==
    ASSUME call' = call, live' = live
    PROVE  Held' = Held /\ Busy' = Busy
BY DEF Held, Busy

LEMMA InitStep ==
    ASSUME IInv, kmalloc_init
    PROVE  IInv'
<1>1. /\ state = "start" /\ vfree' = Pages /\ state' = "up" /\ slabs' = slabs /\ used' = used
      /\ call' = call /\ live' = live /\ hdr' = hdr
      /\ Held = {} /\ slabs = [k \in Caches |-> {}] /\ used = [k \in Caches |-> {}]
  BY DEF kmalloc_init, IInv, StateInv
<1>2. Held' = {} /\ Busy' = Busy
  BY <1>1, HeldSame
<1>3. Layout(Held', vfree', slabs', used')
  BY <1>1, <1>2 DEF Layout, BlockTypes, SlabsPlaced, LargePlaced, SmallPlaced
<1>4. StateInv'
  BY <1>1, <1>2 DEF StateInv, Covered
<1>5. CallInv' /\ HeaderInv'
  BY <1>1, <1>2 DEF IInv, CallInv, HeaderInv
<1> QED BY <1>3, <1>4, <1>5 DEF IInv

(* The heap stops.                                                         *)
LEMMA StopStep ==
    ASSUME IInv, state' \in {"panic", "wild"},
           UNCHANGED <<vfree, slabs, used, hdr, live, call>>
    PROVE  IInv'
<1>1. Held' = Held /\ Busy' = Busy
  BY HeldSame
<1> QED BY <1>1 DEF IInv, StateInv, CallInv, HeaderInv

LEMMA AllocObjectStep ==
    ASSUME IInv, NEW c \in Contexts, NEW sz \in Requests, AllocObject(c, sz)
    PROVE  IInv'
<1> DEFINE k == CacheLog2(sz)
<1>1. /\ state = "up" /\ call[c] = None /\ k <= MaxLog2
      /\ UNCHANGED <<vfree, slabs, hdr, live>>
  BY DEF AllocObject, Ready
<1>2. PICK s \in slabs[k] : \E a \in Objects(s, k) \ used[k] : Take(c, s, a, k, sz)
  BY DEF AllocObject
<1>3. PICK a \in Objects(s, k) \ used[k] :
          /\ used' = [used EXCEPT ![k] = @ \cup {a}] /\ Got(c, a, k, k, sz)
          /\ state' = IF Overlaid(s, a, k) THEN "overlaid" ELSE state
  BY <1>2 DEF Take
<1>4. k \in Caches /\ k \in BlockSizes /\ sz + HeaderSize <= Size[k]
  BY <1>1, RequestFits, Logs DEF Caches, BlockSizes
<1> HIDE DEF k
<1>5. PICK x : x = [op |-> "alloc", addr |-> a, l2 |-> k, got |-> k, sz |-> sz]
  OBVIOUS
<1>6. Layout(Held, vfree, slabs, used) /\ Covered(Held, vfree, slabs)
  BY <1>1 DEF IInv, StateInv
<1>7. x.addr = a /\ x.got = k /\ x.sz = sz
  BY <1>5
<1>8. x \notin Held
  BY <1>3, <1>4, <1>6, <1>7 DEF Layout, SmallPlaced
<1>9. /\ Layout(Held \cup {x}, vfree, slabs, used') /\ Covered(Held \cup {x}, vfree, slabs)
      /\ a \in Addresses
  <2>1. \E t \in slabs[x.got] : x.addr \in Objects(t, x.got)
    BY <1>2, <1>3, <1>7
  <2>2. x.got \in Caches /\ x.addr \notin used[x.got] /\ x.sz \in Requests /\ x.sz + HeaderSize <= Size[x.got]
    BY <1>3, <1>4, <1>7
  <2>3. used' = [used EXCEPT ![x.got] = @ \cup {x.addr}]
    BY <1>3, <1>7
  <2>4. /\ Layout(Held \cup {x}, vfree, slabs, [used EXCEPT ![x.got] = @ \cup {x.addr}])
        /\ Covered(Held \cup {x}, vfree, slabs) /\ x.addr \in Addresses
    BY <1>6, <2>1, <2>2, AddObject
  <2> QED BY <1>7, <2>3, <2>4
<1>10. state' = "up" \/ (state' = "overlaid" /\ SomeOverlaid)
  <2>1. s \in Nat
    BY <1>2, <1>4, <1>6, AlignedFacts DEF Layout, SlabsPlaced
  <2>2. Overlaid(s, a, k) => SomeOverlaid
    BY <1>3, <1>4, <2>1, OverlaidFacts DEF SomeOverlaid, k
  <2> QED BY <1>1, <1>3, <2>2
<1> QED BY <1>1, <1>3, <1>4, <1>5, <1>8, <1>9, <1>10, AllocBegins

LEMMA AllocSlabStep ==
    ASSUME IInv, NEW c \in Contexts, NEW sz \in Requests, AllocSlab(c, sz)
    PROVE  IInv'
<1> DEFINE k == CacheLog2(sz)
<1>1. state = "up" /\ call[c] = None /\ k <= MaxLog2 /\ hdr' = hdr /\ live' = live
  BY DEF AllocSlab, Ready
<1>2. k \in Caches /\ k \in BlockSizes /\ sz + HeaderSize <= Size[k]
  BY <1>1, RequestFits, Logs DEF Caches, BlockSizes
<1>3. CASE /\ state' = IF FreeBlocks(SlabLog2) = {} THEN "wild" ELSE "panic"
           /\ UNCHANGED <<vfree, slabs, used, call>>
  BY <1>1, <1>3, StopStep
<1>4. CASE \E s \in FreeBlocks(SlabLog2) :
              /\ vfree' = vfree \ PagesOf(s, SlabLog2)
              /\ slabs' = [slabs EXCEPT ![k] = @ \cup {s}]
              /\ Take(c, s, s, k, sz)
  <2>1. PICK s \in FreeBlocks(SlabLog2) :
              /\ vfree' = vfree \ SlabPages(s)
              /\ slabs' = [slabs EXCEPT ![k] = @ \cup {s}]
              /\ used' = [used EXCEPT ![k] = @ \cup {s}]
              /\ Got(c, s, k, k, sz)
              /\ state' = IF Overlaid(s, s, k) THEN "overlaid" ELSE state
    BY <1>4 DEF SlabPages, Take
  <2> HIDE DEF k
  <2>2. Layout(Held, vfree, slabs, used) /\ Covered(Held, vfree, slabs) /\ vfree \subseteq Pages
    BY <1>1 DEF IInv, StateInv, Layout
  <2>3. Aligned(s) /\ s \in Addresses /\ s % Size[SlabLog2] = 0 /\ SlabPages(s) \subseteq vfree
    BY <2>2, FreeBlockFacts, Logs DEF SlabPages
  <2>4. /\ Layout(Held, vfree', slabs', used) /\ Covered(Held, vfree', slabs')
        /\ s \in slabs'[k] /\ s \notin used[k]
    <3>1. /\ Layout(Held, vfree \ SlabPages(s), [slabs EXCEPT ![k] = @ \cup {s}], used)
          /\ Covered(Held, vfree \ SlabPages(s), [slabs EXCEPT ![k] = @ \cup {s}])
          /\ s \in [slabs EXCEPT ![k] = @ \cup {s}][k] /\ s \notin used[k]
      BY <1>2, <2>2, <2>3, AddSlab
    <3> QED BY <2>1, <3>1
  <2>5. s \in Objects(s, k)
    BY <1>2, <2>3, AlignedFacts, FirstObject
  <2>6. PICK x : x = [op |-> "alloc", addr |-> s, l2 |-> k, got |-> k, sz |-> sz]
    OBVIOUS
  <2>7. x.addr = s /\ x.got = k /\ x.sz = sz
    BY <2>6
  <2>8. x \notin Held
    BY <1>2, <2>4, <2>7 DEF Layout, SmallPlaced
  <2>9. Layout(Held \cup {x}, vfree', slabs', used') /\ Covered(Held \cup {x}, vfree', slabs')
    <3>1. \E t \in slabs'[x.got] : x.addr \in Objects(t, x.got)
      BY <2>4, <2>5, <2>7
    <3>2. x.got \in Caches /\ x.addr \notin used[x.got] /\ x.sz \in Requests /\ x.sz + HeaderSize <= Size[x.got]
      BY <1>2, <2>4, <2>7
    <3>3. used' = [used EXCEPT ![x.got] = @ \cup {x.addr}]
      BY <2>1, <2>7
    <3>4. /\ Layout(Held \cup {x}, vfree', slabs', [used EXCEPT ![x.got] = @ \cup {x.addr}])
          /\ Covered(Held \cup {x}, vfree', slabs')
      BY <2>4, <3>1, <3>2, AddObject
    <3> QED BY <3>3, <3>4
  <2>10. state' = "up" \/ (state' = "overlaid" /\ SomeOverlaid)
    <3>1. Overlaid(s, s, k) => SomeOverlaid
      BY <1>2, <2>3, <2>5, AlignedFacts, OverlaidFacts DEF SomeOverlaid, k
    <3> QED BY <1>1, <2>1, <3>1
  <2> QED BY <1>1, <1>2, <2>1, <2>3, <2>6, <2>8, <2>9, <2>10, AllocBegins
<1> QED BY <1>3, <1>4 DEF AllocSlab

LEMMA AllocPagesStep ==
    ASSUME IInv, NEW c \in Contexts, NEW sz \in Requests, AllocPages(c, sz)
    PROVE  IInv'
<1> DEFINE l2 == BlockLog2(CacheLog2(sz))
           got == Max({l2, PageLog2})
<1>1. /\ state = "up" /\ call[c] = None /\ CacheLog2(sz) > MaxLog2
      /\ UNCHANGED <<slabs, used, hdr, live>>
  BY DEF AllocPages, Ready
<1>2. l2 \in PageLog2 .. 30 /\ sz + HeaderSize <= Size[l2]
  <2>1. CacheLog2(sz) \in 0 .. 30 /\ sz + HeaderSize <= Size[CacheLog2(sz)] /\ PageLog2 \in 0 .. 30
    BY RequestFits, Logs
  <2>2. Size[CacheLog2(sz)] \in Nat /\ Size[PageLog2] \in Nat /\ sz + HeaderSize \in Nat
    BY <2>1, SizeFacts, KmallocAssumption
  <2>3. CASE Size[CacheLog2(sz)] < Size[PageLog2]
    BY <2>1, <2>2, <2>3 DEF BlockLog2
  <2>4. CASE ~(Size[CacheLog2(sz)] < Size[PageLog2])
    <3>1. CASE CacheLog2(sz) >= PageLog2
      BY <2>1, <2>4, <3>1 DEF BlockLog2
    <3>2. CASE CacheLog2(sz) < PageLog2
      <4>1. CacheLog2(sz) \in 0 .. 29 /\ PageLog2 \in (CacheLog2(sz) + 1) .. 30
        BY <2>1, <3>2
      <4>2. Size[CacheLog2(sz) + 1] <= Size[PageLog2] /\ Size[CacheLog2(sz) + 1] = 2 * Size[CacheLog2(sz)]
        <5>1. CacheLog2(sz) + 1 \in 0 .. 30
          BY <4>1
        <5> QED BY <4>1, <5>1, SizeMonotone, SizeFacts
      <4>3. Size[CacheLog2(sz)] \in Nat \ {0}
        BY <2>1, SizePositive
      <4> QED BY <2>2, <2>4, <4>2, <4>3
    <3> QED BY <2>1, <3>1, <3>2
  <2> QED BY <2>3, <2>4
<1> HIDE DEF l2
<1>3. got = l2
  <2>1. {l2, PageLog2} \subseteq 0 .. 30
    BY <1>2, Logs
  <2>2. got \in {l2, PageLog2} /\ l2 <= got /\ PageLog2 <= got
    BY <2>1, GreatestNatural
  <2> QED BY <1>2, <2>1, <2>2
<1>4. CASE /\ state' = IF got <= MaxBlockLog2 /\ FreeBlocks(got) = {} THEN "wild" ELSE "panic"
           /\ UNCHANGED <<vfree, call>>
  BY <1>1, <1>4, StopStep
<1>5. CASE /\ got <= MaxBlockLog2
           /\ \E a \in FreeBlocks(got) :
                 vfree' = vfree \ PagesOf(a, got) /\ Got(c, a, l2, got, sz)
           /\ UNCHANGED state
  <2>1. PICK a \in FreeBlocks(l2) : vfree' = vfree \ PagesOf(a, l2) /\ Got(c, a, l2, l2, sz)
    BY <1>3, <1>5
  <2>2. l2 \in PageSizes /\ l2 \in BlockSizes
    BY <1>2, <1>3, <1>5, Logs DEF PageSizes, BlockSizes
  <2>3. Layout(Held, vfree, slabs, used) /\ Covered(Held, vfree, slabs) /\ vfree \subseteq Pages
    BY <1>1 DEF IInv, StateInv, Layout
  <2>4. Aligned(a) /\ a \in Addresses /\ PagesOf(a, l2) \subseteq vfree
    BY <2>1, <2>2, <2>3, FreeBlockFacts
  <2>5. PICK x : x = [op |-> "alloc", addr |-> a, l2 |-> l2, got |-> l2, sz |-> sz]
    OBVIOUS
  <2>6. x.addr = a /\ x.got = l2 /\ x.sz = sz
    BY <2>5
  <2>7. x \notin Held
    <3>1. a \in Nat /\ a < a + Size[l2]
      BY <2>2, <2>4, AlignedFacts, Sizes
    <3>2. a \div PageSize \in PagesOf(a, l2)
      BY <2>2, <2>4, <3>1, BytesInPages
    <3>3. l2 \notin Caches
      BY <2>2, Logs
    <3> QED BY <2>3, <2>4, <2>6, <3>2, <3>3 DEF Layout, LargePlaced
  <2>8. Layout(Held \cup {x}, vfree', slabs, used) /\ Covered(Held \cup {x}, vfree', slabs)
    BY <1>2, <2>1, <2>2, <2>3, <2>4, <2>6, AddLarge
  <2> QED BY <1>1, <1>5, <2>1, <2>2, <2>4, <2>5, <2>7, <2>8, AllocBegins
<1> QED BY <1>4, <1>5 DEF AllocPages, l2

(* The end of kmalloc: the block goes from the call to the caller.         *)
LEMMA WriteHeaderStep ==
    ASSUME IInv, NEW c \in Contexts, WriteHeader(c)
    PROVE  IInv'
<1>1. PICK x : x = call[c]
  OBVIOUS
<1>2. PICK b : b = [addr |-> x.addr, ptr |-> x.addr + HeaderSize, got |-> x.got, sz |-> x.sz]
  OBVIOUS
<1>3. /\ state = "up" /\ x.op = "alloc" /\ live' = live \cup {b}
      /\ hdr' = [a \in DOMAIN hdr \cup {x.addr} |-> IF a = x.addr THEN x.l2 ELSE hdr[a]]
      /\ call' = [call EXCEPT ![c] = None] /\ UNCHANGED <<state, vfree, slabs, used>>
  BY <1>1, <1>2 DEF WriteHeader
<1>4. CallInv /\ HeaderInv /\ Layout(Held, vfree, slabs, used) /\ Covered(Held, vfree, slabs)
  BY <1>3 DEF IInv, StateInv
<1>5. c \in Busy /\ x \in Held /\ x \in Calls /\ x.l2 = x.got /\ x \notin live
  <2>1. x # None
    BY <1>3 DEF None
  <2>2. c \in Busy
    BY <1>1, <2>1 DEF Busy
  <2> QED BY <1>1, <1>4, <2>2, CallsNotLive, HeldIs DEF CallInv
<1>6. b \in [addr : Addresses, ptr : Nat, got : BlockSizes, sz : Requests]
  <2>1. x.addr \in Addresses /\ x.got \in BlockSizes /\ x.sz \in Requests
    BY <1>5 DEF Calls
  <2>2. x.addr + HeaderSize \in Nat
    BY <2>1, Sizes DEF Addresses
  <2> QED BY <1>2, <2>1, <2>2
<1>7. b.addr = x.addr /\ b.ptr = b.addr + HeaderSize /\ b.got = x.got /\ b.sz = x.sz
  BY <1>2
<1>8. Held' = (Held \ {x}) \cup {b}
  <2>1. Held' = live' \cup {call'[d] : d \in Busy'}
    BY DEF Held, Busy
  <2>2. {call'[d] : d \in Busy'} = {call[d] : d \in Busy} \ {x}
    BY <1>1, <1>3, <1>4, <1>5, HeldEnds
  <2> QED BY <1>3, <1>5, <2>1, <2>2, HeldIs
<1>9. Layout(Held', vfree, slabs, used) /\ Covered(Held', vfree, slabs)
  BY <1>4, <1>5, <1>7, <1>8, Handover
<1>10. CallInv'
  <2>1. live' \subseteq [addr : Addresses, ptr : Nat, got : BlockSizes, sz : Requests]
    BY <1>3, <1>4, <1>6 DEF CallInv
  <2> QED BY <1>3, <1>4, <2>1, CallEnds
<1>11. HeaderInv'
  <2>1. DOMAIN hdr' = DOMAIN hdr \cup {x.addr}
    BY <1>3
  <2>2. \A a \in DOMAIN hdr' : hdr'[a] = IF a = x.addr THEN x.l2 ELSE hdr[a]
    BY <1>3
  <2>3. x.addr \in Addresses /\ x.l2 \in BlockSizes
    BY <1>5 DEF Calls
  <2>4. \A d \in live : d.addr # x.addr
    BY <1>4, <1>5, DistinctAddresses, HeldIs
  <2>5. \A d \in live' :
            d.ptr = d.addr + HeaderSize /\ d.addr \in DOMAIN hdr' /\ hdr'[d.addr] = d.got
    BY <1>3, <1>4, <1>5, <1>7, <2>1, <2>2, <2>4 DEF HeaderInv
  <2> QED BY <1>4, <2>1, <2>2, <2>3, <2>5 DEF HeaderInv
<1>12. StateInv'
  BY <1>3, <1>9 DEF StateInv
<1> QED BY <1>3, <1>9, <1>10, <1>11, <1>12 DEF IInv

(* kfree: the header is there.                                             *)
LEMMA KfreeStep ==
    ASSUME IInv, NEW c \in Contexts, NEW b \in live, kfree(c, b)
    PROVE  IInv'
<1>1. CallInv /\ HeaderInv /\ Layout(Held, vfree, slabs, used) /\ state = "up" /\ call[c] = None
  BY DEF IInv, kfree
<1>2. b.ptr - HeaderSize = b.addr /\ b.addr \in DOMAIN hdr /\ hdr[b.addr] = b.got
  <2>1. b.ptr = b.addr + HeaderSize /\ b.addr \in Nat
    BY <1>1 DEF HeaderInv, CallInv, Addresses
  <2>2. b.ptr - HeaderSize = b.addr
    BY <2>1, Sizes
  <2> QED BY <1>1, <2>2 DEF HeaderInv
<1>3. PICK x : x = [op |-> "free", addr |-> b.addr, l2 |-> b.got, got |-> b.got, sz |-> b.sz]
  OBVIOUS
<1>4. /\ call' = [call EXCEPT ![c] = x] /\ live' = live \ {b}
      /\ UNCHANGED <<state, vfree, slabs, used, hdr>>
  BY <1>2, <1>3 DEF kfree
<1>5. x \in Calls /\ x.l2 = x.got /\ x.addr = b.addr /\ x.got = b.got /\ x.sz = b.sz
  <2>1. b.addr \in Addresses /\ b.got \in BlockSizes /\ b.sz \in Requests
    BY <1>1 DEF CallInv
  <2> QED BY <1>3, <2>1 DEF Calls
<1>6. b \in Held /\ b \notin Calls /\ x \notin live
  BY <1>1, <1>5, CallsNotLive, HeldIs
<1>7. Held' = (Held \ {b}) \cup {x}
  <2>1. Held' = live' \cup {call'[d] : d \in Busy'}
    BY DEF Held, Busy
  <2>2. {call'[d] : d \in Busy'} = {call[d] : d \in Busy} \cup {x}
    BY <1>1, <1>4, <1>5, HeldBegins
  <2>3. b \notin {call[d] : d \in Busy}
    BY <1>1, <1>6, CallsNotLive
  <2> QED BY <1>4, <2>1, <2>2, <2>3, HeldIs
<1>8. Layout(Held', vfree, slabs, used) /\ (Covered(Held, vfree, slabs) => Covered(Held', vfree, slabs))
  BY <1>1, <1>5, <1>6, <1>7, Handover
<1>9. CallInv'
  <2>1. x \notin {call[d] : d \in Busy}
    <3> SUFFICES ASSUME x \in Held PROVE FALSE
      BY HeldIs
    <3>1. x = b
      BY <1>1, <1>5, <1>6, DistinctAddresses
    <3> QED BY <1>5, <1>6, <3>1
  <2> QED BY <1>1, <1>4, <1>5, <2>1, CallBegins
<1>10. HeaderInv'
  BY <1>1, <1>4 DEF HeaderInv
<1>11. StateInv'
  BY <1>1, <1>4, <1>8 DEF IInv, StateInv
<1> QED BY <1>4, <1>8, <1>9, <1>10, <1>11 DEF IInv

(* The end of kfree: the block leaves the set of those that are held.      *)
LEMMA FreeEnds ==
    ASSUME IInv, state = "up", NEW c \in Busy, Forget(c), live' = live, state' = state,
           Layout(Held \ {call[c]}, vfree', slabs', used'),
           Covered(Held \ {call[c]}, vfree', slabs')
    PROVE  IInv'
<1>1. PICK x : x = call[c]
  OBVIOUS
<1>2. CallInv /\ HeaderInv /\ Layout(Held, vfree, slabs, used)
  BY DEF IInv
<1>3. x \in Held /\ x \notin live /\ c \in Contexts
  BY <1>1, <1>2, CallsNotLive, HeldIs
<1>4. hdr' = [a \in DOMAIN hdr \ {x.addr} |-> hdr[a]] /\ call' = [call EXCEPT ![c] = None]
  BY <1>1 DEF Forget
<1>5. Held' = Held \ {x}
  <2>1. Held' = live' \cup {call'[d] : d \in Busy'}
    BY DEF Held, Busy
  <2>2. {call'[d] : d \in Busy'} = {call[d] : d \in Busy} \ {x}
    BY <1>1, <1>2, <1>4, HeldEnds
  <2> QED BY <1>3, <2>1, <2>2, HeldIs
<1>6. CallInv'
  BY <1>2, <1>3, <1>4, CallEnds DEF CallInv
<1>7. HeaderInv'
  <2>1. \A d \in live : d.addr # x.addr
    BY <1>2, <1>3, DistinctAddresses, HeldIs
  <2>2. DOMAIN hdr' = DOMAIN hdr \ {x.addr} /\ \A a \in DOMAIN hdr' : hdr'[a] = hdr[a]
    BY <1>4
  <2> QED BY <1>2, <2>1, <2>2 DEF HeaderInv
<1>8. StateInv'
  BY <1>1, <1>5 DEF StateInv
<1> QED BY <1>1, <1>5, <1>6, <1>7, <1>8 DEF IInv

LEMMA FreeFacts ==
    ASSUME IInv, state = "up", NEW c \in Contexts, call[c].op = "free"
    PROVE  /\ c \in Busy /\ call[c] \in Held /\ call[c].l2 = call[c].got
           /\ call[c].got \in BlockSizes
           /\ Layout(Held, vfree, slabs, used) /\ Covered(Held, vfree, slabs)
           /\ IsCached(call[c].got) <=> call[c].got \in Caches
<1>1. c \in Busy
  BY DEF Busy, None
<1>2. CallInv /\ Layout(Held, vfree, slabs, used) /\ Covered(Held, vfree, slabs)
  BY DEF IInv, StateInv
<1>3. call[c] \in Held /\ call[c].l2 = call[c].got /\ call[c].got \in BlockSizes
  BY <1>1, <1>2, HeldIs, CallsNotLive DEF CallInv, Layout, BlockTypes
<1>4. IsCached(call[c].got) <=> call[c].got \in Caches
  <2>1. call[c].got \in Nat /\ MinLog2 <= call[c].got
    BY <1>3, Logs
  <2> QED BY <2>1 DEF IsCached, Caches
<1> QED BY <1>1, <1>2, <1>3, <1>4

LEMMA FreeObjectStep ==
    ASSUME IInv, NEW c \in Contexts, FreeObject(c)
    PROVE  IInv'
<1>1. state = "up" /\ call[c].op = "free" /\ IsCached(call[c].l2) /\ Forget(c) /\ live' = live
  BY DEF FreeObject
<1>2. PICK x : x = call[c]
  OBVIOUS
<1>3. /\ c \in Busy /\ x \in Held /\ x.l2 = x.got /\ x.got \in Caches
      /\ Layout(Held, vfree, slabs, used) /\ Covered(Held, vfree, slabs)
  BY <1>1, <1>2, FreeFacts
<1>4. PICK k : k = x.got
  OBVIOUS
<1>5. PICK t \in slabs[k] : x.addr \in Objects(t, k)
  BY <1>3, <1>4 DEF Layout, SmallPlaced
<1> DEFINE u == used[k] \ {x.addr}
           w == [used EXCEPT ![k] = u]
           s == SlabOf(x.addr)
<1>6. Layout(Held \ {x}, vfree, slabs, w) /\ Covered(Held \ {x}, vfree, slabs)
  <2>1. w = [used EXCEPT ![x.got] = @ \ {x.addr}]
    BY <1>4
  <2>2. /\ Layout(Held \ {x}, vfree, slabs, [used EXCEPT ![x.got] = @ \ {x.addr}])
        /\ Covered(Held \ {x}, vfree, slabs)
    BY <1>3, DropObject
  <2> QED BY <2>1, <2>2
<1>7. CASE used' = w /\ UNCHANGED <<state, vfree, slabs>>
  BY <1>1, <1>2, <1>3, <1>6, <1>7, FreeEnds
<1>8. CASE /\ s \in slabs[k] /\ u \cap Objects(s, k) = {}
           /\ used' = w /\ slabs' = [slabs EXCEPT ![k] = @ \ {s}]
           /\ vfree' = vfree \cup SlabPages(s) /\ UNCHANGED state
  <2>1. w[k] = u
    BY <1>3, <1>4 DEF Layout
  <2> HIDE DEF w
  <2>2. /\ Layout(Held \ {x}, vfree \cup SlabPages(s), [slabs EXCEPT ![k] = @ \ {s}], w)
        /\ Covered(Held \ {x}, vfree \cup SlabPages(s), [slabs EXCEPT ![k] = @ \ {s}])
    BY <1>3, <1>4, <1>6, <1>8, <2>1, DropSlab
  <2>3. Layout(Held \ {x}, vfree', slabs', used') /\ Covered(Held \ {x}, vfree', slabs')
    BY <1>8, <2>2
  <2> QED BY <1>1, <1>2, <1>3, <1>8, <2>3, FreeEnds
<1> QED BY <1>2, <1>3, <1>4, <1>5, <1>7, <1>8 DEF FreeObject, SlabPages

LEMMA FreePagesStep ==
    ASSUME IInv, NEW c \in Contexts, FreePages(c)
    PROVE  IInv'
<1>1. /\ state = "up" /\ call[c].op = "free" /\ ~IsCached(call[c].l2) /\ Forget(c)
      /\ UNCHANGED <<state, slabs, used, live>>
  BY DEF FreePages
<1>2. PICK x : x = call[c]
  OBVIOUS
<1>3. /\ c \in Busy /\ x \in Held /\ x.l2 = x.got /\ x.got \notin Caches /\ x.got \in BlockSizes
      /\ Layout(Held, vfree, slabs, used) /\ Covered(Held, vfree, slabs)
  BY <1>1, <1>2, FreeFacts
<1>4. ~(x.got < PageLog2)
  BY <1>3, Logs DEF PageSizes
<1>5. vfree' = vfree \cup PagesOf(x.addr, x.got)
  BY <1>2, <1>3, <1>4 DEF FreePages
<1>6. Layout(Held \ {x}, vfree', slabs, used) /\ Covered(Held \ {x}, vfree', slabs)
  BY <1>3, <1>5, DropLarge
<1> QED BY <1>1, <1>2, <1>3, <1>6, FreeEnds

(* Payloads and headers lie within blocks.                                 *)
LEMMA WithinBlock ==
    ASSUME IInv, NEW b \in live
    PROVE  Payload(b) \subseteq Bytes(b) /\ HeaderBytes(b.addr) \subseteq Bytes(b)
           /\ Apart(HeaderBytes(b.addr), Payload(b))
<1>1. b.ptr = b.addr + HeaderSize /\ b.addr \in Nat /\ b.sz \in Nat /\ b.got \in BlockSizes
  BY KmallocAssumption DEF IInv, HeaderInv, CallInv, Addresses
<1>2. b.sz + HeaderSize <= Size[b.got] /\ Size[b.got] \in Nat /\ HeaderSize \in Nat \ {0}
  BY <1>1, HeldIs, Sizes DEF IInv, Layout, BlockTypes
<1> QED BY <1>1, <1>2 DEF Payload, HeaderBytes, Bytes, Apart

(* A write to a block hits no header of a block that is held by a caller.  *)
LEMMA HeaderMissed ==
    ASSUME IInv, NEW b \in live, NEW d \in live
    PROVE  HeaderBytes(d.addr) \cap Payload(b) = {}
<1>1. CASE d = b
  BY <1>1, WithinBlock DEF Apart
<1>2. CASE d # b
  <2>1. Apart(Bytes(d), Bytes(b))
    BY <1>2, BytesApart, HeldIs DEF IInv
  <2> QED BY <2>1, WithinBlock DEF Apart
<1> QED BY <1>1, <1>2

LEMMA WriteStep ==
    ASSUME IInv, NEW b \in live, Write(b)
    PROVE  IInv'
<1>1. /\ hdr' = [a \in {h \in DOMAIN hdr : HeaderBytes(h) \cap Payload(b) = {}} |-> hdr[a]]
      /\ UNCHANGED <<state, vfree, slabs, used, live, call>>
  BY DEF Write
<1>2. Held' = Held /\ Busy' = Busy
  BY <1>1, HeldSame
<1>3. \A d \in live : HeaderBytes(d.addr) \cap Payload(b) = {}
  BY HeaderMissed
<1>4. /\ DOMAIN hdr' \subseteq DOMAIN hdr /\ \A a \in DOMAIN hdr' : hdr'[a] = hdr[a]
      /\ \A d \in live : d.addr \in DOMAIN hdr => d.addr \in DOMAIN hdr'
  BY <1>1, <1>3
<1>5. HeaderInv'
  BY <1>1, <1>4 DEF IInv, HeaderInv
<1> QED BY <1>1, <1>2, <1>5 DEF IInv, StateInv, CallInv

LEMMA NextIInv ==
    ASSUME IInv, [Next]_vars
    PROVE  IInv'
<1>1. CASE kmalloc_init
  BY <1>1, InitStep
<1>2. CASE \E c \in Contexts, sz \in Requests :
              AllocObject(c, sz) \/ AllocSlab(c, sz) \/ AllocPages(c, sz)
  BY <1>2, AllocObjectStep, AllocSlabStep, AllocPagesStep
<1>3. CASE \E c \in Contexts : WriteHeader(c)
  BY <1>3, WriteHeaderStep
<1>4. CASE \E c \in Contexts : \E b \in live : kfree(c, b)
  BY <1>4, KfreeStep
<1>5. CASE \E c \in Contexts : FreeObject(c) \/ FreePages(c)
  BY <1>5, FreeObjectStep, FreePagesStep
<1>6. CASE \E b \in live : Write(b)
  BY <1>6, WriteStep
<1>7. CASE Stopped \/ UNCHANGED vars
  <2>1. UNCHANGED vars
    BY <1>7 DEF Stopped
  <2>2. Held' = Held /\ Busy' = Busy
    BY <2>1, HeldSame DEF vars
  <2> QED BY <2>1, <2>2 DEF vars, IInv, StateInv, CallInv, HeaderInv
<1> QED BY <1>1, <1>2, <1>3, <1>4, <1>5, <1>6, <1>7 DEF Next

LEMMA Invariance == Spec => []IInv
<1>1. IInv /\ [Next]_vars => IInv'
  BY NextIInv
<1> QED BY InitIInv, <1>1, PTL DEF Spec

-----------------------------------------------------------------------------
(* What the invariant implies                                              *)

LEMMA IInvPayloadsApart == IInv => PayloadsApart
<1> SUFFICES ASSUME IInv, NEW b \in live
             PROVE  /\ \A d \in live :
                          /\ b # d => Payload(b) \cap Payload(d) = {}
                          /\ Payload(b) \cap HeaderBytes(d.addr) = {}
                    /\ {x \div Size[PageLog2] : x \in Payload(b)} \subseteq Pages \ vfree
  BY DEF PayloadsApart
<1>1. Layout(Held, vfree, slabs, used) /\ b \in Held
  BY HeldIs DEF IInv
<1>2. Payload(b) \subseteq Bytes(b)
  BY WithinBlock
<1>3. ASSUME NEW d \in live, b # d PROVE Payload(b) \cap Payload(d) = {}
  <2>1. Apart(Bytes(b), Bytes(d))
    BY <1>1, <1>3, BytesApart, HeldIs
  <2> QED BY <1>2, <2>1, WithinBlock DEF Apart
<1>4. ASSUME NEW x \in Payload(b) PROVE x \div PageSize \in Pages \ vfree
  <2>1. x \in Bytes(b)
    BY <1>2
  <2>2. CASE b.got \in Caches
    <3>1. PICK t \in slabs[b.got] : x \div PageSize \in SlabPages(t)
      BY <1>1, <2>1, <2>2, BlockPages
    <3> QED BY <1>1, <2>2, <3>1 DEF Layout, SlabsPlaced
  <2>3. CASE b.got \notin Caches
    <3>1. x \div PageSize \in PagesOf(b.addr, b.got)
      BY <1>1, <2>1, <2>3, BlockPages
    <3> QED BY <1>1, <2>3, <3>1 DEF Layout, LargePlaced
  <2> QED BY <2>2, <2>3
<1>5. ASSUME NEW d \in live PROVE Payload(b) \cap HeaderBytes(d.addr) = {}
  BY HeaderMissed
<1>6. {x \div Size[PageLog2] : x \in Payload(b)} \subseteq Pages \ vfree
  BY <1>4 DEF PageSize
<1> QED BY <1>3, <1>5, <1>6

LEMMA IInvTypeOK == IInv => TypeOK
<1> SUFFICES ASSUME IInv PROVE TypeOK
  OBVIOUS
<1>1. Layout(Held, vfree, slabs, used) /\ CallInv /\ HeaderInv /\ StateInv
  BY DEF IInv
<1>2. ASSUME NEW k \in Caches
      PROVE  /\ slabs[k] \subseteq {a \in Addresses : a % Size[SlabLog2] = 0}
             /\ used[k] \subseteq UNION {Objects(s, k) : s \in slabs[k]}
  <2>1. slabs[k] \subseteq {a \in Addresses : a % Size[SlabLog2] = 0}
    BY <1>1 DEF Layout, SlabsPlaced
  <2>2. ASSUME NEW a \in used[k] PROVE \E s \in slabs[k] : a \in Objects(s, k)
    BY <1>1 DEF Layout, SmallPlaced
  <2> QED BY <2>1, <2>2
<1>3. \A a \in DOMAIN hdr : hdr[a] \in Caches \cup PageLog2 .. MaxBlockLog2
  BY <1>1 DEF HeaderInv, BlockSizes, PageSizes
<1>4. \A b \in live : b.addr \in Addresses /\ b.sz \in Requests
  BY <1>1 DEF CallInv
<1>5. \A c \in Contexts : call[c] = None \/ call[c].addr \in Addresses
  BY <1>1 DEF CallInv, Calls
<1>6. DOMAIN slabs = Caches /\ DOMAIN used = Caches /\ vfree \subseteq Pages
  BY <1>1 DEF Layout
<1> QED BY <1>1, <1>2, <1>3, <1>4, <1>5, <1>6 DEF TypeOK, StateInv, HeaderInv

LEMMA IInvBlocksReturned == IInv => BlocksReturned
<1> SUFFICES ASSUME IInv, state = "up" PROVE BlocksReturned
  BY IInvTypeOK DEF BlocksReturned
<1> DEFINE large == {b \in Held : b.got \notin Caches}
           slab == {PagesOf(s, SlabLog2) : s \in UNION {slabs[k] : k \in Caches}}
           parts == {PagesOf(b.addr, b.got) : b \in large} \cup slab
<1>1. Layout(Held, vfree, slabs, used) /\ Covered(Held, vfree, slabs)
  BY DEF IInv, StateInv
<1>2. ASSUME NEW p \in parts
      PROVE  \/ \E b \in Held : b.got \notin Caches /\ p = PagesOf(b.addr, b.got)
             \/ \E k \in Caches : \E s \in slabs[k] : p = SlabPages(s)
  BY DEF SlabPages
<1>3. /\ \A b \in Held : b.got \notin Caches => PagesOf(b.addr, b.got) \in parts
      /\ \A k \in Caches : \A s \in slabs[k] : SlabPages(s) \in parts
  BY DEF SlabPages
<1> HIDE DEF parts
<1>4. ASSUME NEW p \in parts PROVE p \subseteq Pages /\ p \cap vfree = {}
  BY <1>1, <1>2 DEF Layout, LargePlaced, SlabsPlaced
<1>5. vfree \cup UNION parts = Pages
  <2>1. vfree \subseteq Pages
    BY <1>1 DEF Layout
  <2>2. ASSUME NEW p \in Pages PROVE p \in vfree \/ \E q \in parts : p \in q
    BY <1>1, <1>3 DEF Covered
  <2> QED BY <1>4, <2>1, <2>2
<1>6. ASSUME NEW p \in parts, NEW q \in parts, p # q PROVE p \cap q = {}
  <2>1. CASE \E b \in Held : b.got \notin Caches /\ p = PagesOf(b.addr, b.got)
    BY <1>1, <1>2, <1>6, <2>1 DEF Layout, LargePlaced, Apart
  <2>2. CASE \E k \in Caches : \E s \in slabs[k] : p = SlabPages(s)
    BY <1>1, <1>2, <1>6, <2>2 DEF Layout, LargePlaced, SlabsPlaced, Apart
  <2> QED BY <1>2, <2>1, <2>2
<1>7. ASSUME NEW k \in Caches PROVE used[k] = {b.addr : b \in {x \in Held : x.got = k}}
  BY <1>1 DEF Layout, SmallPlaced
<1> QED BY <1>4, <1>5, <1>6, <1>7, IInvTypeOK DEF BlocksReturned, parts

-----------------------------------------------------------------------------
(* Theorems                                                                *)

(* kfree finds the header of every block intact, whatever other contexts   *)
(* allocate, free and write in between: "Heap corruption!" is not reported *)
(* as long as callers write only to what they asked for, up to the point   *)
(* where an object is given out that holds bytes of the bitmap; and a      *)
(* cache with room for its bitmap never gives out such an object.          *)
THEOREM NoCorruptionAlways == Spec => []NoCorruption
<1>1. IInv => NoCorruption
  BY DEF IInv, StateInv, NoCorruption, SomeOverlaid
<1> QED BY Invariance, <1>1, PTL

(* If all requests go to caches with room for the bitmap, or to the        *)
(* vmspace, that point is never reached.                                   *)
THEOREM NeverOverlaid ==
    (\A sz \in Requests : CacheLog2(sz) \in Caches => RoomFor(CacheLog2(sz)))
        => (Spec => [](state \notin {"corrupt", "overlaid"}))
<1> SUFFICES ASSUME \A sz \in Requests : CacheLog2(sz) \in Caches => RoomFor(CacheLog2(sz))
             PROVE  Spec => [](state \notin {"corrupt", "overlaid"})
  OBVIOUS
<1>1. NoCorruption => state \notin {"corrupt", "overlaid"}
  BY DEF NoCorruption
<1> QED BY <1>1, NoCorruptionAlways, PTL

(* The blocks that callers hold do not overlap each other or the header of *)
(* another, and lie in pages that are not free.                            *)
THEOREM PayloadsApartAlways == Spec => []PayloadsApart
BY Invariance, IInvPayloadsApart, PTL

(* kfree returns each block, in whole, to the cache or to the vmspace that *)
(* kmalloc took it from: no page and no object is lost.                    *)
THEOREM BlocksReturnedAlways == Spec => []BlocksReturned
BY Invariance, IInvBlocksReturned, PTL
=============================================================================
