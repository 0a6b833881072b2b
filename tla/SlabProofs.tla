----------------------------- MODULE SlabProofs ----------------------------
(***************************************************************************)
(* Proofs about the slab caches (Slab), for any number of slabs and any    *)
(* sizes, as long as no object lies over the bitmap of its slab.           *)
(***************************************************************************)
EXTENDS Slab, TLAPS, WellFoundedInduction

(* No object of a slab reaches into the bitmap.  The sizes decide: it is   *)
(* so if what the objects leave of a slab is room enough for the bitmap.   *)
NoOverlay == \A i \in 0 .. (bitmap_num - 1) : Overlaid(i) = {}

-----------------------------------------------------------------------------
(* The inductive invariant                                                 *)

(* c->empty is an object of a slab in the list, and its bit is clear.      *)
EmptyInv ==
    mode = "live" /\ empty # NULL =>
        empty[1] \in vms /\ empty[2] \notin used[empty[1]]

IInv ==
    /\ BitmapsExact
    /\ SlabsLinked
    /\ EmptyInv

-----------------------------------------------------------------------------
(* Geometry and the search for an empty object                             *)

(* A set of natural numbers that is not empty has a least element.         *)
LEMMA LeastNatural ==
    ASSUME NEW T, T \subseteq Nat, T # {}
    PROVE  \E x \in T : \A y \in T : x <= y
<1>1. IsWellFoundedOn(OpToRel(<, Nat), Nat)
  BY NatLessThanWellFounded
<1>2. PICK x \in T : \A y \in T : ~(<<y, x>> \in OpToRel(<, Nat))
  BY <1>1, WFMin
<1>3. \A y \in T : ~(y < x)
  BY <1>2 DEF OpToRel
<1> QED BY <1>3

(* A slab has at least one object, and the bitmap an entry for each.       *)
LEMMA Geometry ==
    /\ bitmap_num \in Nat \ {0}
    /\ Bits = 0 .. (8 * bitmap_sz - 1)
    /\ 0 .. (bitmap_num - 1) \subseteq Bits
    /\ bitmap_sz \in Nat
    /\ Bits \subseteq Nat
<1>1. (SlabSize - FooterSize) \div ObjSize \in Nat \ {0}
  <2> DEFINE a == SlabSize - FooterSize
             q == a \div ObjSize
  <2>1. a \in Nat /\ ObjSize \in Nat \ {0} /\ ObjSize <= a
    BY SlabAssumption
  <2>2. q \in Int /\ ObjSize * q <= a /\ a < ObjSize * (q + 1)
    BY <2>1
  <2>3. q >= 1
    BY <2>1, <2>2
  <2> QED BY <2>2, <2>3
<1>2. bitmap_num \in Nat \ {0}
  BY <1>1 DEF bitmap_num
<1>3. bitmap_num < 8 * (bitmap_num \div 8 + 1)
  BY <1>2
<1> QED BY <1>2, <1>3 DEF bitmap_sz, Bits

(* The condition on the sizes that NoOverlay comes down to: the objects    *)
(* end at or below the first byte of the bitmap.                           *)
LEMMA RoomForBitmap ==
    ASSUME bitmap_num * ObjSize <= BitmapBase
    PROVE  NoOverlay
<1> SUFFICES ASSUME NEW i \in 0 .. (bitmap_num - 1), NEW b \in Bits,
                    BitmapBase + b \div 8 \in Bytes(i)
             PROVE  FALSE
  BY DEF NoOverlay, Overlaid, Bits
<1>1. bitmap_num \in Nat /\ ObjSize \in Nat /\ i \in Nat /\ i + 1 <= bitmap_num /\ b \in Nat
  BY Geometry, SlabAssumption
<1>2. BitmapBase \in Int
  BY SlabAssumption, Geometry DEF BitmapBase
<1>3. b \div 8 \in Nat
  BY <1>1
<1>4. (i + 1) * ObjSize <= bitmap_num * ObjSize
  BY <1>1
<1>5. (i + 1) * ObjSize \in Int /\ bitmap_num * ObjSize \in Int
  BY <1>1
<1>6. BitmapBase + b \div 8 <= (i + 1) * ObjSize - 1
  BY <1>2, <1>3, <1>5 DEF Bytes
<1> HIDE DEF bitmap_num, BitmapBase
<1> QED BY <1>2, <1>3, <1>4, <1>5, <1>6

(* find_empty_obj finds an object of its slab whose bit is clear.          *)
LEMMA EmptyObj ==
    ASSUME NEW s \in Slabs, NEW u \in SUBSET Bits, find_empty_obj(s, u) # NULL
    PROVE  /\ find_empty_obj(s, u) \in Objects
           /\ find_empty_obj(s, u)[1] = s
           /\ find_empty_obj(s, u)[2] \notin u
<1> DEFINE P(b) == \A d \in Bits \ u : b <= d
           c == CHOOSE b \in Bits \ u : P(b)
<1>1. PICK b \in Bits \ u : b < bitmap_num
  BY DEF find_empty_obj
<1>2. find_empty_obj(s, u) = <<s, c>>
  BY <1>1 DEF find_empty_obj
<1>3. \E d \in Bits \ u : P(d)
  <2>1. Bits \ u \subseteq Nat /\ Bits \ u # {}
    BY <1>1, Geometry
  <2> QED BY <2>1, LeastNatural
<1>4. c \in Bits \ u /\ P(c)
  BY <1>3
<1>5. c <= b
  BY <1>1, <1>4
<1>6. c \in 0 .. (bitmap_num - 1)
  BY <1>1, <1>4, <1>5, Geometry
<1> HIDE DEF c
<1> QED BY <1>2, <1>4, <1>6 DEF Objects

(* So does the search along a list of slabs.                               *)
LEMMA EmptyInList ==
    ASSUME NEW l \in Seq(Slabs), NEW u \in [Slabs -> SUBSET Bits], FirstEmpty(l, u) # NULL
    PROVE  /\ FirstEmpty(l, u) \in Objects
           /\ FirstEmpty(l, u)[1] \in {l[n] : n \in DOMAIN l}
           /\ FirstEmpty(l, u)[2] \notin u[FirstEmpty(l, u)[1]]
<1> DEFINE Good(n) == find_empty_obj(l[n], u[l[n]]) # NULL
           First(n) == Good(n) /\ \A k \in 1 .. (n - 1) : ~Good(k)
           m == CHOOSE n \in DOMAIN l : First(n)
<1>1. PICK n \in DOMAIN l : Good(n)
  BY DEF FirstEmpty
<1>2. FirstEmpty(l, u) = find_empty_obj(l[m], u[l[m]])
  BY <1>1 DEF FirstEmpty
<1>3. \E n1 \in DOMAIN l : First(n1)
  <2> DEFINE G == {k \in DOMAIN l : Good(k)}
  <2>1. G \subseteq Nat /\ G # {}
    BY <1>1
  <2>2. PICK k \in G : \A j \in G : k <= j
    BY <2>1, LeastNatural
  <2>3. k \in DOMAIN l /\ \A j \in 1 .. (k - 1) : j \in DOMAIN l /\ ~(k <= j)
    BY <2>2
  <2> QED BY <2>2, <2>3
<1>4. m \in DOMAIN l /\ Good(m)
  BY <1>3
<1> HIDE DEF m
<1>5. l[m] \in Slabs /\ u[l[m]] \in SUBSET Bits
  BY <1>4
<1> QED BY <1>2, <1>4, <1>5, EmptyObj

(* What follows a slab in the list is part of the list.                    *)
LEMMA FromList ==
    ASSUME NEW l \in Seq(Slabs), NEW s \in {l[n] : n \in DOMAIN l}
    PROVE  /\ From(l, s) \in Seq(Slabs)
           /\ \A n \in DOMAIN From(l, s) : From(l, s)[n] \in {l[k] : k \in DOMAIN l}
<1> DEFINE k == CHOOSE n \in DOMAIN l : l[n] = s
<1>1. k \in DOMAIN l
  OBVIOUS
<1>2. From(l, s) = SubSeq(l, k, Len(l))
  BY DEF From
<1> HIDE DEF k
<1> QED BY <1>1, <1>2

-----------------------------------------------------------------------------
(* IInv is inductive                                                       *)

LEMMA InitIInv == Init => IInv
<1> SUFFICES ASSUME Init PROVE IInv
  OBVIOUS
<1>1. TypeOK
  BY DEF Init, TypeOK, NULL
<1>2. BitmapsExact
  BY <1>1 DEF Init, BitmapsExact
<1> QED BY <1>2 DEF Init, IInv, SlabsLinked, EmptyInv

(* slab_cache_alloc from an empty object at hand.                          *)
LEMMA AllocEmptyIInv ==
    ASSUME IInv, AllocEmpty
    PROVE  IInv' /\ ret' \notin held
<1> DEFINE s == empty[1]
           u == [used EXCEPT ![s] = @ \cup {empty[2]}]
<1>1. TypeOK /\ SlabsLinked /\ EmptyInv /\ mode = "live" /\ empty # NULL
  BY DEF IInv, BitmapsExact, AllocEmpty
<1>2. empty \in Objects /\ s \in Slabs /\ empty[2] \in 0 .. (bitmap_num - 1) /\ empty = <<s, empty[2]>>
  BY <1>1 DEF TypeOK, Objects
<1>3. s \in vms /\ empty[2] \notin used[s]
  BY <1>1 DEF EmptyInv
<1>4. u \in [Slabs -> SUBSET Bits]
  BY <1>1, <1>2, Geometry DEF TypeOK
<1>5. /\ used' = u /\ empty' = FirstEmpty(From(list, s), u) /\ ret' = empty
      /\ held' = held \cup {empty} /\ list' = list /\ vms' = vms /\ mode' = mode
  BY DEF AllocEmpty
<1>6. s \in {list[n] : n \in DOMAIN list}
  BY <1>1, <1>3 DEF SlabsLinked
<1>7. From(list, s) \in Seq(Slabs)
  BY <1>1, <1>6, FromList DEF TypeOK
<1>8. empty' = NULL \/
        (empty' \in Objects /\ empty'[1] \in vms /\ empty'[2] \notin u[empty'[1]])
  <2>1. SUFFICES ASSUME empty' # NULL
        PROVE empty' \in Objects /\ empty'[1] \in vms /\ empty'[2] \notin u[empty'[1]]
    OBVIOUS
  <2>2. /\ empty' \in Objects /\ empty'[2] \notin u[empty'[1]]
        /\ empty'[1] \in {From(list, s)[n] : n \in DOMAIN From(list, s)}
    BY <1>4, <1>5, <1>7, <2>1, EmptyInList
  <2>3. empty'[1] \in {list[n] : n \in DOMAIN list}
    BY <1>1, <1>6, <2>2, FromList DEF TypeOK
  <2> QED BY <1>1, <2>2, <2>3 DEF SlabsLinked
<1>9. TypeOK'
  BY <1>1, <1>2, <1>4, <1>5, <1>8 DEF TypeOK
<1>10. held = {o \in Objects : o[1] \in vms /\ o[2] \in used[o[1]]}
  BY DEF IInv, BitmapsExact
<1>11. held' = {o \in Objects : o[1] \in vms /\ o[2] \in u[o[1]]}
  <2>1. \A o \in Objects : o[1] \in Slabs /\ (o = empty <=> o[1] = s /\ o[2] = empty[2])
    BY <1>2 DEF Objects
  <2>2. \A o \in Objects : o[2] \in u[o[1]] <=> (o[2] \in used[o[1]] \/ o = empty)
    BY <1>1, <2>1 DEF TypeOK
  <2> QED BY <1>2, <1>3, <1>5, <1>10, <2>2
<1>12. BitmapsExact'
  BY <1>5, <1>9, <1>11 DEF BitmapsExact
<1>13. SlabsLinked'
  BY <1>1, <1>5 DEF SlabsLinked
<1>14. EmptyInv'
  BY <1>5, <1>8 DEF EmptyInv
<1>15. ret' \notin held
  BY <1>3, <1>5, <1>10
<1> QED BY <1>12, <1>13, <1>14, <1>15, <1>1, <1>5 DEF IInv

(* slab_cache_alloc with a new slab.                                       *)
LEMMA AllocCreateIInv ==
    ASSUME IInv, NEW s \in Slabs, AllocCreate(s)
    PROVE  IInv' /\ ret' \notin held
<1>1. TypeOK /\ SlabsLinked /\ mode = "live" /\ s \notin vms
  BY DEF IInv, BitmapsExact, AllocCreate
<1>2. /\ vms' = vms \cup {s} /\ list' = <<s>> \o list /\ used' = [used EXCEPT ![s] = {0}]
      /\ empty' = find_empty_obj(s, {0}) /\ ret' = <<s, 0>> /\ held' = held \cup {<<s, 0>>}
      /\ mode' = mode
  BY DEF AllocCreate
<1>3. held = {o \in Objects : o[1] \in vms /\ o[2] \in used[o[1]]}
  BY DEF IInv, BitmapsExact
<1>4. 0 \in 0 .. (bitmap_num - 1) /\ {0} \in SUBSET Bits /\ <<s, 0>> \in Objects
  BY Geometry DEF Objects
<1>5. empty' = NULL \/ (empty' \in Objects /\ empty'[1] = s /\ empty'[2] \notin {0})
  BY <1>2, <1>4, EmptyObj
<1>6. list' \in Seq(Slabs)
  BY <1>1, <1>2 DEF TypeOK
<1>7. used' \in [Slabs -> SUBSET Bits] /\ used'[s] = {0}
  BY <1>1, <1>2, <1>4 DEF TypeOK
<1>8. TypeOK'
  BY <1>1, <1>2, <1>4, <1>5, <1>6, <1>7 DEF TypeOK
<1>9. held' = {o \in Objects : o[1] \in vms' /\ o[2] \in used'[o[1]]}
  <2>1. \A o \in Objects : o[1] \in Slabs /\ (o = <<s, 0>> <=> o[1] = s /\ o[2] = 0)
    BY DEF Objects
  <2>2. \A o \in Objects : o[1] # s => used'[o[1]] = used[o[1]]
    BY <1>1, <1>2, <2>1 DEF TypeOK
  <2> QED BY <1>1, <1>2, <1>3, <1>4, <1>7, <2>1, <2>2
<1>10. BitmapsExact'
  BY <1>8, <1>9 DEF BitmapsExact
<1>11. SlabsLinked'
  <2> DEFINE l == <<s>> \o list
  <2>1. list \in Seq(Slabs) /\ Len(list) \in Nat /\ DOMAIN list = 1 .. Len(list)
    BY <1>1 DEF TypeOK
  <2>2. /\ DOMAIN l = 1 .. (Len(list) + 1)
        /\ \A n \in DOMAIN l : l[n] = IF n = 1 THEN s ELSE list[n - 1]
    BY <2>1
  <2> HIDE DEF l
  <2>3. {l[n] : n \in DOMAIN l} = {list[n] : n \in DOMAIN list} \cup {s}
    <3>1. \A n \in DOMAIN l : l[n] = s \/ (n - 1 \in DOMAIN list /\ l[n] = list[n - 1])
      BY <2>1, <2>2
    <3>2. \A n \in DOMAIN list : n + 1 \in DOMAIN l /\ l[n + 1] = list[n]
      BY <2>1, <2>2
    <3>3. 1 \in DOMAIN l /\ l[1] = s
      BY <2>1, <2>2
    <3> QED BY <3>1, <3>2, <3>3
  <2>4. \A m, n \in DOMAIN l : l[m] = l[n] => m = n
    <3> SUFFICES ASSUME NEW m \in DOMAIN l, NEW n \in DOMAIN l, l[m] = l[n]
                 PROVE  m = n
      OBVIOUS
    <3>1. m \in Nat /\ n \in Nat /\ (m # 1 => m - 1 \in DOMAIN list) /\ (n # 1 => n - 1 \in DOMAIN list)
      BY <2>1, <2>2
    <3>2. \A k \in DOMAIN list : list[k] # s
      BY <1>1 DEF SlabsLinked
    <3>3. CASE m # 1 /\ n # 1
      <4>1. list[m - 1] = list[n - 1]
        BY <2>2, <3>3
      <4>2. m - 1 = n - 1
        BY <1>1, <3>1, <3>3, <4>1 DEF SlabsLinked
      <4> QED BY <3>1, <4>2
    <3> QED BY <2>2, <3>1, <3>2, <3>3
  <2>5. list' = l
    BY <1>2 DEF l
  <2> QED BY <1>1, <1>2, <2>3, <2>4, <2>5 DEF SlabsLinked
<1>12. EmptyInv'
  BY <1>2, <1>5, <1>7 DEF EmptyInv
<1>13. ret' \notin held
  BY <1>1, <1>2, <1>3
<1> QED BY <1>10, <1>11, <1>12, <1>13, <1>1, <1>2 DEF IInv

(* slab_cache_free.                                                        *)
LEMMA FreeIInv ==
    ASSUME IInv, NEW o \in Objects, slab_cache_free(o)
    PROVE  IInv'
<1> DEFINE s == o[1]
           u == used[s] \ {o[2]}
           e == IF empty = NULL \/ Above(empty, o) THEN o ELSE empty
           last == list[Len(list)] = s /\ u = {}
<1>1. /\ TypeOK /\ SlabsLinked /\ EmptyInv /\ mode = "live" /\ o \in held /\ list # <<>>
      /\ list' = IF last THEN SubSeq(list, 1, Len(list) - 1) ELSE list
      /\ vms' = IF last THEN vms \ {s} ELSE vms
      /\ used' = [used EXCEPT ![s] = u]
      /\ empty' = IF last /\ e[1] = s THEN NULL ELSE e
      /\ held' = held \ {o} /\ ret' = NULL /\ mode' = mode
  BY DEF IInv, BitmapsExact, slab_cache_free
<1>2. held = {p \in Objects : p[1] \in vms /\ p[2] \in used[p[1]]}
  BY DEF IInv, BitmapsExact
<1>3. s \in Slabs /\ s \in vms /\ o[2] \in used[s] /\ u \in SUBSET Bits
  BY <1>1, <1>2 DEF Objects, TypeOK
<1>4. e \in Objects /\ e[1] \in vms /\ (e = o \/ (e = empty /\ e[2] \notin used[e[1]]))
  BY <1>1, <1>3 DEF TypeOK, EmptyInv
<1>5. \A p \in Objects : p[1] \in Slabs /\ (p = o <=> p[1] = s /\ p[2] = o[2])
  BY DEF Objects
<1>6. used' \in [Slabs -> SUBSET Bits]
  BY <1>1, <1>3 DEF TypeOK
<1>7. \A p \in Objects : p[2] \in used'[p[1]] <=> p[2] \in used[p[1]] /\ p # o
  BY <1>1, <1>5 DEF TypeOK
<1>8. list \in Seq(Slabs) /\ Len(list) \in Nat \ {0} /\ DOMAIN list = 1 .. Len(list)
  BY <1>1 DEF TypeOK
<1> DEFINE l == SubSeq(list, 1, Len(list) - 1)
<1>9. /\ l \in Seq(Slabs) /\ DOMAIN l = 1 .. (Len(list) - 1)
      /\ \A n \in DOMAIN l : n \in DOMAIN list /\ l[n] = list[n]
  BY <1>8
<1>10. TypeOK'
  <2>1. list' \in Seq(Slabs) /\ vms' \subseteq Slabs
    BY <1>1, <1>9 DEF TypeOK
  <2>2. empty' \in Objects \cup {NULL}
    BY <1>1, <1>4
  <2> QED BY <1>1, <1>6, <2>1, <2>2 DEF TypeOK
<1>11. \A p \in Objects : p[1] = s /\ p[2] \in used'[p[1]] => ~last
  <2>1. used'[s] = u
    BY <1>1, <1>3 DEF TypeOK
  <2> QED BY <2>1
<1>12. held' = {p \in Objects : p[1] \in vms' /\ p[2] \in used'[p[1]]}
  BY <1>1, <1>2, <1>7, <1>11
<1>13. BitmapsExact'
  BY <1>10, <1>12 DEF BitmapsExact
<1>14. SlabsLinked'
  <2>1. CASE ~last
    BY <1>1, <2>1 DEF SlabsLinked
  <2>2. CASE last
    <3>1. list' = l /\ vms' = vms \ {s} /\ s = list[Len(list)] /\ Len(list) \in DOMAIN list
      BY <1>1, <1>8, <2>2
    <3> HIDE DEF l, s, last
    <3>2. \A n \in DOMAIN list : n \in DOMAIN l \/ n = Len(list)
      BY <1>8, <1>9
    <3>3. \A n \in DOMAIN l : list[n] # s
      <4> SUFFICES ASSUME NEW n \in DOMAIN l, list[n] = s PROVE FALSE
        OBVIOUS
      <4>1. n = Len(list)
        BY <1>1, <1>9, <3>1 DEF SlabsLinked
      <4> QED BY <1>8, <1>9, <4>1
    <3>4. {l[n] : n \in DOMAIN l} = vms \ {s}
      BY <1>1, <1>9, <3>1, <3>2, <3>3 DEF SlabsLinked
    <3>5. \A m, n \in DOMAIN l : l[m] = l[n] => m = n
      BY <1>1, <1>9 DEF SlabsLinked
    <3> QED BY <3>1, <3>4, <3>5 DEF SlabsLinked
  <2> QED BY <2>1, <2>2
<1>15. EmptyInv'
  <2> SUFFICES ASSUME empty' # NULL
               PROVE  empty'[1] \in vms' /\ empty'[2] \notin used'[empty'[1]]
    BY DEF EmptyInv
  <2>1. empty' = e /\ ~(last /\ e[1] = s)
    BY <1>1
  <2>2. e[1] \in vms'
    BY <1>1, <1>4, <2>1
  <2>3. e[2] \notin used'[e[1]]
    BY <1>4, <1>7
  <2> QED BY <2>1, <2>2, <2>3
<1> QED BY <1>1, <1>13, <1>14, <1>15 DEF IInv

(* Writing to an object does not reach the bitmaps.                        *)
LEMMA WriteIInv ==
    ASSUME NoOverlay, IInv, NEW o \in Objects, Write(o)
    PROVE  IInv'
<1>1. TypeOK
  BY DEF IInv, BitmapsExact
<1>2. o[1] \in Slabs /\ o[2] \in 0 .. (bitmap_num - 1)
  BY DEF Objects
<1>3. Overlaid(o[2]) = {}
  BY <1>2 DEF NoOverlay
<1>4. used' = [used EXCEPT ![o[1]] = used[o[1]]]
  BY <1>3 DEF Write
<1>5. used' = used
  BY <1>1, <1>4 DEF TypeOK
<1> QED BY <1>5 DEF Write, IInv, BitmapsExact, TypeOK, SlabsLinked, EmptyInv

LEMMA NextIInv ==
    ASSUME NoOverlay, IInv, [Next]_vars
    PROVE  IInv'
<1>1. CASE AllocEmpty
  BY <1>1, AllocEmptyIInv
<1>2. CASE \E s \in Slabs : AllocCreate(s)
  BY <1>2, AllocCreateIInv
<1>3. CASE AllocExhausted
  BY <1>3 DEF AllocExhausted, IInv, BitmapsExact, TypeOK, SlabsLinked, EmptyInv
<1>4. CASE \E o \in Objects : slab_cache_free(o)
  BY <1>4, FreeIInv
<1>5. CASE \E o \in Objects : Write(o)
  BY <1>5, WriteIInv
<1>6. CASE Wild \/ UNCHANGED vars
  BY <1>6 DEF Wild, vars, IInv, BitmapsExact, TypeOK, SlabsLinked, EmptyInv
<1> QED BY <1>1, <1>2, <1>3, <1>4, <1>5, <1>6 DEF Next

LEMMA Invariance == NoOverlay => (Spec => []IInv)
<1> SUFFICES ASSUME NoOverlay PROVE Spec => []IInv
  OBVIOUS
<1>1. IInv /\ [Next]_vars => IInv'
  BY NextIInv
<1> QED BY InitIInv, <1>1, PTL DEF Spec

-----------------------------------------------------------------------------
(* Theorems                                                                *)

(* The bitmaps of the slabs in the list say exactly which objects are with *)
(* callers, after any sequence of slab_cache_alloc, slab_cache_free and    *)
(* writes by the owners.                                                   *)
THEOREM BitmapsExactAlways == NoOverlay => (Spec => []BitmapsExact)
<1>1. IInv => BitmapsExact
  BY DEF IInv
<1> QED BY Invariance, <1>1, PTL

(* slab_cache_free never leaves c->empty pointing into a slab that it has  *)
(* returned, nor slab_cache_alloc at an object it has given out.           *)
THEOREM EmptyValidAlways == NoOverlay => (Spec => []EmptyValid)
<1>1. IInv => EmptyValid
  BY DEF IInv, EmptyInv, SlabsLinked, BitmapsExact, EmptyValid
<1> QED BY Invariance, <1>1, PTL

(* The list through the footers' next pointers holds every slab of the     *)
(* cache, once.                                                            *)
THEOREM SlabsLinkedAlways == NoOverlay => (Spec => []SlabsLinked)
<1>1. IInv => SlabsLinked
  BY DEF IInv
<1> QED BY Invariance, <1>1, PTL

(* slab_cache_alloc never hands out an object that is in use.              *)
THEOREM HandoutOnce == NoOverlay => (Spec => NoDoubleHandout)
<1> SUFFICES ASSUME NoOverlay PROVE Spec => NoDoubleHandout
  OBVIOUS
<1>1. IInv /\ slab_cache_alloc => ret' \notin held \/ mode' = "wild"
  <2>1. CASE AllocExhausted
    BY <2>1 DEF AllocExhausted
  <2> QED BY <2>1, AllocEmptyIInv, AllocCreateIInv DEF slab_cache_alloc
<1>2. IInv /\ [Next]_vars => [slab_cache_alloc => ret' \notin held \/ mode' = "wild"]_vars
  BY <1>1
<1>3. Spec => []IInv
  BY Invariance
<1> QED BY <1>2, <1>3, PTL DEF Spec, NoDoubleHandout
=============================================================================
