--------------------------- MODULE VmspaceProofs ---------------------------
(***************************************************************************)
(* Proofs about the allocator of kernel address space, for every size of   *)
(* the region and of requests, every memory below 4GB, and any number of   *)
(* frames that others take and give back in between.                       *)
(***************************************************************************)
EXTENDS Vmspace, TLAPS, WellFoundedInduction

(* An address of 32 bits is the whole address.                             *)
Below4GB == \A m \in Memories : \A f \in m : f < FourGB

Pages(b) == Block(b.addr, b.order)

(* The pages for callers.                                                  *)
Region == 0 .. (NPages - Overhead - 1)

(* The call in progress: its pages, those of them that are mapped and, of  *)
(* these, one whose frame is already free; frames that are not mapped yet. *)
CallPages == IF call.op = "none" THEN {} ELSE Pages(call)

CallMapped ==
    CASE call.op = "alloc" -> call.addr .. (call.addr + call.i - 1)
      [] call.op = "free" /\ call.phys ->
             (call.addr + call.i) .. (call.addr + Size[call.order] - 1)
      [] OTHER -> {}

Stale == IF call.op = "free" /\ call.freed THEN {call.addr + call.i} ELSE {}

Pending ==
    IF call.op = "alloc" /\ call.got # NoFrame
    THEN (call.got + call.i) .. (call.got + Size[call.order] - 1) ELSE {}

(* The pages that own the frame they are mapped to.                        *)
Owned == DOMAIN ptab \ Stale

AllocCalls ==
    [op : {"alloc"}, addr : Nat, order : Orders, phys : BOOLEAN,
     got : Nat \cup {NoFrame}, frame : Nat \cup {NoFrame}, i : Nat]

FreeCalls ==
    [op : {"free"}, addr : Nat, order : Orders, phys : BOOLEAN, freed : BOOLEAN, i : Nat]

Types ==
    /\ state \in {"start", "up", "panic", "wild"}
    /\ vfree \subseteq Region
    /\ ram \in Memories
    /\ pfree \subseteq ram /\ others \subseteq ram /\ lost \subseteq ram
    /\ ptab \in [DOMAIN ptab -> ram] /\ DOMAIN ptab \subseteq 0 .. (NPages - 1)
    /\ live \subseteq [addr : Nat, order : Orders, got : Nat \cup {NoFrame}]
    /\ call \in {None} \cup AllocCalls \cup FreeCalls
    /\ state = "start" => pfree = ram /\ live = {} /\ others = {} /\ call = None

(* How far the call in progress is.                                        *)
CallInv ==
    /\ call # None => call.i <= Size[call.order]
    /\ call.op = "alloc" =>
          /\ call.got = NoFrame => call.i = 0
          /\ call.got # NoFrame =>
                /\ call.phys /\ call.frame = call.got
                /\ \A j \in 0 .. (call.i - 1) : ptab[call.addr + j] = call.got + j
    /\ call.op = "free" =>
          /\ ~call.phys => call.i = 0 /\ ~call.freed
          /\ call.freed => call.i < Size[call.order]

(* Every page for callers is free, in one block, or in the call's block.   *)
PageInv ==
    /\ \A b, c \in live : b # c => Pages(b) \cap Pages(c) = {}
    /\ \A b \in live : /\ Pages(b) \subseteq Region
                       /\ Pages(b) \cap vfree = {} /\ Pages(b) \cap CallPages = {}
    /\ CallPages \subseteq Region /\ CallPages \cap vfree = {}
    /\ \A v \in Region : v \in vfree \/ v \in CallPages \/ \E b \in live : v \in Pages(b)

(* What is mapped.                                                         *)
MapInv ==
    \A v : v \in DOMAIN ptab <=>
        \/ v \in Bitmaps
        \/ v \in CallMapped
        \/ \E b \in live : b.got # NoFrame /\ v \in Pages(b)

(* Every frame is free, with others, lost, about to be mapped, or owned by *)
(* one page, and only one of these.                                        *)
FrameInv ==
    /\ \A v, w \in Owned : ptab[v] = ptab[w] => v = w
    /\ \A v \in Owned : ptab[v] \notin pfree \cup others \cup lost \cup Pending
    /\ pfree \cap others = {} /\ pfree \cap lost = {} /\ others \cap lost = {}
    /\ Pending \subseteq ram /\ Pending \cap (pfree \cup others \cup lost) = {}
    /\ \A f \in ram : \/ f \in pfree \cup others \cup lost \cup Pending
                      \/ \E v \in Owned : ptab[v] = f
    /\ \A b \in live : b.got # NoFrame =>
          \A j \in 0 .. (Size[b.order] - 1) : ptab[b.addr + j] = b.got + j

IInv ==
    /\ Types /\ CallInv
    /\ state = "up" => PageInv /\ MapInv /\ FrameInv

-----------------------------------------------------------------------------
(* The parts                                                               *)

LEMMA SizeFacts ==
    /\ \A k \in Orders : k \in DOMAIN Size
    /\ \A k \in DOMAIN Size : k \in Nat /\ Size[k] \in Nat /\ Size[k] >= 1
    /\ NPages \in Nat /\ Overhead \in Nat /\ 0 < Overhead /\ Overhead < NPages
    /\ FourGB \in Nat /\ Size[0] = 1
<1>1. /\ DOMAIN Size \subseteq Nat /\ 0 .. MaxOrder \subseteq DOMAIN Size
      /\ Size \in [DOMAIN Size -> Nat \ {0}]
  BY VmspaceAssumption
<1>2. QED
  BY <1>1, VmspaceAssumption DEF Orders

LEMMA BlockFacts ==
    ASSUME NEW a \in Nat, NEW k \in DOMAIN Size
    PROVE  /\ \A v : v \in Block(a, k) <=> v \in Int /\ a <= v /\ v < a + Size[k]
           /\ a \in Block(a, k)
BY SizeFacts DEF Block

LEMMA UintptrFacts ==
    ASSUME NEW f \in Nat, f < FourGB
    PROVE  uintptr(f) = f
BY SizeFacts DEF uintptr

LEMMA RamFacts ==
    ASSUME Below4GB, Types
    PROVE  ram \subseteq Nat /\ \A f \in ram : f \in Nat /\ uintptr(f) = f
<1>1. ram \subseteq Nat /\ \A f \in ram : f < FourGB
  BY VmspaceAssumption DEF Below4GB, Types
<1>2. QED
  BY <1>1, UintptrFacts

LEMMA AllocPagesFacts ==
    ASSUME Below4GB, Types, NEW k, NEW f \in alloc_pages(k)
    PROVE  f \in pfree /\ Block(f, k) \subseteq pfree
BY DEF alloc_pages, Blocks

LEMMA LeastNatural ==
    ASSUME NEW T, T \subseteq Nat, T # {}
    PROVE  Min(T) \in T
<1>1. \E x \in T : \A y \in T : ~(y < x)
  <2>1. IsWellFoundedOn(OpToRel(<, Nat), Nat)
    BY NatLessThanWellFounded
  <2>2. PICK x \in T : \A y \in T : ~(<<y, x>> \in OpToRel(<, Nat))
    BY <2>1, WFMin
  <2>3. QED
    BY <2>2 DEF OpToRel
<1>2. \E x \in T : \A y \in T : x <= y
  BY <1>1
<1>3. QED
  BY <1>2 DEF Min

LEMMA Log2Facts ==
    log2_roundup(Overhead) \in DOMAIN Size /\ Overhead <= Size[log2_roundup(Overhead)]
<1> DEFINE T == {k \in DOMAIN Size : Size[k] >= Overhead}
<1>1. T \subseteq Nat /\ T # {}
  BY SizeFacts, VmspaceAssumption
<1>2. Min(T) \in T
  BY <1>1, LeastNatural
<1>3. QED
  BY <1>2, SizeFacts DEF log2_roundup

LEMMA CallTypes ==
    ASSUME Types, call # None
    PROVE  /\ call \in AllocCalls \cup FreeCalls /\ call.op \in {"alloc", "free"}
           /\ call.addr \in Nat /\ call.order \in Orders /\ call.i \in Nat
           /\ call.phys \in BOOLEAN
           /\ Size[call.order] \in Nat /\ Size[call.order] >= 1
           /\ \A v : v \in Pages(call) <=>
                 v \in Int /\ call.addr <= v /\ v < call.addr + Size[call.order]
<1>1. call \in AllocCalls \cup FreeCalls
  BY DEF Types
<1>2. /\ call.op \in {"alloc", "free"}
      /\ call.addr \in Nat /\ call.order \in Orders /\ call.i \in Nat /\ call.phys \in BOOLEAN
  BY <1>1 DEF AllocCalls, FreeCalls
<1>3. QED
  BY <1>1, <1>2, SizeFacts, BlockFacts DEF Pages

LEMMA LiveTypes ==
    ASSUME Types, NEW b \in live
    PROVE  /\ b.addr \in Nat /\ b.order \in Orders /\ b.got \in Nat \cup {NoFrame}
           /\ Size[b.order] \in Nat /\ Size[b.order] >= 1
           /\ \A v : v \in Pages(b) <=> v \in Int /\ b.addr <= v /\ v < b.addr + Size[b.order]
           /\ Pages(b) # {}
<1>1. b.addr \in Nat /\ b.order \in Orders /\ b.got \in Nat \cup {NoFrame}
  BY DEF Types
<1>2. QED
  BY <1>1, SizeFacts, BlockFacts DEF Pages

LEMMA NoCall ==
    ASSUME Types
    PROVE  call = None <=> call.op = "none"
BY DEF Types, None, AllocCalls, FreeCalls

-----------------------------------------------------------------------------
(* The steps                                                               *)

LEMMA InitStep ==
    ASSUME Below4GB, IInv, vmspace_init
    PROVE  IInv'
<1> USE DEF IInv
<1>1. /\ state = "start" /\ pfree = ram /\ live = {} /\ others = {} /\ call = None
      /\ ram' = ram /\ live' = {} /\ others' = {} /\ call' = None
      /\ ram \in Memories /\ ram \subseteq Nat
  BY RamFacts DEF vmspace_init, Types
<1> DEFINE k == log2_roundup(Overhead)
           start == NPages - Overhead
<1>2. k \in DOMAIN Size /\ Overhead <= Size[k] /\ Size[k] \in Nat
  BY Log2Facts, SizeFacts
<1>3. start \in Nat /\ start + Overhead = NPages
  BY SizeFacts
<1>4. CASE state' = "wild" /\ UNCHANGED <<vfree, pfree, ptab, lost>>
  BY <1>1, <1>4 DEF Types, CallInv, None
<1>5. ASSUME NEW f \in alloc_pages(k),
             pfree' = pfree \ Block(f, k),
             ptab' = [v \in start .. (NPages - 1) |-> uintptr(f + v - start)],
             lost' = (f + Overhead) .. (f + Size[k] - 1),
             vfree' = 0 .. (start - 1),
             state' = "up"
      PROVE  IInv'
  <2>1. f \in Nat /\ Block(f, k) \subseteq ram
    BY <1>1, <1>5, AllocPagesFacts
  <2> HIDE DEF k, start
  <2>2. \A v : v \in Block(f, k) <=> v \in Int /\ f <= v /\ v < f + Size[k]
    BY <1>2, <2>1, BlockFacts
  <2>3. \A v \in start .. (NPages - 1) : f + v - start \in ram /\ uintptr(f + v - start) = f + v - start
    <3> TAKE v \in start .. (NPages - 1)
    <3>1. f + v - start \in Block(f, k)
      BY <1>2, <1>3, <2>1, <2>2, SizeFacts
    <3>2. QED
      BY <2>1, <3>1, RamFacts
  <2>4. /\ DOMAIN ptab' = start .. (NPages - 1)
        /\ \A v \in start .. (NPages - 1) : ptab'[v] = f + v - start
    BY <1>5, <2>3
  <2>5. lost' \subseteq Block(f, k) /\ \A v \in lost' : v >= f + Overhead
    BY <1>2, <1>5, <2>1, <2>2, SizeFacts
  <2>6. /\ Region = 0 .. (start - 1) /\ Bitmaps = start .. (NPages - 1)
    BY DEF Region, Bitmaps, start
  <2>7. Types'
    <3>1. ptab' \in [DOMAIN ptab' -> ram]
      BY <1>5, <2>3
    <3>2. DOMAIN ptab' \subseteq 0 .. (NPages - 1)
      BY <1>3, <2>4, SizeFacts
    <3>3. pfree' \subseteq ram /\ lost' \subseteq ram
      BY <1>1, <1>5, <2>1, <2>5
    <3>4. QED
      BY <1>1, <1>5, <2>6, <3>1, <3>2, <3>3 DEF Types
  <2>8. CallPages' = {} /\ CallMapped' = {} /\ Stale' = {} /\ Pending' = {}
    BY <1>1 DEF CallPages, CallMapped, Stale, Pending, None
  <2>9. CallInv'
    BY <1>1 DEF CallInv, None
  <2>10. PageInv'
    BY <1>1, <1>5, <2>6, <2>8 DEF PageInv
  <2>11. MapInv'
    BY <1>1, <2>4, <2>6, <2>8 DEF MapInv
  <2>12. FrameInv'
    <3>1. Owned' = start .. (NPages - 1)
      BY <2>4, <2>8 DEF Owned
    <3>2. ASSUME NEW v \in Owned', NEW w \in Owned', ptab'[v] = ptab'[w] PROVE v = w
      BY <1>3, <2>1, <2>4, <3>1, <3>2, SizeFacts
    <3>3. ASSUME NEW v \in Owned'
          PROVE  ptab'[v] \in Block(f, k) /\ ptab'[v] < f + Overhead /\ ptab'[v] \in Int
      <4>1. v \in start .. (NPages - 1) /\ ptab'[v] = f + v - start
        BY <2>4, <3>1
      <4>2. f + v - start \in Int /\ f <= f + v - start /\ f + v - start < f + Overhead
        BY <1>3, <2>1, <4>1, SizeFacts
      <4>3. f + v - start < f + Size[k]
        BY <1>2, <2>1, <4>2, SizeFacts
      <4>4. QED
        BY <2>2, <4>1, <4>2, <4>3
    <3>4. \A v \in Owned' : ptab'[v] \notin pfree' /\ ptab'[v] \notin lost'
      <4> TAKE v \in Owned'
      <4>1. ptab'[v] \notin pfree'
        BY <1>5, <3>3
      <4>2. ptab'[v] \notin lost'
        <5>1. ptab'[v] < f + Overhead /\ ptab'[v] \in Int
          BY <3>3
        <5>2. ~(ptab'[v] >= f + Overhead)
          BY <2>1, <5>1, SizeFacts
        <5>3. QED
          BY <2>5, <5>2
      <4>3. QED
        BY <4>1, <4>2
    <3>5. pfree' \cap lost' = {}
      BY <1>5, <2>5
    <3>6. ASSUME NEW g \in ram
          PROVE  g \in pfree' \/ g \in lost' \/ \E v \in Owned' : ptab'[v] = g
      <4>1. CASE g \notin Block(f, k)
        BY <1>1, <1>5, <4>1
      <4>2. CASE g \in Block(f, k) /\ g >= f + Overhead
        BY <1>2, <1>5, <2>1, <2>2, <4>2, SizeFacts
      <4>3. CASE g \in Block(f, k) /\ ~(g >= f + Overhead)
        <5>1. g \in Int /\ f <= g /\ g < f + Overhead
          <6>1. g \in Int /\ f <= g
            BY <2>2, <4>3
          <6>2. QED
            BY <2>1, <4>3, <6>1, SizeFacts
        <5>2. g - f + start \in start .. (NPages - 1)
          BY <1>3, <2>1, <5>1, SizeFacts
        <5>3. ptab'[g - f + start] = g
          BY <1>3, <2>1, <2>4, <5>1, <5>2
        <5>4. QED
          BY <3>1, <5>2, <5>3
      <4>4. QED
        BY <4>1, <4>2, <4>3
    <3>7. QED
      BY <1>1, <2>8, <3>2, <3>4, <3>5, <3>6 DEF FrameInv
  <2>13. QED
    BY <2>7, <2>9, <2>10, <2>11, <2>12
<1>6. QED
  BY <1>4, <1>5 DEF vmspace_init

LEMMA AllocStep ==
    ASSUME Below4GB, IInv, NEW k \in Orders, NEW phys \in BOOLEAN, vmspace_alloc(k, phys)
    PROVE  IInv'
<1> USE DEF IInv
<1>1. PICK a \in Blocks(vfree, k) :
         /\ vfree' = vfree \ Block(a, k)
         /\ call' = [op |-> "alloc", addr |-> a, order |-> k, phys |-> phys,
                     got |-> NoFrame, frame |-> NoFrame, i |-> 0]
  BY DEF vmspace_alloc
<1>2. /\ state = "up" /\ state' = "up" /\ call = None
      /\ UNCHANGED <<ram, pfree, ptab, live, others, lost>>
  BY DEF vmspace_alloc, Idle
<1>3. a \in Nat /\ a \in vfree /\ Block(a, k) \subseteq vfree /\ vfree \subseteq Region
  BY DEF Blocks, Types, Region
<1>4. /\ call'.op = "alloc" /\ call'.addr = a /\ call'.order = k /\ call'.phys = phys
      /\ call'.got = NoFrame /\ call'.i = 0 /\ call' \in AllocCalls
  BY <1>1, <1>3 DEF AllocCalls
<1>5. call' # None
  BY <1>4 DEF None
<1>6. /\ CallPages' = Block(a, k) /\ CallMapped' = {} /\ Stale' = {} /\ Pending' = {}
  BY <1>3, <1>4 DEF CallPages, CallMapped, Stale, Pending, Pages
<1>7. /\ CallPages = {} /\ CallMapped = {} /\ Stale = {} /\ Pending = {}
  BY <1>2 DEF CallPages, CallMapped, Stale, Pending, None
<1>8. Types'
  BY <1>1, <1>2, <1>4 DEF Types
<1>9. CallInv'
  BY <1>4, SizeFacts DEF CallInv
<1>10. PageInv'
  <2>1. \A b : Pages(b)' = Pages(b)
    BY DEF Pages
  <2>2. PageInv
    BY <1>2
  <2>3. QED
    BY <1>1, <1>2, <1>3, <1>6, <1>7, <2>2 DEF PageInv
<1>11. MapInv'
  BY <1>2, <1>6, <1>7 DEF MapInv
<1>12. FrameInv'
  BY <1>2, <1>6, <1>7 DEF FrameInv, Owned
<1>13. QED
  BY <1>8, <1>9, <1>10, <1>11, <1>12

LEMMA PhysStep ==
    ASSUME Below4GB, IInv, AllocPhys
    PROVE  IInv'
<1> USE DEF IInv
<1>1. /\ call.op = "alloc" /\ state = "up" /\ call.phys /\ call.got = NoFrame
      /\ UNCHANGED <<ram, vfree, ptab, live, others, lost>>
  BY DEF AllocPhys
<1>2. call # None /\ call \in AllocCalls
  BY <1>1 DEF Types, None, FreeCalls
<1>3. CASE state' = "panic" /\ UNCHANGED <<pfree, call>>
  BY <1>1, <1>3 DEF Types, CallInv
<1>4. ASSUME NEW f \in alloc_pages(call.order),
             pfree' = pfree \ Block(f, call.order),
             call' = [call EXCEPT !.got = f, !.frame = uintptr(f)],
             UNCHANGED state
      PROVE  IInv'
  <2>1. f \in ram /\ f \in Nat /\ Block(f, call.order) \subseteq pfree /\ uintptr(f) = f
    <3>1. f \in pfree /\ Block(f, call.order) \subseteq pfree
      BY <1>4, AllocPagesFacts
    <3>2. f \in ram
      BY <3>1 DEF Types
    <3>3. QED
      BY <3>1, <3>2, RamFacts
  <2>2. /\ call'.op = "alloc" /\ call'.addr = call.addr /\ call'.order = call.order
        /\ call'.phys /\ call'.got = f /\ call'.frame = f /\ call'.i = call.i
        /\ call' \in AllocCalls
    BY <1>1, <1>2, <1>4, <2>1 DEF AllocCalls
  <2>3. call.i = 0 /\ call.order \in Orders /\ call.order \in DOMAIN Size
    <3>1. call.i = 0
      BY <1>1 DEF CallInv
    <3>2. QED
      BY <1>2, <3>1, SizeFacts DEF AllocCalls
  <2>4. f # NoFrame
    BY <2>1 DEF NoFrame
  <2>5. /\ CallPages' = CallPages /\ CallMapped' = CallMapped /\ Stale' = {} /\ Stale = {}
    BY <1>1, <2>2 DEF CallPages, CallMapped, Stale, Pages
  <2>6. Pending = {} /\ Pending' = Block(f, call.order)
    BY <1>1, <2>1, <2>2, <2>3, <2>4 DEF Pending, Block
  <2>7. Types'
    BY <1>1, <1>4, <2>2 DEF Types
  <2>8. CallInv'
    <3>1. call'.i <= Size[call'.order]
      BY <2>2, <2>3, SizeFacts
    <3>2. \A j \in 0 .. (call'.i - 1) : FALSE
      BY <2>2, <2>3
    <3>3. QED
      BY <2>2, <2>4, <3>1, <3>2 DEF CallInv
  <2>9. PageInv' /\ MapInv'
    BY <1>1, <2>5 DEF PageInv, MapInv
  <2>10. FrameInv'
    <3>1. Owned' = Owned /\ FrameInv /\ pfree \subseteq ram
      BY <1>1, <2>5 DEF Owned, Types
    <3>2. QED
      BY <1>1, <1>4, <2>1, <2>6, <3>1 DEF FrameInv
  <2>11. QED
    BY <2>7, <2>8, <2>9, <2>10
<1>5. QED
  BY <1>3, <1>4 DEF AllocPhys

LEMMA MapStep ==
    ASSUME Below4GB, IInv, AllocMap
    PROVE  IInv'
<1> USE DEF IInv
<1>1. /\ call.op = "alloc" /\ state = "up" /\ call.got # NoFrame
      /\ call.i < Size[call.order]
      /\ UNCHANGED <<ram, vfree, pfree, live, others, lost>>
  BY DEF AllocMap, More
<1>2. call # None /\ call \in AllocCalls
  BY <1>1 DEF Types, None, FreeCalls
<1>3. /\ call.addr \in Nat /\ call.order \in Orders /\ call.i \in Nat /\ Size[call.order] \in Nat
      /\ call.got \in Nat /\ call.frame = call.got
      /\ \A j \in 0 .. (call.i - 1) : ptab[call.addr + j] = call.got + j
  <2>1. call.frame = call.got /\ \A j \in 0 .. (call.i - 1) : ptab[call.addr + j] = call.got + j
    BY <1>1 DEF CallInv
  <2>2. QED
    BY <1>1, <1>2, <2>1, CallTypes DEF AllocCalls
<1> DEFINE v == call.addr + call.i
           f == call.got + call.i
<1>4. /\ CallPages = Pages(call) /\ v \in CallPages /\ v \in Int
      /\ CallMapped = call.addr .. (v - 1) /\ v \notin CallMapped
      /\ Stale = {} /\ Pending = f .. (call.got + Size[call.order] - 1) /\ f \in Pending
  <2>1. CallPages = Pages(call) /\ v \in Pages(call)
    BY <1>1, <1>2, <1>3, CallTypes DEF CallPages
  <2>2. QED
    BY <1>1, <1>3, <2>1 DEF CallMapped, Stale, Pending
<1>5. v \notin DOMAIN ptab /\ v \in 0 .. (NPages - 1)
  <2>1. v \in Region /\ v \notin Bitmaps
    BY <1>1, <1>4, SizeFacts DEF PageInv, Region, Bitmaps
  <2>2. \A b \in live : v \notin Pages(b)
    BY <1>1, <1>4 DEF PageInv
  <2>3. QED
    BY <1>1, <1>4, <2>1, <2>2, SizeFacts DEF MapInv, Region
<1>6. f \in ram /\ uintptr(f) = f
  <2>1. f \in ram
    BY <1>1, <1>4 DEF FrameInv
  <2>2. QED
    BY <2>1, RamFacts
<1>7. /\ ptab' = [w \in DOMAIN ptab \cup {v} |->
                     IF w = v THEN uintptr(call.frame + call.i) ELSE ptab[w]]
      /\ call' = [call EXCEPT !.i = @ + 1] /\ state' = state
  BY <1>5 DEF AllocMap
<1>8. /\ DOMAIN ptab' = DOMAIN ptab \cup {v} /\ ptab'[v] = f
      /\ \A w \in DOMAIN ptab : ptab'[w] = ptab[w]
      /\ ptab' \in [DOMAIN ptab' -> ram]
  <2>1. ptab' = [w \in DOMAIN ptab \cup {v} |-> IF w = v THEN f ELSE ptab[w]]
    BY <1>3, <1>6, <1>7
  <2>2. QED
    BY <1>5, <1>6, <2>1 DEF Types
<1>9. /\ call'.op = "alloc" /\ call'.addr = call.addr /\ call'.order = call.order
      /\ call'.phys = call.phys /\ call'.got = call.got /\ call'.frame = call.frame
      /\ call'.i = call.i + 1 /\ call' \in AllocCalls
  BY <1>1, <1>2, <1>3, <1>7 DEF AllocCalls
<1>10. /\ CallPages' = CallPages /\ Stale' = {}
       /\ \A w : w \in CallMapped' <=> w \in CallMapped \/ w = v
       /\ \A g : g \in Pending' <=> g \in Pending /\ g # f
  <2>1. CallPages' = CallPages /\ Stale' = {}
    BY <1>1, <1>9 DEF CallPages, Stale, Pages
  <2>2. CallMapped' = call.addr .. (call.addr + (call.i + 1) - 1)
    BY <1>9 DEF CallMapped
  <2>3. Pending' = (call.got + (call.i + 1)) .. (call.got + Size[call.order] - 1)
    BY <1>1, <1>9 DEF Pending
  <2>4. QED
    BY <1>1, <1>3, <1>4, <2>1, <2>2, <2>3, SMTT(30)
<1>11. Types'
  BY <1>1, <1>5, <1>7, <1>8, <1>9 DEF Types
<1>12. CallInv'
  <2>1. call'.i <= Size[call'.order]
    BY <1>1, <1>3, <1>9
  <2>2. ASSUME NEW j \in 0 .. (call'.i - 1) PROVE ptab'[call'.addr + j] = call'.got + j
    <3>1. CASE j = call.i
      BY <1>8, <1>9, <3>1
    <3>2. CASE j \in 0 .. (call.i - 1)
      <4>1. ptab[call.addr + j] = call.got + j /\ call.addr + j \in CallMapped
        BY <1>3, <1>4, <3>2, SMTT(30)
      <4>2. call.addr + j \in DOMAIN ptab
        BY <1>1, <4>1 DEF MapInv
      <4>3. QED
        BY <1>8, <1>9, <4>1, <4>2
    <3>3. QED
      BY <1>3, <1>9, <3>1, <3>2
  <2>3. call.phys
    BY <1>1 DEF CallInv
  <2>4. QED
    BY <1>1, <1>3, <1>9, <2>1, <2>2, <2>3 DEF CallInv
<1>13. PageInv'
  BY <1>1, <1>10 DEF PageInv
<1>14. MapInv'
  BY <1>1, <1>8, <1>10 DEF MapInv
<1>15. FrameInv'
  <2>1. Owned = DOMAIN ptab /\ Owned' = DOMAIN ptab \cup {v} /\ FrameInv
    BY <1>1, <1>4, <1>8, <1>10 DEF Owned
  <2>2. \A w \in Owned : ptab'[w] = ptab[w] /\ ptab[w] # f
    BY <1>4, <1>8, <2>1 DEF FrameInv
  <2>3. \A w, x \in Owned' : ptab'[w] = ptab'[x] => w = x
    BY <1>8, <2>1, <2>2 DEF FrameInv
  <2>4. \A w \in Owned' : ptab'[w] \notin pfree' \cup others' \cup lost' \cup Pending'
    BY <1>1, <1>4, <1>8, <1>10, <2>1, <2>2 DEF FrameInv
  <2>5. \A g \in ram' : \/ g \in pfree' \cup others' \cup lost' \cup Pending'
                        \/ \E w \in Owned' : ptab'[w] = g
    BY <1>1, <1>8, <1>10, <2>1, <2>2 DEF FrameInv
  <2>6. ASSUME NEW b \in live, b.got # NoFrame, NEW j \in 0 .. (Size[b.order] - 1)
        PROVE  ptab'[b.addr + j] = b.got + j
    <3>1. b.addr + j \in Pages(b)
      BY <2>6, LiveTypes
    <3>2. b.addr + j \in DOMAIN ptab
      BY <1>1, <2>6, <3>1 DEF MapInv
    <3>3. QED
      BY <1>8, <2>1, <2>6, <3>2 DEF FrameInv
  <2>7. Pending' \subseteq Pending
    BY <1>10
  <2>8. QED
    BY <1>1, <2>1, <2>3, <2>4, <2>5, <2>6, <2>7 DEF FrameInv
<1>16. QED
  BY <1>11, <1>12, <1>13, <1>14, <1>15

LEMMA AllocReturnStep ==
    ASSUME Below4GB, IInv, AllocReturn
    PROVE  IInv'
<1> USE DEF IInv
<1>1. /\ call.op = "alloc" /\ state = "up"
      /\ call.phys => call.got # NoFrame /\ ~(call.i < Size[call.order])
      /\ call' = None
      /\ UNCHANGED <<ram, state, vfree, pfree, ptab, others, lost>>
  BY DEF AllocReturn, More
<1>2. call # None /\ call \in AllocCalls
  BY <1>1 DEF Types, None, FreeCalls
<1> DEFINE b == [addr |-> call.addr, order |-> call.order, got |-> call.got]
<1>3. live' = live \cup {b}
  BY DEF AllocReturn
<1>4. /\ b \in [addr : Nat, order : Orders, got : Nat \cup {NoFrame}]
      /\ b.addr = call.addr /\ b.order = call.order /\ b.got = call.got /\ Pages(b) = CallPages
  BY <1>1, <1>2 DEF AllocCalls, Pages, CallPages
<1>5. /\ call.addr \in Nat /\ call.i \in Nat /\ Size[call.order] \in Nat
      /\ call.i <= Size[call.order]
      /\ \A v : v \in Pages(call) <=>
            v \in Int /\ call.addr <= v /\ v < call.addr + Size[call.order]
  BY <1>1, <1>2, CallTypes DEF CallInv
<1>6. call.got # NoFrame =>
         /\ call.got \in Nat /\ call.i = Size[call.order]
         /\ \A j \in 0 .. (Size[call.order] - 1) : ptab[call.addr + j] = call.got + j
         /\ CallMapped = CallPages
  <2> SUFFICES ASSUME call.got # NoFrame
               PROVE  /\ call.got \in Nat /\ call.i = Size[call.order]
                      /\ \A j \in 0 .. (Size[call.order] - 1) : ptab[call.addr + j] = call.got + j
                      /\ CallMapped = CallPages
    OBVIOUS
  <2>1. call.got \in Nat /\ call.phys
    BY <1>1, <1>2 DEF AllocCalls, CallInv
  <2>2. call.i = Size[call.order]
    BY <1>1, <1>5, <2>1
  <2>3. \A j \in 0 .. (Size[call.order] - 1) : ptab[call.addr + j] = call.got + j
    BY <1>1, <2>2 DEF CallInv
  <2>4. CallMapped = CallPages
    <3>1. /\ CallMapped = call.addr .. (call.addr + Size[call.order] - 1)
          /\ CallPages = Pages(call)
      BY <1>1, <2>2 DEF CallMapped, CallPages
    <3>2. \A v : v \in CallMapped <=> v \in CallPages
      BY <1>5, <3>1
    <3>3. QED
      BY <3>2
  <2>5. QED
    BY <2>1, <2>2, <2>3, <2>4
<1>7. call.got = NoFrame => CallMapped = {}
  <2> SUFFICES ASSUME call.got = NoFrame PROVE CallMapped = {}
    OBVIOUS
  <2>1. call.i = 0
    BY <1>1 DEF CallInv
  <2>2. QED
    BY <1>1, <1>5, <2>1 DEF CallMapped
<1>8. Stale = {} /\ Pending = {}
  <2>1. Stale = {}
    BY <1>1 DEF Stale
  <2>2. Pending = {}
    BY <1>1, <1>5, <1>6 DEF Pending
  <2>3. QED
    BY <2>1, <2>2
<1>9. CallPages' = {} /\ CallMapped' = {} /\ Stale' = {} /\ Pending' = {}
  BY <1>1 DEF CallPages, CallMapped, Stale, Pending, None
<1> HIDE DEF b
<1>10. Types'
  BY <1>1, <1>3, <1>4 DEF Types
<1>11. CallInv'
  BY <1>1 DEF CallInv, None
<1>12. PageInv'
  BY <1>1, <1>3, <1>4, <1>9 DEF PageInv
<1>13. MapInv'
  <2>1. \A v : v \in CallMapped <=> b.got # NoFrame /\ v \in Pages(b)
    BY <1>4, <1>6, <1>7
  <2>2. \A v : (\E c \in live' : c.got # NoFrame /\ v \in Pages(c))
                <=> v \in CallMapped \/ \E c \in live : c.got # NoFrame /\ v \in Pages(c)
    BY <1>3, <2>1
  <2>3. QED
    BY <1>1, <1>9, <2>2 DEF MapInv
<1>14. FrameInv'
  <2>1. Owned' = Owned /\ FrameInv
    BY <1>1, <1>8, <1>9 DEF Owned
  <2>2. ASSUME NEW c \in live', c.got # NoFrame, NEW j \in 0 .. (Size[c.order] - 1)
        PROVE  ptab[c.addr + j] = c.got + j
    BY <1>3, <1>4, <1>6, <2>1, <2>2 DEF FrameInv
  <2>3. QED
    BY <1>1, <1>8, <1>9, <2>1, <2>2 DEF FrameInv
<1>15. QED
  BY <1>10, <1>11, <1>12, <1>13, <1>14

LEMMA FreeStep ==
    ASSUME Below4GB, IInv, NEW b \in live, vmspace_free(b)
    PROVE  IInv'
<1> USE DEF IInv
<1>1. /\ state = "up" /\ call = None /\ live' = live \ {b}
      /\ call' = [op |-> "free", addr |-> b.addr, order |-> b.order,
                  phys |-> b.got # NoFrame, freed |-> FALSE, i |-> 0]
      /\ UNCHANGED <<ram, state, vfree, pfree, ptab, others, lost>>
  BY DEF vmspace_free, Idle
<1>2. /\ b.addr \in Nat /\ b.order \in Orders /\ Size[b.order] \in Nat /\ Size[b.order] >= 1
      /\ \A v : v \in Pages(b) <=> v \in Int /\ b.addr <= v /\ v < b.addr + Size[b.order]
      /\ Pages(b) # {}
  BY LiveTypes
<1>3. /\ call'.op = "free" /\ call'.addr = b.addr /\ call'.order = b.order
      /\ call'.phys = (b.got # NoFrame) /\ ~call'.freed /\ call'.i = 0
      /\ call' \in FreeCalls
  BY <1>1, <1>2 DEF FreeCalls
<1>4. CallPages = {} /\ CallMapped = {} /\ Stale = {} /\ Pending = {}
  BY <1>1 DEF CallPages, CallMapped, Stale, Pending, None
<1>5. CallPages' = Pages(b) /\ Stale' = {} /\ Pending' = {}
  BY <1>3 DEF CallPages, Stale, Pending, Pages
<1>6. \A v : v \in CallMapped' <=> b.got # NoFrame /\ v \in Pages(b)
  <2>1. CASE b.got # NoFrame
    <3>1. CallMapped' = (b.addr + 0) .. (b.addr + Size[b.order] - 1)
      BY <1>3, <2>1 DEF CallMapped
    <3>2. QED
      BY <1>2, <2>1, <3>1
  <2>2. CASE b.got = NoFrame
    BY <1>3, <2>2 DEF CallMapped
  <2>3. QED
    BY <2>1, <2>2
<1>7. Types'
  BY <1>1, <1>3 DEF Types
<1>8. CallInv'
  BY <1>2, <1>3 DEF CallInv
<1>9. PageInv'
  BY <1>1, <1>2, <1>4, <1>5 DEF PageInv
<1>10. MapInv'
  BY <1>1, <1>4, <1>6 DEF MapInv
<1>11. FrameInv'
  BY <1>1, <1>4, <1>5 DEF FrameInv, Owned
<1>12. QED
  BY <1>7, <1>8, <1>9, <1>10, <1>11

LEMMA FreeFrameStep ==
    ASSUME Below4GB, IInv, FreeFrame
    PROVE  IInv'
<1> USE DEF IInv
<1>1. /\ call.op = "free" /\ state = "up" /\ call.phys /\ ~call.freed
      /\ call.i < Size[call.order]
      /\ UNCHANGED <<ram, vfree, ptab, live, others, lost>>
  BY DEF FreeFrame, More
<1>2. call # None /\ call \in FreeCalls
  BY <1>1 DEF Types, None, AllocCalls
<1>3. /\ call.addr \in Nat /\ call.order \in Orders /\ call.i \in Nat /\ Size[call.order] \in Nat
      /\ \A w : w \in Pages(call) <=>
            w \in Int /\ call.addr <= w /\ w < call.addr + Size[call.order]
  BY <1>2, CallTypes
<1> DEFINE v == call.addr + call.i
<1>4. v \in CallMapped /\ v \in Pages(call) /\ CallPages = Pages(call)
  <2>1. CallMapped = v .. (call.addr + Size[call.order] - 1)
    BY <1>1 DEF CallMapped
  <2>2. v \in CallMapped /\ v \in Pages(call)
    BY <1>1, <1>3, <2>1
  <2>3. QED
    BY <1>1, <2>2 DEF CallPages
<1>5. v \in DOMAIN ptab /\ ptab[v] \in ram
  <2>1. v \in DOMAIN ptab
    BY <1>1, <1>4 DEF MapInv
  <2>2. QED
    BY <2>1 DEF Types
<1>6. /\ pfree' = pfree \cup {ptab[v]} /\ call' = [call EXCEPT !.freed = TRUE]
      /\ state' = state
  BY <1>5 DEF FreeFrame
<1>7. /\ call'.op = "free" /\ call'.addr = call.addr /\ call'.order = call.order
      /\ call'.phys = call.phys /\ call'.freed /\ call'.i = call.i /\ call' \in FreeCalls
  BY <1>1, <1>2, <1>6 DEF FreeCalls
<1>8. /\ CallPages' = CallPages /\ CallMapped' = CallMapped
      /\ Stale = {} /\ Stale' = {v} /\ Pending = {} /\ Pending' = {}
  BY <1>1, <1>7 DEF CallPages, CallMapped, Stale, Pending, Pages
<1>9. Types'
  BY <1>1, <1>5, <1>6, <1>7 DEF Types
<1>10. CallInv'
  BY <1>1, <1>3, <1>7 DEF CallInv
<1>11. PageInv' /\ MapInv'
  BY <1>1, <1>8 DEF PageInv, MapInv
<1>12. FrameInv'
  <2>1. Owned = DOMAIN ptab /\ Owned' = DOMAIN ptab \ {v} /\ FrameInv
    BY <1>1, <1>8 DEF Owned
  <2>2. ptab[v] \notin pfree \cup others \cup lost
    BY <1>5, <2>1 DEF FrameInv
  <2> HIDE DEF v
  <2>3. \A f \in ram : \/ f \in pfree' \cup others \cup lost
                       \/ \E w \in Owned' : ptab[w] = f
    BY <1>6, <1>8, <2>1 DEF FrameInv
  <2>4. \A w \in Owned' : ptab[w] \notin pfree' \cup others \cup lost
    BY <1>5, <1>6, <2>1 DEF FrameInv
  <2>5. QED
    BY <1>1, <1>6, <1>8, <2>1, <2>2, <2>3, <2>4 DEF FrameInv
<1>13. QED
  BY <1>9, <1>10, <1>11, <1>12

LEMMA UnmapStep ==
    ASSUME Below4GB, IInv, FreeUnmap
    PROVE  IInv'
<1> USE DEF IInv
<1>1. /\ call.op = "free" /\ state = "up" /\ call.freed
      /\ UNCHANGED <<ram, vfree, pfree, live, others, lost>>
  BY DEF FreeUnmap
<1>2. call # None /\ call \in FreeCalls /\ call.phys /\ call.i < Size[call.order]
  <2>1. call # None /\ call \in FreeCalls
    BY <1>1 DEF Types, None, AllocCalls
  <2>2. QED
    BY <1>1, <2>1 DEF CallInv, FreeCalls
<1>3. /\ call.addr \in Nat /\ call.order \in Orders /\ call.i \in Nat /\ Size[call.order] \in Nat
      /\ \A w : w \in Pages(call) <=>
            w \in Int /\ call.addr <= w /\ w < call.addr + Size[call.order]
  BY <1>2, CallTypes
<1> DEFINE v == call.addr + call.i
<1>4. /\ CallMapped = v .. (call.addr + Size[call.order] - 1)
      /\ v \in CallMapped /\ v \in Pages(call) /\ CallPages = Pages(call)
  <2>1. CallMapped = v .. (call.addr + Size[call.order] - 1)
    BY <1>1, <1>2 DEF CallMapped
  <2>2. v \in CallMapped /\ v \in Pages(call)
    BY <1>1, <1>2, <1>3, <2>1
  <2>3. QED
    BY <1>1, <2>1, <2>2 DEF CallPages
<1>5. v \in DOMAIN ptab
  BY <1>1, <1>4 DEF MapInv
<1>6. /\ ptab' = [w \in DOMAIN ptab \ {v} |-> ptab[w]]
      /\ call' = [call EXCEPT !.i = @ + 1, !.freed = FALSE]
      /\ state' = state
  BY <1>5 DEF FreeUnmap
<1>7. /\ call'.op = "free" /\ call'.addr = call.addr /\ call'.order = call.order
      /\ call'.phys = call.phys /\ ~call'.freed /\ call'.i = call.i + 1 /\ call' \in FreeCalls
  <2>1. /\ call'.op = call.op /\ call'.addr = call.addr /\ call'.order = call.order
        /\ call'.phys = call.phys /\ call'.freed = FALSE /\ call'.i = call.i + 1
    BY <1>2, <1>6 DEF FreeCalls
  <2>2. call.i + 1 \in Nat /\ FALSE \in BOOLEAN
    BY <1>3
  <2>3. call' \in FreeCalls
    BY <1>2, <1>6, <2>2 DEF FreeCalls
  <2>4. QED
    BY <1>1, <2>1, <2>3
<1>8. /\ CallPages' = CallPages
      /\ Stale = {v} /\ Stale' = {} /\ Pending = {} /\ Pending' = {}
      /\ \A w : w \in CallMapped' <=> w \in CallMapped /\ w # v
  <2>1. /\ CallPages' = CallPages
        /\ Stale = {v} /\ Stale' = {} /\ Pending = {} /\ Pending' = {}
    BY <1>1, <1>7 DEF CallPages, Stale, Pending, Pages
  <2>2. CallMapped' = (call.addr + (call.i + 1)) .. (call.addr + Size[call.order] - 1)
    BY <1>2, <1>7 DEF CallMapped
  <2>3. \A w : w \in CallMapped' <=> w \in CallMapped /\ w # v
    BY <1>3, <1>4, <2>2
  <2>4. QED
    BY <2>1, <2>3
<1>9. \A b \in live : v \notin Pages(b)
  BY <1>1, <1>4 DEF PageInv
<1> HIDE DEF v
<1>10. /\ DOMAIN ptab' = DOMAIN ptab \ {v} /\ \A w \in DOMAIN ptab' : ptab'[w] = ptab[w]
       /\ ptab' \in [DOMAIN ptab' -> ram] /\ DOMAIN ptab' \subseteq 0 .. (NPages - 1)
  BY <1>6 DEF Types
<1>11. Types'
  BY <1>1, <1>6, <1>7, <1>10 DEF Types
<1>12. CallInv'
  <2>1. call'.i <= Size[call'.order]
    BY <1>2, <1>3, <1>7
  <2>2. QED
    BY <1>2, <1>7, <2>1 DEF CallInv
<1>13. PageInv'
  BY <1>1, <1>8 DEF PageInv
<1>14. MapInv'
  <2>1. v \notin Bitmaps
    <3>1. v \in Region
      BY <1>1, <1>4 DEF PageInv
    <3>2. QED
      BY <3>1, SizeFacts DEF Region, Bitmaps
  <2>2. QED
    BY <1>1, <1>8, <1>9, <1>10, <2>1 DEF MapInv
<1>15. FrameInv'
  <2>1. Owned' = Owned /\ Owned = DOMAIN ptab' /\ FrameInv
    BY <1>1, <1>8, <1>10 DEF Owned
  <2>2. ASSUME NEW b \in live, b.got # NoFrame, NEW j \in 0 .. (Size[b.order] - 1)
        PROVE  ptab'[b.addr + j] = b.got + j
    <3>1. b.addr + j \in Pages(b)
      BY <2>2, LiveTypes
    <3>2. b.addr + j \in DOMAIN ptab'
      BY <1>1, <1>9, <1>10, <2>2, <3>1 DEF MapInv
    <3>3. QED
      BY <1>10, <2>1, <2>2, <3>2 DEF FrameInv
  <2>3. QED
    BY <1>1, <1>8, <1>10, <2>1, <2>2 DEF FrameInv
<1>16. QED
  BY <1>11, <1>12, <1>13, <1>14, <1>15

LEMMA FreeReturnStep ==
    ASSUME Below4GB, IInv, FreeReturn
    PROVE  IInv'
<1> USE DEF IInv
<1>1. /\ call.op = "free" /\ state = "up"
      /\ call.phys => ~(call.i < Size[call.order])
      /\ vfree' = vfree \cup Block(call.addr, call.order)
      /\ call' = None
      /\ UNCHANGED <<ram, state, pfree, ptab, live, others, lost>>
  BY DEF FreeReturn, More
<1>2. call # None /\ call \in FreeCalls
  BY <1>1 DEF Types, None, AllocCalls
<1>3. /\ call.addr \in Nat /\ call.i \in Nat /\ Size[call.order] \in Nat
      /\ call.i <= Size[call.order] /\ call.phys \in BOOLEAN
  BY <1>1, <1>2, CallTypes DEF CallInv
<1>4. CallPages = Block(call.addr, call.order) /\ Pending = {}
  BY <1>1 DEF CallPages, Pages, Pending
<1>5. CallMapped = {}
  <2>1. CASE call.phys
    <3>1. call.i = Size[call.order]
      BY <1>1, <1>3, <2>1
    <3>2. CallMapped = (call.addr + Size[call.order]) .. (call.addr + Size[call.order] - 1)
      BY <1>1, <2>1, <3>1 DEF CallMapped
    <3>3. QED
      BY <1>3, <3>2
  <2>2. CASE ~call.phys
    BY <1>1, <2>2 DEF CallMapped
  <2>3. QED
    BY <2>1, <2>2
<1>6. Stale = {}
  <2> SUFFICES ASSUME call.freed PROVE FALSE
    BY DEF Stale
  <2>1. call.i < Size[call.order] /\ call.phys
    BY <1>1, <1>3 DEF CallInv
  <2>2. QED
    BY <1>1, <2>1
<1>7. CallPages' = {} /\ CallMapped' = {} /\ Stale' = {} /\ Pending' = {}
  BY <1>1 DEF CallPages, CallMapped, Stale, Pending, None
<1>8. PageInv'
  BY <1>1, <1>4, <1>7 DEF PageInv
<1>9. Types'
  BY <1>1, <1>4 DEF Types, PageInv
<1>10. CallInv'
  BY <1>1 DEF CallInv, None
<1>11. MapInv'
  BY <1>1, <1>5, <1>7 DEF MapInv
<1>12. FrameInv'
  BY <1>1, <1>4, <1>6, <1>7 DEF FrameInv, Owned
<1>13. QED
  BY <1>8, <1>9, <1>10, <1>11, <1>12

(* Others take a frame that is free, or give back one of theirs.           *)
LEMMA OthersStep ==
    ASSUME Below4GB, IInv, OthersTake \/ OthersGive
    PROVE  IInv'
<1> USE DEF IInv
<1>1. /\ state = "up" /\ UNCHANGED <<ram, state, vfree, ptab, live, lost, call>>
      /\ pfree' \subseteq pfree \cup others /\ others' \subseteq pfree \cup others
      /\ pfree' \cup others' = pfree \cup others /\ pfree' \cap others' = {}
  <2>1. pfree \cap others = {} /\ state = "up"
    BY DEF OthersTake, OthersGive, FrameInv
  <2>2. CASE OthersTake
    <3>1. PICK f \in alloc_pages(0) : pfree' = pfree \ {f} /\ others' = others \cup {f}
      BY <2>2 DEF OthersTake
    <3>2. f \in pfree
      BY <3>1, AllocPagesFacts
    <3>3. QED
      BY <2>1, <2>2, <3>1, <3>2 DEF OthersTake
  <2>3. CASE OthersGive
    BY <2>1, <2>3 DEF OthersGive
  <2>4. QED
    BY <2>2, <2>3
<1>2. /\ CallPages' = CallPages /\ CallMapped' = CallMapped /\ Stale' = Stale
      /\ Pending' = Pending /\ Owned' = Owned
  BY <1>1 DEF CallPages, CallMapped, Stale, Pending, Owned, Pages
<1>3. Types'
  BY <1>1 DEF Types
<1>4. CallInv' /\ PageInv' /\ MapInv'
  BY <1>1, <1>2 DEF CallInv, PageInv, MapInv
<1>5. FrameInv'
  BY <1>1, <1>2 DEF FrameInv
<1>6. QED
  BY <1>3, <1>4, <1>5

LEMMA InitIInv == Init => IInv
BY SizeFacts DEF Init, IInv, Types, CallInv, None

LEMMA NextIInv == Below4GB /\ IInv /\ [Next]_vars => IInv'
<1> SUFFICES ASSUME Below4GB, IInv, [Next]_vars PROVE IInv'
  OBVIOUS
<1>1. CASE vmspace_init
  BY <1>1, InitStep
<1>2. ASSUME NEW k \in Orders, NEW phys \in BOOLEAN, vmspace_alloc(k, phys) PROVE IInv'
  BY <1>2, AllocStep
<1>3. CASE AllocPhys
  BY <1>3, PhysStep
<1>4. CASE AllocMap
  BY <1>4, MapStep
<1>5. CASE AllocReturn
  BY <1>5, AllocReturnStep
<1>6. ASSUME NEW b \in live, vmspace_free(b) PROVE IInv'
  BY <1>6, FreeStep
<1>7. CASE FreeFrame
  BY <1>7, FreeFrameStep
<1>8. CASE FreeUnmap
  BY <1>8, UnmapStep
<1>9. CASE FreeReturn
  BY <1>9, FreeReturnStep
<1>10. CASE OthersTake \/ OthersGive
  BY <1>10, OthersStep
<1>11. CASE UNCHANGED vars
  <2>1. /\ CallPages' = CallPages /\ CallMapped' = CallMapped /\ Stale' = Stale
        /\ Pending' = Pending /\ Owned' = Owned
    BY <1>11 DEF vars, CallPages, CallMapped, Stale, Pending, Owned, Pages
  <2>2. QED
    BY <1>11, <2>1 DEF vars, IInv, Types, CallInv, PageInv, MapInv, FrameInv
<1>12. QED
  BY <1>1, <1>2, <1>3, <1>4, <1>5, <1>6, <1>7, <1>8, <1>9, <1>10, <1>11
     DEF Next, AllocFull, Stopped

LEMMA Invariance == Below4GB => (Spec => []IInv)
<1> SUFFICES ASSUME Below4GB PROVE Spec => []IInv
  OBVIOUS
<1>1. Init => IInv
  BY InitIInv
<1>2. IInv /\ [Next]_vars => IInv'
  BY NextIInv
<1>3. QED
  BY <1>1, <1>2, PTL DEF Spec

-----------------------------------------------------------------------------
(* What follows                                                            *)

LEMMA PhysPagesFacts ==
    \A v : v \in PhysPages <=> \E b \in live : b.got # NoFrame /\ v \in Pages(b)
BY DEF PhysPages, Pages

LEMMA IInvExclusive ==
    ASSUME Below4GB, IInv
    PROVE  FramesExclusive
<1> USE DEF IInv
<1>1. TypeOK
  <2>1. /\ vfree \subseteq 0 .. (NPages - 1)
    BY SizeFacts DEF Types, Region
  <2>2. ram \subseteq Nat
    BY RamFacts
  <2>3. call # None => call.order \in Orders /\ call.i \in 0 .. Size[call.order]
    BY CallTypes DEF CallInv
  <2>4. QED
    BY <2>1, <2>2, <2>3 DEF Types, TypeOK
<1>2. ASSUME state = "up"
      PROVE  LET inUse == PhysPages \cup Bitmaps
             IN  /\ inUse \subseteq DOMAIN ptab
                 /\ \A v \in inUse :
                       /\ ptab[v] \notin pfree \cup others
                       /\ \A w \in inUse : ptab[v] = ptab[w] => v = w
                 /\ \A b \in {x \in live : x.got # NoFrame} : \A i \in 0 .. (Size[b.order] - 1) :
                       ptab[b.addr + i] = b.got + i
  <2>1. \A v \in PhysPages \cup Bitmaps : v \in DOMAIN ptab
    BY <1>2, PhysPagesFacts DEF MapInv
  <2>2. \A v \in PhysPages \cup Bitmaps : v \notin Stale
    <3> SUFFICES ASSUME NEW v \in Stale PROVE v \notin PhysPages /\ v \notin Bitmaps
      OBVIOUS
    <3>1. call.op = "free" /\ call.freed /\ v = call.addr + call.i
      BY DEF Stale
    <3>2. call # None
      BY <3>1 DEF None
    <3>3. call.i < Size[call.order]
      BY <3>1 DEF CallInv
    <3>4. v \in Pages(call)
      BY <3>1, <3>2, <3>3, CallTypes
    <3>5. v \in CallPages
      BY <3>1, <3>4 DEF CallPages
    <3>6. v \in Region /\ v \notin PhysPages
      BY <1>2, <3>5, PhysPagesFacts DEF PageInv
    <3>7. QED
      BY <3>6, SizeFacts DEF Region, Bitmaps
  <2>3. \A v \in PhysPages \cup Bitmaps : v \in Owned
    BY <2>1, <2>2 DEF Owned
  <2>4. QED
    BY <1>2, <2>1, <2>3 DEF FrameInv
<1>3. QED
  BY <1>1, <1>2 DEF FramesExclusive

LEMMA IInvIdle == IInv => MappedExactly /\ NothingLost
<1> SUFFICES ASSUME IInv, Idle
             PROVE  /\ DOMAIN ptab = PhysPages \cup Bitmaps
                    /\ vfree \cup Bitmaps \cup UNION {Block(b.addr, b.order) : b \in live}
                         = 0 .. (NPages - 1)
                    /\ pfree \cup others \cup lost \cup {ptab[v] : v \in DOMAIN ptab} = ram
  BY DEF MappedExactly, NothingLost
<1> USE DEF IInv
<1>1. state = "up" /\ call = None
  BY DEF Idle
<1>2. CallPages = {} /\ CallMapped = {} /\ Stale = {} /\ Pending = {} /\ Owned = DOMAIN ptab
  BY <1>1 DEF CallPages, CallMapped, Stale, Pending, Owned, None
<1>3. DOMAIN ptab = PhysPages \cup Bitmaps
  BY <1>1, <1>2, PhysPagesFacts DEF MapInv
<1>4. vfree \cup Bitmaps \cup UNION {Block(b.addr, b.order) : b \in live} = 0 .. (NPages - 1)
  <2>1. \A v : v \in 0 .. (NPages - 1) <=> v \in Region \/ v \in Bitmaps
    BY SizeFacts DEF Region, Bitmaps
  <2>2. \A v : v \in Region <=> v \in vfree \/ \E b \in live : v \in Pages(b)
    BY <1>1, <1>2 DEF PageInv, Types
  <2>3. QED
    BY <2>1, <2>2 DEF Pages
<1>5. pfree \cup others \cup lost \cup {ptab[v] : v \in DOMAIN ptab} = ram
  <2>1. \A f : f \in ram <=> f \in pfree \/ f \in others \/ f \in lost
                             \/ \E v \in DOMAIN ptab : ptab[v] = f
    BY <1>1, <1>2 DEF FrameInv, Types
  <2>2. QED
    BY <2>1
<1>6. QED
  BY <1>3, <1>4, <1>5

(* For every region, every size of request and any use of frames by others *)
(* in between: a page that is in use has its frame to itself, at every     *)
(* step of vmspace_alloc and vmspace_free, if all memory is below 4GB.     *)
THEOREM FramesExclusiveAlways == Below4GB => (Spec => []FramesExclusive)
<1> SUFFICES ASSUME Below4GB PROVE Spec => []FramesExclusive
  OBVIOUS
<1>1. IInv => FramesExclusive
  BY IInvExclusive
<1>2. QED
  BY <1>1, Invariance, PTL

(* Between calls of vmspace_alloc and vmspace_free exactly the pages in    *)
(* use are mapped.                                                         *)
THEOREM MappedExactlyAlways == Below4GB => (Spec => []MappedExactly)
<1> SUFFICES ASSUME Below4GB PROVE Spec => []MappedExactly
  OBVIOUS
<1>1. IInv => MappedExactly
  BY IInvIdle
<1>2. QED
  BY <1>1, Invariance, PTL

(* vmspace_alloc and vmspace_free lose no page and no frame.               *)
THEOREM NothingLostAlways == Below4GB => (Spec => []NothingLost)
<1> SUFFICES ASSUME Below4GB PROVE Spec => []NothingLost
  OBVIOUS
<1>1. IInv => NothingLost
  BY IInvIdle
<1>2. QED
  BY <1>1, Invariance, PTL

(* The panics of map, unmap and vmspace_free about pages that are mapped   *)
(* twice or not at all are never reached.                                  *)
THEOREM OnlyOutOfMemoryAlways == Below4GB => (Spec => []OnlyOutOfMemory)
<1> SUFFICES ASSUME Below4GB PROVE Spec => []OnlyOutOfMemory
  OBVIOUS
<1>1. IInv => OnlyOutOfMemory
  BY DEF IInv, Types, OnlyOutOfMemory
<1>2. QED
  BY <1>1, Invariance, PTL
=============================================================================
