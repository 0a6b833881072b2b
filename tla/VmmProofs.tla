----------------------------- MODULE VmmProofs -----------------------------
(***************************************************************************)
(* Proofs about the virtual memory manager (Vmm), for any size of tables,  *)
(* any memory below 4GB, any flags and any number of clones.  Three        *)
(* hypotheses: calls of map and unmap stay within the pages that callers   *)
(* may map; the TLB keeps no translation of the second window, which the   *)
(* code does not flush ("FIXME: invlpg" in clone_address_space); and no    *)
(* frame is above 4GB, where the code would cut its address (Below4GB).    *)
(***************************************************************************)
EXTENDS Vmm, TLAPS, WellFoundedInduction

(* The place of a page in the address space.                               *)
Linear(v) == v[1] * N + v[2]

Room(v, n) ==
    \A w \in Pages : Linear(v) <= Linear(w) /\ Linear(w) < Linear(v) + n => w \in FreelyMapped

InRange == \A v \in CallerPages : Room(v, MaxPages)

SecondWindowUncached ==
    \A v \in Cached : v[1] # RPDT_BASE2 /\ v # TablePage(RPDT_BASE, RPDT_BASE2)

-----------------------------------------------------------------------------
(* The inductive invariant                                                 *)

Lower == 0 .. (KernelEnd - 1)

(* init_virtual_memory has put the first window into place.                *)
Started == state # "boot" \/ call # None

Last == spaces[Len(spaces)]

(* The entries of a directory that have been filled in.                    *)
Filled(a) == IF Complete(a) THEN Lower ELSE 0 .. (call.d - 1)

Types ==
    /\ state \in {"boot", "up", "panic", "wild"}
    /\ mem \in [Frames -> [Slots -> EntryType]]
    /\ cr3 = BootDir
    /\ current \in Frames \cup {-1}
    /\ tlb \subseteq Cached \X Nat
    /\ pool \in Pools /\ free \subseteq pool
    /\ spaces \in Seq(pool)

Calls ==
    {None} \cup [op : {"init"}, d : KernelStart .. KernelEnd]
           \cup [op : {"clone"}, d : 0 .. KernelEnd, cow : BOOLEAN]
           \cup [op : {"unmap"}, v : Pages, n : 0 .. MaxPages]
           \cup [op : {"map"}, v : Pages, p : Nat, n : 0 .. MaxPages, flags : MapFlags]

(* A call of map or unmap is within the pages that callers map, and has    *)
(* come to the next page and frame.                                        *)
CallInv ==
    /\ call \in Calls
    /\ state = "boot" => spaces = <<>> /\ call.op \in {"none", "init"}
    /\ state = "up" => call.op # "init"
    /\ call.op = "clone" => spaces # <<>>
    /\ call.op \in {"map", "unmap"} => Room(call.v, call.n)
    /\ call.op = "map" =>
          \E p \in DataFrames, i \in 0 .. MaxPages : call.p = p + i /\ i + call.n <= MaxPages

(* The windows: the directory is an entry of itself, and so is the         *)
(* directory of the latest clone, which is in the second window.           *)
WindowInv ==
    /\ ~Started => ~Present(mem[BootDir][RPDT_BASE])
    /\ Started => mem[BootDir][RPDT_BASE] = Entry(BootDir, {"write"})
    /\ spaces = <<>> => ~Present(mem[BootDir][RPDT_BASE2])
    /\ spaces # <<>> =>
          /\ mem[BootDir][RPDT_BASE2] = Entry(Last, {"write"})
          /\ mem[Last][RPDT_BASE] = Entry(Last, {"write"})

(* Directories and tables are frames that were handed out, for one of      *)
(* these uses each; but for the loader's table a table has one place.      *)
FrameInv ==
    /\ \A n \in DOMAIN spaces : spaces[n] \notin free
    /\ \A i \in Lower : i \in BootSlots <=>
          Present(mem[BootDir][i]) /\ mem[BootDir][i].frame = BootTable
    /\ \A a \in Directories : \A i \in Filled(a) : Present(mem[a][i]) =>
          /\ mem[a][i].frame \in (pool \ free) \cup {BootTable}
          /\ mem[a][i].frame \notin Directories
          /\ \A b \in Directories : \A j \in Filled(b) :
                Present(mem[b][j]) /\ mem[a][i].frame = mem[b][j].frame
                    /\ mem[a][i].frame # BootTable
                => a = b /\ i = j

(* Every frame that was handed out is in use.                              *)
UseInv ==
    \A f \in pool \ free :
        \/ f \in Directories
        \/ \E a \in Directories : \E i \in Filled(a) : Present(mem[a][i]) /\ mem[a][i].frame = f

TlbInv == \A x \in tlb : Present(Walk(x[1])) /\ Walk(x[1]).frame = x[2]

IInv ==
    /\ Types
    /\ CallInv
    /\ WindowInv
    /\ FrameInv
    /\ UseInv
    /\ TlbInv

-----------------------------------------------------------------------------
(* Facts about constants, entries and sets                                 *)

(* A set of natural numbers that is not empty has a least element.         *)
LEMMA LeastNatural ==
    ASSUME NEW T, T \subseteq Nat, T # {}
    PROVE  \E x \in T : \A y \in T : x <= y
<1>1. IsWellFoundedOn(OpToRel(<, Nat), Nat)
  BY NatLessThanWellFounded
<1>2. PICK x \in T : \A y \in T : ~(<<y, x>> \in OpToRel(<, Nat))
  BY <1>1, WFMin
<1>3. \A y \in T : ~(y < x)
  BY <1>2 DEF OpToRel
<1> QED BY <1>3

LEMMA MinMember ==
    ASSUME NEW T, T \subseteq Nat, T # {}
    PROVE  Min(T) \in T
BY LeastNatural DEF Min

LEMMA Geometry ==
    /\ N \in Nat /\ N >= 4
    /\ KernelStart \in Lower /\ KernelStart \in 1 .. (N - 3)
    /\ RPDT_BASE \in Slots /\ RPDT_BASE2 \in Slots
    /\ RPDT_BASE \notin Lower /\ RPDT_BASE2 \notin Lower /\ RPDT_BASE # RPDT_BASE2
    /\ Slots = Lower \cup {RPDT_BASE, RPDT_BASE2}
    /\ BootSlots \subseteq Lower
BY VmmAssumption DEF Lower, KernelEnd, RPDT_BASE, RPDT_BASE2, Slots, BootSlots

LEMMA FrameFacts ==
    /\ Frames \subseteq Nat
    /\ BootDir \in Frames /\ BootTable \in Frames /\ BootDir # BootTable
    /\ \A q \in Pools : q \subseteq Frames /\ q \subseteq Nat /\ BootDir \notin q /\ BootTable \notin q
<1>1. PoolFrames \subseteq Nat /\ BootDir \notin PoolFrames /\ BootTable \notin PoolFrames
  BY VmmAssumption, Geometry DEF BootDir, BootTable, Slots
<1> QED BY <1>1 DEF Frames, PoolFrames, BootDir, BootTable

(* Below 4GB nothing is lost of an address.                                *)
LEMMA CutFacts ==
    ASSUME Below4GB
    PROVE  /\ \A f \in Nat : f < FrameLimit => cut(f) = f
           /\ \A q \in Pools : \A f \in q : cut(f) = f
<1>1. \A f \in Nat : f < FrameLimit => cut(f) = f
  BY VmmAssumption DEF cut
<1>2. ASSUME NEW q \in Pools, NEW f \in q PROVE cut(f) = f
  BY <1>1, FrameFacts DEF Below4GB, PoolFrames
<1> QED BY <1>1, <1>2

LEMMA EntryFacts ==
    /\ \A f \in Nat, flags \in SUBSET Flags : Entry(f, flags) \in EntryType
    /\ \A f, flags : Entry(f, flags).frame = f /\ Present(Entry(f, flags))
    /\ Zero \in EntryType /\ ~Present(Zero)
    /\ ZeroPage \in [Slots -> EntryType]
    /\ \A i \in Slots : ~Present(ZeroPage[i])
BY DEF Entry, EntryType, Present, Zero, Flags, ZeroPage

LEMMA FlagFacts ==
    /\ {"write"} \in SUBSET Flags /\ {"write", "user"} \in SUBSET Flags
    /\ \A flags \in MapFlags : EntryFlags(flags) \in SUBSET Flags
BY VmmAssumption DEF Flags, EntryFlags

(* A multiple of a number leaves no remainder.                             *)
LEMMA MultipleMod ==
    ASSUME NEW a \in Nat \ {0}, NEW b \in Nat
    PROVE  (a * b) % a = 0
OBVIOUS

(* The scaled address wraps to 0, so every entry counts as user-mode.      *)
LEMMA AllUser == \A d \in Nat : is_user(d)
<1> SUFFICES ASSUME NEW d \in Nat PROVE is_user(d)
  OBVIOUS
<1> DEFINE pt == PAGE_TABLE_SIZE
<1>1. N \in Nat \ {0} /\ KernelStart \in Nat \ {0}
  BY Geometry
<1>2. pt \in Nat \ {0} /\ pt = 4 * N * N
  BY <1>1 DEF PAGE_TABLE_SIZE, PAGE_SIZE
<1>3. SpaceBytes = pt * N /\ SpaceBytes \in Nat \ {0}
  BY <1>1, <1>2 DEF SpaceBytes
<1>4. pt * (d * pt) = SpaceBytes * (4 * N * d)
  <2>1. pt * (d * pt) = (pt * N) * (4 * N * d)
    BY <1>1, <1>2
  <2> QED BY <2>1, <1>3
<1>5. 4 * N * d \in Nat
  BY <1>1
<1>6. (pt * (d * pt)) % SpaceBytes = 0
  BY <1>3, <1>4, <1>5, MultipleMod
<1>7. ~(0 >= KernelStart * pt)
  BY <1>1, <1>2
<1>8. ~((pt * (d * pt)) % SpaceBytes >= KernelStart * pt)
  BY <1>6, <1>7, Zenon
<1> QED BY <1>8, Zenon DEF is_user, IS_KERNEL_ADDR

-----------------------------------------------------------------------------
(* The windows                                                             *)

(* A directory is a frame that was handed out, and the loader's is never   *)
(* being filled in.                                                        *)
LEMMA DirectoryFacts ==
    ASSUME Types, CallInv, FrameInv
    PROVE  /\ pool \subseteq Frames /\ BootDir \notin pool /\ BootTable \notin pool
           /\ \A a \in Directories : a \in Frames /\ a \notin free
           /\ \A a \in Directories : a # BootDir => a \in pool
           /\ Complete(BootDir) /\ Filled(BootDir) = Lower
           /\ \A a \in Directories : Filled(a) \subseteq Lower
           /\ spaces # <<>> => Last \in Directories /\ Last \in pool /\ Last # BootDir
<1>1. pool \subseteq Frames /\ BootDir \notin pool /\ BootTable \notin pool
  BY FrameFacts DEF Types
<1>2. \A n \in DOMAIN spaces : spaces[n] \in pool /\ spaces[n] \notin free
  BY DEF Types, FrameInv
<1>3. spaces # <<>> => Len(spaces) \in DOMAIN spaces
  BY DEF Types
<1>4. spaces # <<>> => Last \in Directories /\ Last \in pool /\ Last # BootDir
  BY <1>1, <1>2, <1>3 DEF Last, Directories
<1>5. Complete(BootDir)
  BY <1>4 DEF Complete, Last, CallInv
<1>6. \A a \in Directories : Filled(a) \subseteq Lower
  <2> SUFFICES ASSUME NEW a \in Directories, ~Complete(a) PROVE Filled(a) \subseteq Lower
    BY DEF Filled
  <2>1. call.d \in 0 .. KernelEnd
    BY DEF Complete, CallInv, Calls, None
  <2> QED BY <2>1, Geometry DEF Filled, Lower, KernelEnd, RPDT_BASE2
<1>7. \A a \in Directories : a \in Frames /\ a \notin free
  BY <1>1, <1>2, FrameFacts DEF Directories, Types
<1>8. \A a \in Directories : a # BootDir => a \in pool
  BY <1>2 DEF Directories
<1> QED BY <1>1, <1>4, <1>5, <1>6, <1>7, <1>8 DEF Filled

(* What an entry of the current directory leads to.                        *)
LEMMA BootEntries ==
    ASSUME IInv, NEW i \in Slots, Present(mem[BootDir][i])
    PROVE  /\ mem[BootDir][i].frame \in Frames
           /\ mem[BootDir][i].frame \notin free
           /\ i \in Lower => /\ mem[BootDir][i].frame \notin Directories
                             /\ mem[BootDir][i].frame \in pool \cup {BootTable}
           /\ i = RPDT_BASE => mem[BootDir][i].frame = BootDir
           /\ i = RPDT_BASE2 => spaces # <<>> /\ mem[BootDir][i].frame = Last
<1>1. /\ BootDir \in Directories /\ Filled(BootDir) = Lower /\ BootTable \in Frames /\ BootTable \notin free
      /\ pool \subseteq Frames /\ BootDir \in Frames /\ BootDir \notin free
      /\ spaces # <<>> => Last \in Frames /\ Last \notin free
  BY DirectoryFacts, FrameFacts DEF IInv, Directories, Types
<1>2. CASE i \in Lower
  BY <1>1, <1>2, Geometry DEF IInv, FrameInv
<1>3. CASE i = RPDT_BASE
  BY <1>1, <1>3, EntryFacts, Geometry DEF IInv, WindowInv
<1>4. CASE i = RPDT_BASE2
  BY <1>1, <1>4, EntryFacts, Geometry DEF IInv, WindowInv
<1> QED BY <1>2, <1>3, <1>4, Geometry

(* Walking from the current directory, in m.                               *)
LEMMA WalkFacts ==
    ASSUME IInv, NEW v \in Pages
    PROVE  /\ v[1] \in Slots /\ v[2] \in Slots
           /\ Walk(v) = IF Present(mem[BootDir][v[1]])
                        THEN mem[mem[BootDir][v[1]].frame][v[2]] ELSE Zero
<1>1. v[1] \in Slots /\ v[2] \in Slots
  BY DEF Pages
<1> QED BY <1>1, BootEntries DEF Walk, WalkIn, IInv, Types

LEMMA WindowDir ==
    ASSUME IInv, Started
    PROVE  Dir(mem, RPDT_BASE) = {BootDir}
<1> DEFINE v == <<RPDT_BASE, RPDT_BASE>>
<1>1. mem[BootDir][RPDT_BASE] = Entry(BootDir, {"write"})
  BY DEF IInv, WindowInv
<1>2. WalkIn(mem, v) = Entry(BootDir, {"write"})
  BY <1>1, EntryFacts, FrameFacts DEF WalkIn, IInv, Types
<1>3. \A x \in tlb : x[1] = v => x[2] = BootDir
  BY <1>2, EntryFacts DEF IInv, TlbInv, Walk
<1> QED BY <1>2, <1>3, EntryFacts DEF Dir, DirPage, Translations

(* The first window shows the tables of the directory in m, if the TLB     *)
(* holds nothing else.                                                     *)
LEMMA WindowTableIn ==
    ASSUME IInv, NEW m, NEW d \in Slots,
           m[BootDir][RPDT_BASE] = Entry(BootDir, {"write"}),
           Present(m[BootDir][d]),
           \A x \in tlb : x[1] = <<RPDT_BASE, d>> => x[2] = m[BootDir][d].frame
    PROVE  Table(m, RPDT_BASE, d) = {m[BootDir][d].frame}
<1>1. WalkIn(m, <<RPDT_BASE, d>>) = m[BootDir][d]
  BY EntryFacts, FrameFacts DEF WalkIn, IInv, Types
<1> QED BY <1>1 DEF Table, TablePage, Translations

LEMMA WindowTlb ==
    ASSUME IInv, Started, NEW d \in Slots, NEW x \in tlb, x[1] = <<RPDT_BASE, d>>
    PROVE  Present(mem[BootDir][d]) /\ x[2] = mem[BootDir][d].frame
<1>1. mem[BootDir][RPDT_BASE] = Entry(BootDir, {"write"})
  BY DEF IInv, WindowInv
<1>2. Walk(x[1]) = mem[BootDir][d]
  BY <1>1, EntryFacts, FrameFacts DEF Walk, WalkIn, IInv, Types
<1> QED BY <1>2 DEF IInv, TlbInv

LEMMA WindowTable ==
    ASSUME IInv, Started, NEW d \in Slots, Present(mem[BootDir][d])
    PROVE  Table(mem, RPDT_BASE, d) = {mem[BootDir][d].frame}
<1>1. mem[BootDir][RPDT_BASE] = Entry(BootDir, {"write"})
  BY DEF IInv, WindowInv
<1>2. \A x \in tlb : x[1] = <<RPDT_BASE, d>> => x[2] = mem[BootDir][d].frame
  BY WindowTlb
<1> QED BY <1>1, <1>2, WindowTableIn

LEMMA TablePresent ==
    ASSUME IInv, Started, NEW d
    PROVE  HasTable(d) <=> Present(mem[BootDir][d])
BY WindowDir DEF HasTable

-----------------------------------------------------------------------------
(* Steps that change tables                                                *)

(* The TLB stays right if no entry that it has come from is changed.       *)
LEMMA TlbKept ==
    ASSUME IInv, SecondWindowUncached, tlb' \subseteq tlb, cr3' = cr3,
           \A i \in Slots \ {RPDT_BASE2} :
              Present(mem[BootDir][i]) => mem'[BootDir][i] = mem[BootDir][i],
           \A i \in Lower, j \in Slots :
              Present(mem[BootDir][i]) /\ (\E x \in tlb' : x[1] = <<i, j>>)
              => mem'[mem[BootDir][i].frame][j] = mem[mem[BootDir][i].frame][j]
    PROVE  TlbInv'
<1> SUFFICES ASSUME NEW x \in tlb'
             PROVE  Present(Walk(x[1])') /\ Walk(x[1])'.frame = x[2]
  BY DEF TlbInv
<1> DEFINE v == x[1]
<1>1. v \in Pages /\ v[1] \in Slots /\ v[2] \in Slots /\ v = <<v[1], v[2]>>
      /\ v[1] # RPDT_BASE2 /\ v # <<RPDT_BASE, RPDT_BASE2>>
  BY VmmAssumption DEF SecondWindowUncached, IInv, Types, Pages, TablePage
<1>2. Present(Walk(v)) /\ Walk(v).frame = x[2]
  BY DEF IInv, TlbInv
<1>3. Present(mem[BootDir][v[1]]) /\ Walk(v) = mem[mem[BootDir][v[1]].frame][v[2]]
  BY <1>1, <1>2, WalkFacts, EntryFacts
<1>4. mem[BootDir][v[1]].frame \in Frames /\ mem'[BootDir][v[1]] = mem[BootDir][v[1]]
  BY <1>1, <1>3, BootEntries
<1>5. Walk(v)' = mem'[mem[BootDir][v[1]].frame][v[2]]
  BY <1>1, <1>3, <1>4 DEF Walk, WalkIn, IInv, Types
<1>6. CASE v[1] \in Lower
  BY <1>1, <1>2, <1>3, <1>5, <1>6
<1>7. CASE v[1] = RPDT_BASE
  <2>1. mem[BootDir][v[1]].frame = BootDir
    BY <1>1, <1>3, <1>7, BootEntries
  <2>2. v[2] # RPDT_BASE2
    BY <1>1, <1>7
  <2> QED BY <1>1, <1>2, <1>3, <1>5, <2>1, <2>2
<1> QED BY <1>1, <1>6, <1>7, Geometry

(* A new table: a free frame, cleared, at an entry that was not present.   *)
LEMMA NewTableEffect ==
    ASSUME IInv, Below4GB, Started, NEW d \in Lower, NEW flags \in SUBSET Flags,
           free # {}, ~Present(mem[BootDir][d]), NewTable(d, flags)
    PROVE  \E t \in free :
              /\ free' = free \ {t}
              /\ mem' \in [Frames -> [Slots -> EntryType]]
              /\ mem'[BootDir][d] = Entry(t, flags)
              /\ \A i \in Slots \ {d} : mem'[BootDir][i] = mem[BootDir][i]
              /\ mem'[t] = ZeroPage
              /\ \A f \in Frames \ {BootDir, t} : mem'[f] = mem[f]
<1> DEFINE t == Min(free)
           m == [mem EXCEPT ![BootDir][d] = Entry(t, flags)]
<1>1. t \in free /\ t \in Frames /\ t \in Nat /\ t # BootDir /\ cut(t) = t
  <2>1. t \in free
    BY MinMember, FrameFacts DEF IInv, Types
  <2> QED BY <2>1, CutFacts, FrameFacts DEF IInv, Types
<1>2. PICK z \in Table(m, RPDT_BASE, d) : mem' = [m EXCEPT ![z] = ZeroPage] /\ free' = free \ {t}
  BY <1>1, WindowDir DEF NewTable
<1>3. mem \in [Frames -> [Slots -> EntryType]] /\ BootDir \in Frames
  BY FrameFacts DEF IInv, Types
<1>4. d \in Slots /\ d # RPDT_BASE /\ RPDT_BASE \in Slots
  BY Geometry
<1>5. /\ m \in [Frames -> [Slots -> EntryType]]
      /\ m[BootDir][d] = Entry(t, flags)
      /\ \A i \in Slots \ {d} : m[BootDir][i] = mem[BootDir][i]
      /\ \A f \in Frames \ {BootDir} : m[f] = mem[f]
  BY <1>1, <1>3, <1>4, EntryFacts
<1> HIDE DEF m
<1>6. z = t
  <2>1. m[BootDir][RPDT_BASE] = Entry(BootDir, {"write"})
    BY <1>4, <1>5 DEF IInv, WindowInv
  <2>2. \A x \in tlb : x[1] # <<RPDT_BASE, d>>
    BY <1>4, WindowTlb
  <2>3. Present(m[BootDir][d])
    BY <1>5, EntryFacts
  <2>4. \A x \in tlb : x[1] = <<RPDT_BASE, d>> => x[2] = m[BootDir][d].frame
    BY <2>2
  <2>5. Table(m, RPDT_BASE, d) = {m[BootDir][d].frame}
    BY <1>4, <2>1, <2>3, <2>4, WindowTableIn
  <2> QED BY <1>2, <1>5, <2>5, EntryFacts
<1> HIDE DEF t
<1>7. mem' = [m EXCEPT ![t] = ZeroPage]
  BY <1>2, <1>6
<1>8. /\ mem' \in [Frames -> [Slots -> EntryType]]
      /\ mem'[t] = ZeroPage
      /\ \A f \in Frames \ {t} : mem'[f] = m[f]
  BY <1>1, <1>5, <1>7, EntryFacts
<1>9. /\ mem'[BootDir] = m[BootDir]
      /\ \A f \in Frames \ {BootDir, t} : mem'[f] = mem[f]
  BY <1>1, <1>3, <1>5, <1>8
<1> QED BY <1>1, <1>2, <1>5, <1>8, <1>9

LEMMA NewTableStep ==
    ASSUME IInv, SecondWindowUncached, Below4GB, Started, Started',
           NEW d \in Lower, NEW flags \in SUBSET Flags,
           free # {}, ~Present(mem[BootDir][d]), NewTable(d, flags),
           call.op # "clone", call'.op # "clone",
           UNCHANGED <<state, pool, cr3, current, tlb, spaces>>
    PROVE  Types' /\ WindowInv' /\ FrameInv' /\ UseInv' /\ TlbInv'
<1>1. PICK t \in free :
         /\ free' = free \ {t}
         /\ mem' \in [Frames -> [Slots -> EntryType]]
         /\ mem'[BootDir][d] = Entry(t, flags)
         /\ \A i \in Slots \ {d} : mem'[BootDir][i] = mem[BootDir][i]
         /\ mem'[t] = ZeroPage
         /\ \A f \in Frames \ {BootDir, t} : mem'[f] = mem[f]
  BY NewTableEffect
<1>2. Directories' = Directories /\ Last' = Last
  BY DEF Directories, Last
<1>3. \A a : Filled(a) = Lower /\ Filled(a)' = Lower
  BY DEF Filled, Complete, Lower
<1>4. /\ t \in pool /\ t \in Frames /\ t # BootDir /\ t # BootTable /\ t \notin Directories
      /\ BootDir \in Directories
  BY <1>1, DirectoryFacts DEF IInv, Types, Directories
<1>5. d \notin BootSlots
  BY DEF IInv, FrameInv
<1>6. mem'[BootDir][d].frame = t /\ Present(mem'[BootDir][d])
  BY <1>1, EntryFacts
<1>7. \A a \in Directories : a \in Frames /\ a # t
  BY <1>4, DirectoryFacts DEF IInv
<1>8. \A a \in Directories, i \in Slots : ~(a = BootDir /\ i = d) => mem'[a][i] = mem[a][i]
  BY <1>1, <1>7
<1>9. Types'
  BY <1>1 DEF IInv, Types
<1>10. WindowInv'
  BY <1>2, <1>8, <1>4, Geometry, DirectoryFacts DEF IInv, WindowInv
<1>11. FrameInv'
  <2>1. \A n \in DOMAIN spaces : spaces'[n] \notin free'
    BY <1>1 DEF IInv, FrameInv
  <2>2. \A i \in Lower : i \in BootSlots <=>
          Present(mem'[BootDir][i]) /\ mem'[BootDir][i].frame = BootTable
    BY <1>4, <1>5, <1>6, <1>8, Geometry DEF IInv, FrameInv
  <2>3. ASSUME NEW a \in Directories, NEW i \in Lower, Present(mem[a][i])
        PROVE  /\ mem[a][i].frame \in (pool \ free) \cup {BootTable}
               /\ mem[a][i].frame \notin Directories
               /\ \A b \in Directories, j \in Lower :
                     Present(mem[b][j]) /\ mem[a][i].frame = mem[b][j].frame
                        /\ mem[a][i].frame # BootTable
                     => a = b /\ i = j
    BY <1>3, <2>3 DEF IInv, FrameInv
  <2>4. ASSUME NEW a \in Directories, NEW i \in Lower, Present(mem'[a][i])
        PROVE  /\ mem'[a][i].frame \in (pool \ free') \cup {BootTable}
               /\ mem'[a][i].frame \notin Directories
               /\ \A b \in Directories, j \in Lower :
                     Present(mem'[b][j]) /\ mem'[a][i].frame = mem'[b][j].frame
                        /\ mem'[a][i].frame # BootTable
                     => a = b /\ i = j
    BY <1>1, <1>4, <1>6, <1>8, <2>3, <2>4, Geometry
  <2> QED BY <1>2, <1>3, <2>1, <2>2, <2>4 DEF FrameInv
<1>12. UseInv'
  <2> SUFFICES ASSUME NEW f \in pool \ free', f \notin Directories
               PROVE  \E a \in Directories : \E i \in Lower : Present(mem'[a][i]) /\ mem'[a][i].frame = f
    BY <1>2, <1>3 DEF UseInv
  <2>1. CASE f = t
    BY <1>4, <1>6, <2>1
  <2>2. CASE f # t
    <3>1. PICK a \in Directories, i \in Lower : Present(mem[a][i]) /\ mem[a][i].frame = f
      BY <1>1, <1>3, <2>2 DEF IInv, UseInv
    <3> QED BY <1>8, <3>1, Geometry
  <2> QED BY <2>1, <2>2
<1>13. TlbInv'
  <2>1. \A i \in Slots \ {RPDT_BASE2} :
           Present(mem[BootDir][i]) => mem'[BootDir][i] = mem[BootDir][i]
    BY <1>4, <1>8
  <2>2. \A i \in Lower, j \in Slots :
           Present(mem[BootDir][i]) => mem'[mem[BootDir][i].frame] = mem[mem[BootDir][i].frame]
    BY <1>1, <1>4, BootEntries, Geometry
  <2> QED BY <2>1, <2>2, TlbKept
<1> QED BY <1>9, <1>10, <1>11, <1>12, <1>13

(* The table of a page that callers map belongs to no other page.          *)
LEMMA OwnTable ==
    ASSUME IInv, NEW v \in FreelyMapped, Present(mem[BootDir][v[1]])
    PROVE  /\ v[1] \in Lower /\ v[2] \in Slots /\ v = <<v[1], v[2]>>
           /\ mem[BootDir][v[1]].frame \in Frames
           /\ mem[BootDir][v[1]].frame \notin Directories
           /\ \A i \in Lower :
                 Present(mem[BootDir][i]) /\ mem[BootDir][i].frame = mem[BootDir][v[1]].frame
                 => i = v[1]
<1>1. v[1] \in Lower /\ v[1] \notin BootSlots /\ v[2] \in Slots /\ v = <<v[1], v[2]>>
  BY Geometry DEF FreelyMapped, Pages, Lower, Slots, KernelEnd
<1>2. /\ mem[BootDir][v[1]].frame \in Frames
      /\ mem[BootDir][v[1]].frame \notin Directories
  BY <1>1, BootEntries, Geometry
<1>3. mem[BootDir][v[1]].frame # BootTable
  BY <1>1 DEF IInv, FrameInv
<1>4. BootDir \in Directories /\ Filled(BootDir) = Lower
  BY DirectoryFacts DEF IInv, Directories
<1> QED BY <1>1, <1>2, <1>3, <1>4 DEF IInv, FrameInv

(* One entry of a table is written.                                        *)
LEMMA WriteStep ==
    ASSUME IInv, SecondWindowUncached, Started, Started',
           NEW v \in FreelyMapped, Present(mem[BootDir][v[1]]),
           NEW t \in Frames, t = mem[BootDir][v[1]].frame,
           mem' \in [Frames -> [Slots -> EntryType]],
           \A f \in Frames \ {t} : mem'[f] = mem[f],
           \A j \in Slots \ {v[2]} : mem'[t][j] = mem[t][j],
           tlb' \subseteq tlb, \A x \in tlb' : x[1] # v,
           call.op # "clone", call'.op # "clone",
           UNCHANGED <<state, pool, cr3, current, free, spaces>>
    PROVE  Types' /\ WindowInv' /\ FrameInv' /\ UseInv' /\ TlbInv'
<1>1. /\ t \notin Directories
      /\ \A i \in Lower : Present(mem[BootDir][i]) /\ mem[BootDir][i].frame = t => i = v[1]
  BY OwnTable
<1>2. v[1] \in Lower /\ v[2] \in Slots /\ v = <<v[1], v[2]>>
  BY OwnTable
<1>6. Directories' = Directories /\ Last' = Last
  BY DEF Directories, Last
<1>7. \A a : Filled(a) = Lower /\ Filled(a)' = Lower
  BY DEF Filled, Complete, Lower
<1>8. \A a \in Directories : mem'[a] = mem[a]
  BY <1>1, DirectoryFacts DEF IInv
<1>9. BootDir \in Directories /\ (spaces # <<>> => Last \in Directories)
  BY DirectoryFacts DEF IInv, Directories
<1>10. Types'
  BY DEF IInv, Types
<1>11. WindowInv'
  BY <1>6, <1>8, <1>9 DEF IInv, WindowInv
<1>12. FrameInv'
  <2>1. \A i \in Lower : i \in BootSlots <=>
          Present(mem'[BootDir][i]) /\ mem'[BootDir][i].frame = BootTable
    BY <1>8, <1>9 DEF IInv, FrameInv
  <2>2. ASSUME NEW a \in Directories, NEW i \in Lower, Present(mem'[a][i])
        PROVE  /\ mem'[a][i].frame \in (pool \ free) \cup {BootTable}
               /\ mem'[a][i].frame \notin Directories
               /\ \A b \in Directories, j \in Lower :
                     Present(mem'[b][j]) /\ mem'[a][i].frame = mem'[b][j].frame
                        /\ mem'[a][i].frame # BootTable
                     => a = b /\ i = j
    <3>1. /\ mem[a][i].frame \in (pool \ free) \cup {BootTable}
          /\ mem[a][i].frame \notin Directories
          /\ \A b \in Directories, j \in Lower :
                Present(mem[b][j]) /\ mem[a][i].frame = mem[b][j].frame
                   /\ mem[a][i].frame # BootTable
                => a = b /\ i = j
      BY <1>7, <1>8, <2>2 DEF IInv, FrameInv
    <3> QED BY <1>8, <3>1
  <2>3. \A n \in DOMAIN spaces : spaces'[n] \notin free'
    BY DEF IInv, FrameInv
  <2> QED BY <1>6, <1>7, <2>1, <2>2, <2>3 DEF FrameInv
<1>13. UseInv'
  BY <1>6, <1>7, <1>8 DEF IInv, UseInv
<1>14. TlbInv'
  <2>1. \A i \in Slots \ {RPDT_BASE2} :
           Present(mem[BootDir][i]) => mem'[BootDir][i] = mem[BootDir][i]
    BY <1>8, <1>9
  <2>2. ASSUME NEW i \in Lower, NEW j \in Slots, Present(mem[BootDir][i]),
               NEW x \in tlb', x[1] = <<i, j>>
        PROVE  mem'[mem[BootDir][i].frame][j] = mem[mem[BootDir][i].frame][j]
    <3>1. mem[BootDir][i].frame = t => j # v[2]
      BY <1>1, <1>2, <2>2
    <3>2. mem[BootDir][i].frame \in Frames
      BY <2>2, BootEntries, Geometry
    <3> QED BY <3>1, <3>2
  <2> QED BY <2>1, <2>2, TlbKept
<1> QED BY <1>10, <1>11, <1>12, <1>13, <1>14

-----------------------------------------------------------------------------
(* Cloning                                                                 *)

(* A new directory is put into the second window.                          *)
LEMMA CloneEffect ==
    ASSUME IInv, SecondWindowUncached, Below4GB, NEW cow \in BOOLEAN, clone_address_space(cow), state' # "wild"
    PROVE  /\ UNCHANGED <<state, pool, cr3, current, tlb>>
           /\ call' = [op |-> "clone", d |-> 0, cow |-> cow]
           /\ \E p \in free :
                 /\ free' = free \ {p}
                 /\ spaces' = Append(spaces, p)
                 /\ mem' \in [Frames -> [Slots -> EntryType]]
                 /\ mem'[BootDir][RPDT_BASE2] = Entry(p, {"write"})
                 /\ \A i \in Slots \ {RPDT_BASE2} : mem'[BootDir][i] = mem[BootDir][i]
                 /\ mem'[p][RPDT_BASE] = Entry(p, {"write"})
                 /\ \A f \in Frames \ {BootDir, p} : mem'[f] = mem[f]
<1> DEFINE p == Min(free)
           m == [mem EXCEPT ![BootDir][RPDT_BASE2] = Entry(p, {"write"})]
<1>1. Started /\ free # {} /\ UNCHANGED <<state, pool, cr3, current, tlb>>
  BY DEF clone_address_space, CloneWild, Started, Idle
<1>2. p \in free /\ p \in Frames /\ p \in Nat /\ p # BootDir /\ cut(p) = p
  <2>1. p \in free
    BY <1>1, MinMember, FrameFacts DEF IInv, Types
  <2> QED BY <2>1, CutFacts, FrameFacts DEF IInv, Types
<1>3. PICK new \in Table(m, RPDT_BASE, RPDT_BASE2) :
         /\ mem' = [m EXCEPT ![new][RPDT_BASE] = Entry(p, {"write"})]
         /\ free' = free \ {p}
         /\ spaces' = Append(spaces, p)
         /\ call' = [op |-> "clone", d |-> 0, cow |-> cow]
  BY <1>1, <1>2, WindowDir DEF clone_address_space, CloneWild
<1>4. mem \in [Frames -> [Slots -> EntryType]] /\ BootDir \in Frames
  BY FrameFacts DEF IInv, Types
<1>5. /\ m \in [Frames -> [Slots -> EntryType]]
      /\ m[BootDir][RPDT_BASE2] = Entry(p, {"write"})
      /\ \A i \in Slots \ {RPDT_BASE2} : m[BootDir][i] = mem[BootDir][i]
      /\ \A f \in Frames \ {BootDir} : m[f] = mem[f]
  BY <1>2, <1>4, EntryFacts, FlagFacts, Geometry
<1> HIDE DEF m
<1>6. new = p
  <2>1. m[BootDir][RPDT_BASE] = Entry(BootDir, {"write"})
    BY <1>1, <1>5, Geometry DEF IInv, WindowInv
  <2>2. \A x \in tlb : x[1] # <<RPDT_BASE, RPDT_BASE2>>
    BY DEF SecondWindowUncached, IInv, Types, TablePage
  <2>3. Present(m[BootDir][RPDT_BASE2])
    BY <1>5, EntryFacts
  <2>4. \A x \in tlb : x[1] = <<RPDT_BASE, RPDT_BASE2>> => x[2] = m[BootDir][RPDT_BASE2].frame
    BY <2>2
  <2>5. Table(m, RPDT_BASE, RPDT_BASE2) = {m[BootDir][RPDT_BASE2].frame}
    BY <2>1, <2>3, <2>4, WindowTableIn, Geometry
  <2> QED BY <1>3, <1>5, <2>5, EntryFacts
<1> HIDE DEF p
<1>7. mem' = [m EXCEPT ![p][RPDT_BASE] = Entry(p, {"write"})]
  BY <1>3, <1>6
<1>8. /\ mem' \in [Frames -> [Slots -> EntryType]]
      /\ mem'[p][RPDT_BASE] = Entry(p, {"write"})
      /\ \A f \in Frames \ {p} : mem'[f] = m[f]
  BY <1>2, <1>5, <1>7, EntryFacts, FlagFacts, Geometry
<1>9. /\ mem'[BootDir] = m[BootDir]
      /\ \A f \in Frames \ {BootDir, p} : mem'[f] = mem[f]
  BY <1>2, <1>4, <1>5, <1>8
<1> QED BY <1>1, <1>2, <1>3, <1>5, <1>8, <1>9, ZenonT(60)

LEMMA CloneStep ==
    ASSUME IInv, SecondWindowUncached, Below4GB, NEW cow \in BOOLEAN, clone_address_space(cow), state' # "wild"
    PROVE  IInv'
<1>1. PICK p \in free :
         /\ free' = free \ {p}
         /\ spaces' = Append(spaces, p)
         /\ mem' \in [Frames -> [Slots -> EntryType]]
         /\ mem'[BootDir][RPDT_BASE2] = Entry(p, {"write"})
         /\ \A i \in Slots \ {RPDT_BASE2} : mem'[BootDir][i] = mem[BootDir][i]
         /\ mem'[p][RPDT_BASE] = Entry(p, {"write"})
         /\ \A f \in Frames \ {BootDir, p} : mem'[f] = mem[f]
  BY CloneEffect
<1>2. /\ UNCHANGED <<state, pool, cr3, current, tlb>>
      /\ call' = [op |-> "clone", d |-> 0, cow |-> cow]
      /\ state = "up" /\ call = None
  BY CloneEffect DEF clone_address_space, Idle
<1>3. /\ p \in pool /\ p \in Frames /\ p # BootDir /\ p # BootTable /\ p \notin Directories
      /\ BootDir \in Directories /\ \A a \in Directories : a \in Frames /\ a # p
  BY <1>1, DirectoryFacts DEF IInv, Types, Directories
<1>4. /\ spaces' \in Seq(pool) /\ spaces' # <<>>
      /\ Len(spaces') = Len(spaces) + 1 /\ Len(spaces) \in Nat
      /\ DOMAIN spaces = 1 .. Len(spaces) /\ DOMAIN spaces' = 1 .. (Len(spaces) + 1)
      /\ \A n \in DOMAIN spaces : spaces'[n] = spaces[n]
      /\ spaces'[Len(spaces) + 1] = p
  BY <1>1, <1>3 DEF IInv, Types
<1>5. Last' = p
  BY <1>4 DEF Last
<1>6. Directories' = Directories \cup {p}
  <2>1. {spaces'[n] : n \in DOMAIN spaces'} = {spaces[n] : n \in DOMAIN spaces} \cup {p}
    BY <1>4
  <2> QED BY <2>1 DEF Directories
<1>7. \A a : Filled(a) = Lower
  BY <1>2 DEF Filled, Complete, None
<1>8. \A a \in Directories : Filled(a)' = Lower
  BY <1>2, <1>3, <1>4 DEF Filled, Complete, Lower
<1>9. Filled(p)' = {}
  BY <1>2, <1>4 DEF Filled, Complete
<1>10. \A a \in Directories, i \in Lower : mem'[a][i] = mem[a][i]
  BY <1>1, <1>3, Geometry
<1>11. Types'
  BY <1>1, <1>2, <1>4 DEF IInv, Types
<1>12. CallInv'
  <2>1. call' \in Calls
    BY <1>2, Geometry DEF Calls, KernelEnd, RPDT_BASE2
  <2> QED BY <1>2, <1>4, <2>1 DEF CallInv
<1>13. WindowInv'
  <2>1. mem'[BootDir][RPDT_BASE] = Entry(BootDir, {"write"})
    BY <1>1, <1>2, Geometry DEF IInv, WindowInv, Started
  <2>2. Started'
    BY <1>2 DEF Started
  <2> QED BY <1>1, <1>4, <1>5, <2>1, <2>2 DEF WindowInv
<1>14. FrameInv'
  <2>1. \A n \in DOMAIN spaces' : spaces'[n] \notin free'
    <3> SUFFICES ASSUME NEW n \in DOMAIN spaces' PROVE spaces'[n] \notin free'
      OBVIOUS
    <3>1. CASE n \in DOMAIN spaces
      BY <1>1, <1>4, <3>1 DEF IInv, FrameInv
    <3>2. CASE n = Len(spaces) + 1
      BY <1>1, <1>4, <3>2
    <3> QED BY <1>4, <3>1, <3>2
  <2>2. \A i \in Lower : i \in BootSlots <=>
          Present(mem'[BootDir][i]) /\ mem'[BootDir][i].frame = BootTable
    BY <1>3, <1>10 DEF IInv, FrameInv
  <2>3. ASSUME NEW a \in Directories, NEW i \in Lower, Present(mem[a][i])
        PROVE  /\ mem[a][i].frame \in (pool \ free) \cup {BootTable}
               /\ mem[a][i].frame \notin Directories
               /\ \A b \in Directories, j \in Lower :
                     Present(mem[b][j]) /\ mem[a][i].frame = mem[b][j].frame
                        /\ mem[a][i].frame # BootTable
                     => a = b /\ i = j
    BY <1>7, <2>3 DEF IInv, FrameInv
  <2>4. ASSUME NEW a \in Directories, NEW i \in Lower, Present(mem'[a][i])
        PROVE  /\ mem'[a][i].frame \in (pool' \ free') \cup {BootTable}
               /\ mem'[a][i].frame \notin Directories \cup {p}
               /\ \A b \in Directories, j \in Lower :
                     Present(mem'[b][j]) /\ mem'[a][i].frame = mem'[b][j].frame
                        /\ mem'[a][i].frame # BootTable
                     => a = b /\ i = j
    BY <1>1, <1>2, <1>3, <1>10, <2>3, <2>4, SMTT(30)
  <2> QED BY <1>6, <1>8, <1>9, <2>1, <2>2, <2>4 DEF FrameInv
<1>15. UseInv'
  <2> SUFFICES ASSUME NEW f \in pool \ free', f \notin Directories \cup {p}
               PROVE  \E a \in Directories : \E i \in Lower : Present(mem'[a][i]) /\ mem'[a][i].frame = f
    BY <1>2, <1>6, <1>8 DEF UseInv
  <2>1. PICK a \in Directories, i \in Lower : Present(mem[a][i]) /\ mem[a][i].frame = f
    BY <1>1, <1>7 DEF IInv, UseInv
  <2> QED BY <1>10, <2>1
<1>16. TlbInv'
  <2>1. \A i \in Slots \ {RPDT_BASE2} :
           Present(mem[BootDir][i]) => mem'[BootDir][i] = mem[BootDir][i]
    BY <1>1
  <2>2. \A i \in Lower, j \in Slots :
           Present(mem[BootDir][i]) => mem'[mem[BootDir][i].frame] = mem[mem[BootDir][i].frame]
    BY <1>1, <1>3, BootEntries, Geometry
  <2> QED BY <1>2, <2>1, <2>2, TlbKept
<1> QED BY <1>11, <1>12, <1>13, <1>14, <1>15, <1>16 DEF IInv

(* The second window shows the directory of the latest clone.              *)
LEMMA SecondWindow ==
    ASSUME IInv, SecondWindowUncached, spaces # <<>>
    PROVE  /\ Dir(mem, RPDT_BASE2) = {Last}
           /\ \A m : \A d \in Slots :
                 /\ m[BootDir][RPDT_BASE2] = Entry(Last, {"write"})
                 /\ Present(m[Last][d])
                 => Table(m, RPDT_BASE2, d) = {m[Last][d].frame}
<1>1. \A x \in tlb : x[1][1] # RPDT_BASE2
  BY DEF SecondWindowUncached, IInv, Types
<1>2. Last \in Frames
  BY DirectoryFacts DEF IInv
<1>3. \A m : \A d \in Slots : m[BootDir][RPDT_BASE2] = Entry(Last, {"write"})
                                => WalkIn(m, <<RPDT_BASE2, d>>) = m[Last][d]
  BY <1>2, EntryFacts DEF WalkIn, IInv, Types
<1>4. mem[BootDir][RPDT_BASE2] = Entry(Last, {"write"}) /\ mem[Last][RPDT_BASE] = Entry(Last, {"write"})
  BY DEF IInv, WindowInv
<1>5. Dir(mem, RPDT_BASE2) = {Last}
  BY <1>1, <1>3, <1>4, EntryFacts, Geometry DEF Dir, DirPage, Translations
<1>6. ASSUME NEW m, NEW d \in Slots,
             m[BootDir][RPDT_BASE2] = Entry(Last, {"write"}), Present(m[Last][d])
      PROVE  Table(m, RPDT_BASE2, d) = {m[Last][d].frame}
  <2>1. WalkIn(m, <<RPDT_BASE2, d>>) = m[Last][d]
    BY <1>3, <1>6
  <2> QED BY <1>1, <1>6, <2>1 DEF Table, TablePage, Translations
<1> QED BY <1>5, <1>6

LEMMA CloneCall ==
    ASSUME CallInv, call.op = "clone"
    PROVE  /\ call \in [op : {"clone"}, d : 0 .. KernelEnd, cow : BOOLEAN]
           /\ call.d < KernelEnd => call.d \in Lower
<1>1. call \in [op : {"clone"}, d : 0 .. KernelEnd, cow : BOOLEAN]
  BY DEF CallInv, Calls, None
<1> QED BY <1>1, Geometry DEF Lower, KernelEnd, RPDT_BASE2

LEMMA CloneEntryType ==
    ASSUME NEW e \in EntryType, NEW d \in EntryType, NEW cow \in BOOLEAN
    PROVE  CloneEntry(e, d, cow) \in EntryType
BY DEF CloneEntry, EntryType, Flags

(* A round of the loop: an entry of the clone is not present, or it is a   *)
(* table of its own.                                                       *)
LEMMA CloneDirEffect ==
    ASSUME IInv, SecondWindowUncached, Below4GB, CloneDirEntry, state' # "wild"
    PROVE  /\ UNCHANGED <<state, pool, cr3, current, tlb, spaces>>
           /\ call' = [call EXCEPT !.d = @ + 1]
           /\ mem' \in [Frames -> [Slots -> EntryType]]
           /\ \A i \in Slots \ {call.d} : mem'[Last][i] = mem[Last][i]
           /\ \/ /\ ~Present(mem'[Last][call.d])
                 /\ free' = free
                 /\ \A f \in Frames \ {Last} : mem'[f] = mem[f]
              \/ \E p \in free :
                    /\ free' = free \ {p}
                    /\ mem'[Last][call.d] = Entry(p, {"write", "user"})
                    /\ \A f \in Frames \ {Last, p} : mem'[f] = mem[f]
<1> DEFINE d == call.d
           Copy(last, q) ==
               LET m == [mem EXCEPT ![last][d] = Entry(q, {"write", "user"})]
               IN  \E s \in Table(m, RPDT_BASE, d), t \in Table(m, RPDT_BASE2, d) :
                      /\ mem' = [m EXCEPT ![t] = [j \in Slots |->
                                    CloneEntry(m[s][j], m[t][j], call.cow)]]
                      /\ free' = free \ {Min(free)}
<1>1. d \in Lower
  BY CloneCall DEF CloneDirEntry, Running, IInv
<1>2. /\ state = "up" /\ call.op = "clone" /\ call.cow \in BOOLEAN /\ spaces # <<>> /\ Started
  BY CloneCall DEF CloneDirEntry, Running, IInv, CallInv, Started
<1>3. PICK src \in Dir(mem, RPDT_BASE), last \in Dir(mem, RPDT_BASE2) :
         LET split == Present(mem[src][d]) /\ is_user(d)
         IN  \/ /\ ~split
                /\ mem' = [mem EXCEPT ![last][d] = mem[src][d]]
                /\ free' = free
             \/ /\ split
                /\ free # {}
                /\ Copy(last, cut(Min(free)))
  BY Zenon DEF CloneDirEntry, CloneWild
<1>4. src = BootDir /\ last = Last /\ last \in Frames /\ last # BootDir /\ last \in Directories
  BY <1>2, WindowDir, SecondWindow, DirectoryFacts DEF IInv
<1>5. mem \in [Frames -> [Slots -> EntryType]] /\ BootDir \in Frames /\ d \in Slots
      /\ d # RPDT_BASE /\ d # RPDT_BASE2 /\ d \in Nat
  <2>1. d \in Slots /\ d # RPDT_BASE /\ d # RPDT_BASE2
    BY <1>1, Geometry
  <2>2. d \in Nat
    BY <2>1, Geometry DEF Slots
  <2> QED BY <2>1, <2>2, FrameFacts DEF IInv, Types
<1>6. is_user(d)
  BY <1>5, AllUser
<1>7. UNCHANGED <<state, pool, cr3, current, tlb, spaces>> /\ call' = [call EXCEPT !.d = @ + 1]
  BY <1>2 DEF CloneDirEntry, CloneWild
<1>8. CASE ~Present(mem[BootDir][d])
  <2>1. mem' = [mem EXCEPT ![last][d] = mem[BootDir][d]] /\ free' = free
    BY <1>3, <1>4, <1>8
  <2>2. /\ mem' \in [Frames -> [Slots -> EntryType]]
        /\ mem'[last][d] = mem[BootDir][d]
        /\ \A i \in Slots \ {d} : mem'[last][i] = mem[last][i]
        /\ \A f \in Frames \ {last} : mem'[f] = mem[f]
    BY <1>4, <1>5, <2>1
  <2> QED BY <1>4, <1>7, <1>8, <2>1, <2>2
<1>9. CASE Present(mem[BootDir][d])
  <2> DEFINE p == Min(free)
             m == [mem EXCEPT ![last][d] = Entry(p, {"write", "user"})]
  <2>1. free # {} /\ p \in free /\ p \in Frames /\ p \in Nat /\ p # BootDir /\ p # last /\ cut(p) = p
    <3>0. free # {}
      BY <1>3, <1>4, <1>6, <1>9
    <3>1. p \in free
      BY <3>0, MinMember, FrameFacts DEF IInv, Types
    <3>2. last \notin free
      BY <1>4, DirectoryFacts DEF IInv
    <3>3. cut(p) = p
      BY <3>1, CutFacts DEF IInv, Types
    <3> QED BY <3>0, <3>1, <3>2, <3>3, FrameFacts DEF IInv, Types
  <2>2. \E s \in Table(m, RPDT_BASE, d), t \in Table(m, RPDT_BASE2, d) :
           /\ mem' = [m EXCEPT ![t] = [j \in Slots |->
                           CloneEntry(m[s][j], m[t][j], call.cow)]]
           /\ free' = free \ {p}
    <3>1. Copy(last, cut(p))
      BY <1>3, <1>4, <1>6, <1>9
    <3> HIDE DEF Copy
    <3>2. Copy(last, p)
      BY <2>1, <3>1
    <3> USE DEF Copy
    <3> QED BY <3>2
  <2>3. /\ m \in [Frames -> [Slots -> EntryType]]
        /\ m[last][d] = Entry(p, {"write", "user"})
        /\ \A i \in Slots \ {d} : m[last][i] = mem[last][i]
        /\ \A f \in Frames \ {last} : m[f] = mem[f]
    BY <1>4, <1>5, <2>1, EntryFacts, FlagFacts
  <2> HIDE DEF m
  <2>4. m[BootDir] = mem[BootDir]
    BY <1>4, <1>5, <2>3
  <2>5. Table(m, RPDT_BASE, d) = {mem[BootDir][d].frame}
    <3>1. m[BootDir][RPDT_BASE] = Entry(BootDir, {"write"}) /\ Present(m[BootDir][d])
      BY <1>2, <1>9, <2>4 DEF IInv, WindowInv
    <3>2. \A x \in tlb : x[1] = <<RPDT_BASE, d>> => x[2] = m[BootDir][d].frame
      BY <1>2, <1>5, <2>4, WindowTlb
    <3>3. Table(m, RPDT_BASE, d) = {m[BootDir][d].frame}
      BY <1>5, <3>1, <3>2, WindowTableIn
    <3> QED BY <2>4, <3>3
  <2>6. Table(m, RPDT_BASE2, d) = {p}
    <3>1. m[BootDir][RPDT_BASE2] = Entry(Last, {"write"})
      BY <1>2, <2>4 DEF IInv, WindowInv
    <3>2. m[Last][d] = Entry(p, {"write", "user"})
      BY <1>4, <2>3
    <3> QED BY <1>2, <1>5, <3>1, <3>2, SecondWindow, EntryFacts
  <2>7. PICK s \in Frames : s = mem[BootDir][d].frame
    BY <1>5, <1>9, BootEntries
  <2> HIDE DEF p
  <2>8. mem' = [m EXCEPT ![p] = [j \in Slots |-> CloneEntry(m[s][j], m[p][j], call.cow)]]
        /\ free' = free \ {p}
    BY <2>2, <2>5, <2>6, <2>7
  <2>9. [j \in Slots |-> CloneEntry(m[s][j], m[p][j], call.cow)] \in [Slots -> EntryType]
    <3>1. \A j \in Slots : m[s][j] \in EntryType /\ m[p][j] \in EntryType
      BY <2>1, <2>3, <2>7
    <3> QED BY <1>2, <3>1, CloneEntryType
  <2>10. /\ mem' \in [Frames -> [Slots -> EntryType]]
         /\ \A f \in Frames \ {p} : mem'[f] = m[f]
    BY <2>1, <2>3, <2>8, <2>9
  <2>11. /\ mem'[last] = m[last]
         /\ \A f \in Frames \ {last, p} : mem'[f] = mem[f]
    BY <1>4, <2>1, <2>3, <2>10
  <2> QED BY <1>4, <1>7, <2>1, <2>3, <2>8, <2>10, <2>11
<1> QED BY <1>8, <1>9

LEMMA CloneDirStep ==
    ASSUME IInv, SecondWindowUncached, Below4GB, CloneDirEntry, state' # "wild"
    PROVE  IInv'
<1>1. PICK d \in Lower : d = call.d
  BY CloneCall DEF CloneDirEntry, Running, IInv
<1>2. /\ state = "up" /\ call.op = "clone" /\ spaces # <<>> /\ Started
      /\ call \in [op : {"clone"}, d : 0 .. KernelEnd, cow : BOOLEAN] /\ call.d < KernelEnd
  BY CloneCall DEF CloneDirEntry, Running, IInv, CallInv, Started
<1>3. PICK last \in Frames : /\ last = Last /\ last # BootDir /\ last \in Directories
                             /\ BootDir \in Directories
  BY <1>2, DirectoryFacts DEF IInv, Directories
<1>4. UNCHANGED <<state, pool, cr3, current, tlb, spaces>> /\ call' = [call EXCEPT !.d = @ + 1]
  BY CloneDirEffect
<1>5. call'.op = "clone" /\ call'.d = d + 1 /\ call' \in Calls
  BY <1>1, <1>2, <1>4, Geometry DEF Calls, KernelEnd, RPDT_BASE2
<1>6. /\ mem' \in [Frames -> [Slots -> EntryType]]
      /\ \A i \in Slots \ {d} : mem'[last][i] = mem[last][i]
  BY <1>1, <1>3, CloneDirEffect
<1>7. \/ /\ ~Present(mem'[last][d])
         /\ free' = free
         /\ \A f \in Frames \ {last} : mem'[f] = mem[f]
      \/ \E p \in free :
            /\ free' = free \ {p}
            /\ Present(mem'[last][d]) /\ mem'[last][d].frame = p
            /\ \A f \in Frames \ {last, p} : mem'[f] = mem[f]
  BY <1>1, <1>3, CloneDirEffect, EntryFacts
<1>8. /\ \A a \in Directories : a \in Frames /\ a \notin free
      /\ \A f \in free : f \in pool /\ f # BootTable
  BY DirectoryFacts DEF IInv, Types
<1>9. Directories' = Directories /\ Last' = Last
  BY <1>4 DEF Directories, Last
<1>10. /\ \A a \in Directories \ {last} : Filled(a) = Lower /\ Filled(a)' = Lower
       /\ Filled(last) = 0 .. (d - 1) /\ Filled(last)' = 0 .. d
  BY <1>1, <1>2, <1>3, <1>4, <1>5 DEF Filled, Complete, Last, Lower
<1>11. d \in Nat /\ d \in Slots /\ d # RPDT_BASE /\ d # RPDT_BASE2
       /\ 0 .. (d - 1) \subseteq Slots /\ d \notin 0 .. (d - 1) /\ 0 .. d = (0 .. (d - 1)) \cup {d}
  <2>1. d \in Slots /\ d # RPDT_BASE /\ d # RPDT_BASE2
    BY <1>1, Geometry
  <2> QED BY <2>1, Geometry DEF Slots
<1>12. /\ \A a \in Directories : Filled(a) \subseteq Slots
       /\ \A a \in Directories : Filled(a)' = Filled(a) \cup (IF a = last THEN {d} ELSE {})
       /\ d \notin Filled(last)
  BY <1>10, <1>11, Geometry
<1>13. \A a \in Directories, i \in Slots : ~(a = last /\ i = d) => mem'[a][i] = mem[a][i]
  BY <1>6, <1>7, <1>8
<1>14. free' \subseteq free /\ (Present(mem'[last][d]) => mem'[last][d].frame \in free /\ mem'[last][d].frame \notin free')
  BY <1>7
<1>15. Types'
  BY <1>4, <1>6, <1>14 DEF IInv, Types
<1>16. CallInv'
  BY <1>2, <1>4, <1>5 DEF CallInv
<1>17. WindowInv'
  <2>1. /\ mem'[BootDir][RPDT_BASE] = mem[BootDir][RPDT_BASE]
        /\ mem'[BootDir][RPDT_BASE2] = mem[BootDir][RPDT_BASE2]
        /\ mem'[last][RPDT_BASE] = mem[last][RPDT_BASE]
    BY <1>3, <1>11, <1>13, Geometry
  <2>2. Started'
    BY <1>2, <1>4 DEF Started
  <2> QED BY <1>2, <1>3, <1>4, <1>9, <2>1, <2>2 DEF IInv, WindowInv
<1>18. FrameInv'
  <2>1. \A n \in DOMAIN spaces' : spaces'[n] \notin free'
    BY <1>4, <1>14 DEF IInv, FrameInv
  <2>2. \A i \in Lower : i \in BootSlots <=>
          Present(mem'[BootDir][i]) /\ mem'[BootDir][i].frame = BootTable
    BY <1>3, <1>13, Geometry DEF IInv, FrameInv
  <2>3. ASSUME NEW a \in Directories, NEW i \in Filled(a), Present(mem[a][i])
        PROVE  /\ mem[a][i].frame \in (pool \ free) \cup {BootTable}
               /\ mem[a][i].frame \notin Directories
               /\ \A b \in Directories : \A j \in Filled(b) :
                     Present(mem[b][j]) /\ mem[a][i].frame = mem[b][j].frame
                        /\ mem[a][i].frame # BootTable
                     => a = b /\ i = j
    BY <2>3 DEF IInv, FrameInv
  <2>4. ASSUME NEW a \in Directories, NEW i \in Slots, NEW b \in Directories, NEW j \in Slots,
               i \in Filled(a) \/ (a = last /\ i = d), j \in Filled(b) \/ (b = last /\ j = d),
               Present(mem'[a][i])
        PROVE  /\ mem'[a][i].frame \in (pool \ free') \cup {BootTable}
               /\ mem'[a][i].frame \notin Directories
               /\ Present(mem'[b][j]) /\ mem'[a][i].frame = mem'[b][j].frame
                     /\ mem'[a][i].frame # BootTable
                  => a = b /\ i = j
    <3>1. CASE a = last /\ i = d
      <4>1. mem'[a][i].frame \in free /\ mem'[a][i].frame \notin free'
        BY <1>14, <2>4, <3>1
      <4>2. ASSUME ~(b = last /\ j = d), Present(mem'[b][j]) PROVE mem'[b][j].frame \notin free
        BY <1>8, <1>13, <2>3, <2>4, <4>2
      <4> QED BY <1>8, <3>1, <4>1, <4>2
    <3>2. CASE ~(a = last /\ i = d)
      <4>1. mem'[a][i] = mem[a][i] /\ i \in Filled(a)
        BY <1>13, <2>4, <3>2
      <4>2. CASE b = last /\ j = d
        BY <1>8, <1>14, <2>3, <2>4, <4>1, <4>2
      <4>3. CASE ~(b = last /\ j = d)
        BY <1>13, <1>14, <2>3, <2>4, <4>1, <4>3
      <4> QED BY <4>2, <4>3
    <3> QED BY <3>1, <3>2
  <2>5. \A a \in Directories, i \in Slots : i \in Filled(a)' => i \in Filled(a) \/ (a = last /\ i = d)
    BY <1>12
  <2>6. \A a \in Directories : Filled(a)' \subseteq Slots
    BY <1>11, <1>12
  <2>7. ASSUME NEW a \in Directories, NEW i \in Filled(a)', Present(mem'[a][i])
        PROVE  /\ mem'[a][i].frame \in (pool \ free') \cup {BootTable}
               /\ mem'[a][i].frame \notin Directories
               /\ \A b \in Directories : \A j \in Filled(b)' :
                     Present(mem'[b][j]) /\ mem'[a][i].frame = mem'[b][j].frame
                        /\ mem'[a][i].frame # BootTable
                     => a = b /\ i = j
    BY <2>4, <2>5, <2>6, <2>7
  <2> QED BY <1>4, <1>9, <2>1, <2>2, <2>7 DEF FrameInv
<1>19. UseInv'
  <2> SUFFICES ASSUME NEW f \in pool \ free', f \notin Directories
               PROVE  \E a \in Directories : \E i \in Filled(a)' : Present(mem'[a][i]) /\ mem'[a][i].frame = f
    BY <1>4, <1>9 DEF UseInv
  <2>1. CASE f \in free
    <3>1. Present(mem'[last][d]) /\ mem'[last][d].frame = f
      BY <1>7, <2>1
    <3> QED BY <1>3, <1>12, <3>1
  <2>2. CASE f \notin free
    <3>1. PICK a \in Directories, i \in Slots :
             i \in Filled(a) /\ Present(mem[a][i]) /\ mem[a][i].frame = f
      BY <1>12, <2>2 DEF IInv, UseInv
    <3>2. mem'[a][i] = mem[a][i] /\ i \in Filled(a)'
      BY <1>12, <1>13, <3>1
    <3> QED BY <3>1, <3>2
  <2> QED BY <2>1, <2>2
<1>20. TlbInv'
  <2>1. \A i \in Slots \ {RPDT_BASE2} :
           Present(mem[BootDir][i]) => mem'[BootDir][i] = mem[BootDir][i]
    BY <1>3, <1>13
  <2>2. \A i \in Lower, j \in Slots :
           Present(mem[BootDir][i]) => mem'[mem[BootDir][i].frame] = mem[mem[BootDir][i].frame]
    <3> SUFFICES ASSUME NEW i \in Lower, Present(mem[BootDir][i])
                 PROVE  mem'[mem[BootDir][i].frame] = mem[mem[BootDir][i].frame]
      OBVIOUS
    <3>1. /\ mem[BootDir][i].frame \in Frames /\ mem[BootDir][i].frame \notin free
          /\ mem[BootDir][i].frame # last
      BY <1>3, BootEntries, Geometry
    <3> QED BY <1>7, <3>1
  <2> QED BY <1>4, <2>1, <2>2, TlbKept
<1> QED BY <1>15, <1>16, <1>17, <1>18, <1>19, <1>20 DEF IInv

-----------------------------------------------------------------------------
(* The other steps                                                         *)

LEMMA InitHolds == Init => IInv
<1> SUFFICES ASSUME Init PROVE IInv
  OBVIOUS
<1>1. /\ mem \in [Frames -> [Slots -> EntryType]]
      /\ \A i \in Slots : mem[BootDir][i] = BootEntry(i)
  <2>1. Leftover \in EntryType
    BY MinMember, VmmAssumption, EntryFacts, FlagFacts, FrameFacts DEF Leftover
  <2>2. \A i \in Slots : BootEntry(i) \in EntryType /\ Entry(i, {"write"}) \in EntryType
    BY EntryFacts, FlagFacts, FrameFacts, Geometry DEF BootEntry, Slots, BootTable
  <2> QED BY <2>1, <2>2, FrameFacts DEF Init
<1>2. spaces = <<>> /\ Directories = {BootDir} /\ \A a : Filled(a) = Lower
  BY DEF Init, Directories, Filled, Complete, None
<1>3. \A i \in Slots : IF i \in BootSlots THEN Present(mem[BootDir][i]) /\ mem[BootDir][i].frame = BootTable
                                          ELSE ~Present(mem[BootDir][i])
  BY <1>1, EntryFacts DEF BootEntry
<1>4. Types
  BY <1>1, FrameFacts DEF Init, Types
<1>5. CallInv
  BY DEF Init, CallInv, Calls, None
<1>6. WindowInv
  BY <1>2, <1>3, Geometry DEF Init, WindowInv, Started
<1>7. FrameInv
  <2>1. \A i \in Lower : i \in Slots
    BY Geometry
  <2>2. \A i, j \in BootSlots : Present(mem[BootDir][i]) => mem[BootDir][i].frame = BootTable
    BY <1>3, Geometry
  <2>3. DOMAIN spaces = {}
    BY <1>2
  <2> QED BY <1>2, <1>3, <2>1, <2>2, <2>3, FrameFacts DEF FrameInv
<1>8. UseInv /\ TlbInv
  BY DEF Init, UseInv, TlbInv
<1> QED BY <1>4, <1>5, <1>6, <1>7, <1>8 DEF IInv

(* Neither tables nor frames are touched.                                  *)
LEMMA QuietStep ==
    ASSUME IInv, UNCHANGED <<mem, cr3, current, tlb, pool, free, spaces>>,
           state' \in {"boot", "up", "panic", "wild"}, CallInv',
           Started' <=> Started, \A a \in Directories : Filled(a)' = Filled(a)
    PROVE  IInv'
<1>1. Directories' = Directories /\ Last' = Last
  BY DEF Directories, Last
<1>2. Types'
  BY DEF IInv, Types
<1>3. WindowInv'
  BY <1>1 DEF IInv, WindowInv
<1>4. FrameInv'
  BY <1>1 DEF IInv, FrameInv
<1>5. UseInv'
  BY <1>1, SMTT(30) DEF IInv, UseInv
<1>6. TlbInv'
  BY DEF IInv, TlbInv, Walk, WalkIn
<1> QED BY <1>2, <1>3, <1>4, <1>5, <1>6 DEF IInv

LEMMA StopStep ==
    ASSUME IInv, UNCHANGED <<mem, cr3, current, tlb, pool, free, spaces, call>>,
           state' \in {"panic", "wild"}, Started
    PROVE  IInv'
<1>1. CallInv'
  BY DEF IInv, CallInv
<1>2. Started'
  BY DEF Started
<1>3. \A a : Filled(a)' = Filled(a)
  BY DEF Filled, Complete, Lower
<1> QED BY <1>1, <1>2, <1>3, QuietStep

LEMMA StartStep ==
    ASSUME IInv, SecondWindowUncached, init_virtual_memory
    PROVE  IInv'
<1>1. /\ state = "boot" /\ call = None /\ cr3 = BootDir /\ ~Started /\ Started'
      /\ call'.op = "init" /\ call'.d = KernelStart /\ call' \in Calls /\ spaces = <<>>
      /\ current' = BootDir
      /\ UNCHANGED <<pool, state, cr3, tlb, free, spaces>>
  BY Geometry DEF init_virtual_memory, IInv, Types, CallInv, Started, None, Calls, KernelEnd, RPDT_BASE2
<1>2. /\ mem \in [Frames -> [Slots -> EntryType]] /\ BootDir \in Frames /\ BootDir \in Nat
      /\ mem' = [mem EXCEPT ![BootDir][RPDT_BASE] = Entry(BootDir, {"write"})]
  BY <1>1, FrameFacts DEF init_virtual_memory, IInv, Types
<1>3. /\ mem' \in [Frames -> [Slots -> EntryType]]
      /\ mem'[BootDir][RPDT_BASE] = Entry(BootDir, {"write"})
      /\ \A i \in Slots \ {RPDT_BASE} : mem'[BootDir][i] = mem[BootDir][i]
      /\ \A f \in Frames \ {BootDir} : mem'[f] = mem[f]
  BY <1>2, Geometry, EntryFacts, FlagFacts
<1>4. Directories = {BootDir} /\ Directories' = {BootDir}
  BY <1>1 DEF Directories
<1>5. \A a : Filled(a) = Lower /\ Filled(a)' = Lower
  BY <1>1 DEF Filled, Complete, None, Lower
<1>6. \A i \in Lower : mem'[BootDir][i] = mem[BootDir][i]
  BY <1>3, Geometry
<1>7. Types'
  BY <1>1, <1>3, FrameFacts DEF IInv, Types
<1>8. CallInv'
  BY <1>1 DEF CallInv
<1>9. WindowInv'
  BY <1>1, <1>3, Geometry DEF IInv, WindowInv
<1>10. FrameInv'
  <2>1. \A n \in DOMAIN spaces' : spaces'[n] \notin free'
    BY <1>1 DEF IInv, FrameInv
  <2>2. \A i \in Lower : i \in BootSlots <=>
          Present(mem'[BootDir][i]) /\ mem'[BootDir][i].frame = BootTable
    BY <1>6 DEF IInv, FrameInv
  <2>3. ASSUME NEW i \in Lower, Present(mem'[BootDir][i])
        PROVE  /\ mem'[BootDir][i].frame \in (pool' \ free') \cup {BootTable}
               /\ mem'[BootDir][i].frame \notin {BootDir}
               /\ \A j \in Lower :
                     Present(mem'[BootDir][j]) /\ mem'[BootDir][i].frame = mem'[BootDir][j].frame
                        /\ mem'[BootDir][i].frame # BootTable
                     => i = j
    <3>1. mem'[BootDir][i] = mem[BootDir][i] /\ Present(mem[BootDir][i])
      BY <1>6, <2>3
    <3>2. /\ mem[BootDir][i].frame \in (pool \ free) \cup {BootTable}
          /\ mem[BootDir][i].frame \notin {BootDir}
          /\ \A j \in Lower :
                Present(mem[BootDir][j]) /\ mem[BootDir][i].frame = mem[BootDir][j].frame
                   /\ mem[BootDir][i].frame # BootTable
                => i = j
      BY <1>4, <1>5, <3>1 DEF IInv, FrameInv
    <3> QED BY <1>1, <1>6, <3>1, <3>2
  <2> QED BY <1>4, <1>5, <2>1, <2>2, <2>3 DEF FrameInv
<1>11. UseInv'
  <2> SUFFICES ASSUME NEW f \in pool \ free, f # BootDir
               PROVE  \E i \in Lower : Present(mem'[BootDir][i]) /\ mem'[BootDir][i].frame = f
    BY <1>1, <1>4, <1>5 DEF UseInv
  <2>1. PICK i \in Lower : Present(mem[BootDir][i]) /\ mem[BootDir][i].frame = f
    BY <1>4, <1>5 DEF IInv, UseInv
  <2> QED BY <1>6, <2>1
<1>12. TlbInv'
  <2>1. \A i \in Slots \ {RPDT_BASE2} :
           Present(mem[BootDir][i]) => mem'[BootDir][i] = mem[BootDir][i]
    BY <1>1, <1>3 DEF IInv, WindowInv
  <2>2. \A i \in Lower, j \in Slots :
           Present(mem[BootDir][i]) => mem'[mem[BootDir][i].frame] = mem[mem[BootDir][i].frame]
    BY <1>3, <1>4, BootEntries, Geometry
  <2> QED BY <1>1, <2>1, <2>2, TlbKept
<1> QED BY <1>7, <1>8, <1>9, <1>10, <1>11, <1>12 DEF IInv

LEMMA InitTableStep ==
    ASSUME IInv, SecondWindowUncached, Below4GB, InitTable
    PROVE  IInv'
<1>1. /\ state = "boot" /\ call.op = "init" /\ call \in [op : {"init"}, d : KernelStart .. KernelEnd]
      /\ call.d < KernelEnd /\ Started /\ spaces = <<>>
  BY DEF InitTable, IInv, CallInv, Calls, None, Started
<1>2. PICK d \in Lower : d = call.d
  BY <1>1, Geometry DEF Lower, KernelEnd, RPDT_BASE2
<1>3. /\ UNCHANGED <<pool, cr3, current, tlb, spaces>>
      /\ call' = [call EXCEPT !.d = @ + 1]
  BY DEF InitTable
<1>4. call'.op = "init" /\ call' \in Calls
  BY <1>1, <1>3, Geometry DEF Calls, KernelEnd, RPDT_BASE2
<1>5. Started'
  BY <1>4 DEF Started, None
<1>6. state' \in {"boot", "panic"} => CallInv'
  BY <1>1, <1>3, <1>4 DEF CallInv
<1>7. CASE UNCHANGED <<mem, free>> /\ state' \in {"boot", "panic"}
  <2>1. \A a : Filled(a) = Lower /\ Filled(a)' = Lower
    BY <1>1, <1>4 DEF Filled, Complete, Lower
  <2> QED BY <1>1, <1>3, <1>5, <1>6, <1>7, <2>1, QuietStep
<1>8. CASE ~HasTable(d) /\ free # {} /\ NewTable(d, {"write"}) /\ UNCHANGED state
  <2>1. ~Present(mem[BootDir][d])
    BY <1>1, <1>8, TablePresent
  <2>2. Types' /\ WindowInv' /\ FrameInv' /\ UseInv' /\ TlbInv'
    BY <1>1, <1>3, <1>4, <1>5, <1>8, <2>1, NewTableStep, FlagFacts
  <2> QED BY <1>1, <1>6, <1>8, <2>2 DEF IInv
<1> QED BY <1>1, <1>2, <1>7, <1>8 DEF InitTable

LEMMA InitDoneStep ==
    ASSUME IInv, InitDone
    PROVE  IInv'
<1>1. /\ call.op = "init" /\ call' = None /\ state' = "up" /\ Started /\ Started'
      /\ UNCHANGED <<pool, mem, cr3, current, tlb, free, spaces>>
  BY DEF InitDone, Started, None
<1>2. CallInv'
  BY <1>1 DEF CallInv, Calls, None
<1>3. \A a : Filled(a) = Lower /\ Filled(a)' = Lower
  BY <1>1 DEF Filled, Complete, Lower, None
<1> QED BY <1>1, <1>2, <1>3, QuietStep

(* The next page of a call.                                                *)
LEMMA RoomNext ==
    ASSUME NEW v \in Pages, NEW n \in Nat \ {0}, Room(v, n)
    PROVE  v \in FreelyMapped /\ Following(v) \in Pages /\ Room(Following(v), n - 1)
<1>1. N \in Nat /\ N >= 4 /\ v[1] \in 0 .. (N - 1) /\ v[2] \in 0 .. (N - 1)
  BY Geometry DEF Pages, Slots
<1>2. \A w \in Pages : Linear(w) \in Nat
  <2>1. \A a, b \in 0 .. (N - 1) : a * N + b \in Nat
    BY <1>1
  <2> QED BY <2>1 DEF Pages, Slots, Linear
<1>3. v \in FreelyMapped
  BY <1>2 DEF Room
<1>4. v[1] + 1 \in 0 .. (N - 1)
  BY <1>1, <1>3 DEF FreelyMapped, KernelEnd, RPDT_BASE2
<1>5. Following(v) \in Pages
  BY <1>1, <1>4 DEF Following, Pages, Slots
<1>6. Linear(Following(v)) = Linear(v) + 1
  <2>1. CASE v[2] = N - 1
    <3>1. Linear(Following(v)) = (v[1] + 1) * N + 0
      BY <2>1 DEF Following, Linear
    <3>2. (v[1] + 1) * N = v[1] * N + N
      BY <1>1
    <3>3. v[1] * N \in Nat
      BY <1>1
    <3> QED BY <1>1, <2>1, <3>1, <3>2, <3>3 DEF Linear
  <2>2. CASE v[2] # N - 1
    <3>1. Linear(Following(v)) = v[1] * N + (v[2] + 1)
      BY <2>2 DEF Following, Linear
    <3>2. v[1] * N \in Nat
      BY <1>1
    <3> QED BY <1>1, <3>1, <3>2 DEF Linear
  <2> QED BY <2>1, <2>2
<1>7. Room(Following(v), n - 1)
  <2> SUFFICES ASSUME NEW w \in Pages, Linear(Following(v)) <= Linear(w),
                      Linear(w) < Linear(Following(v)) + (n - 1)
               PROVE  w \in FreelyMapped
    BY DEF Room
  <2>1. Linear(v) <= Linear(w) /\ Linear(w) < Linear(v) + n
    BY <1>2, <1>6
  <2> QED BY <2>1 DEF Room
<1> QED BY <1>3, <1>5, <1>7

LEMMA CallsStep ==
    ASSUME IInv, InRange, NEW v \in CallerPages, NEW n \in 1 .. MaxPages,
           unmap(v, n) \/ \E p \in DataFrames, flags \in MapFlags : map(v, p, n, flags)
    PROVE  IInv'
<1>1. Idle /\ UNCHANGED <<pool, state, mem, cr3, current, tlb, free, spaces>>
  BY DEF unmap, map
<1>2. v \in Pages /\ MaxPages \in Nat /\ n \in 0 .. MaxPages /\ DataFrames \subseteq Nat
  BY VmmAssumption DEF FreelyMapped
<1>3. Room(v, n)
  <2> SUFFICES ASSUME NEW w \in Pages, Linear(v) <= Linear(w), Linear(w) < Linear(v) + n
               PROVE  w \in FreelyMapped
    BY DEF Room
  <2>1. \A x \in Pages : Linear(x) \in Nat
    <3>1. \A a, b \in 0 .. (N - 1) : a * N + b \in Nat
      BY Geometry
    <3> QED BY <3>1 DEF Pages, Slots, Linear
  <2>2. Linear(w) < Linear(v) + MaxPages
    BY <1>2, <2>1
  <2> QED BY <2>2 DEF InRange, Room
<1>4. CallInv' /\ call'.op # "clone" /\ call' # None
  <2>1. CASE unmap(v, n)
    <3>1. call' = [op |-> "unmap", v |-> v, n |-> n]
      BY <2>1 DEF unmap
    <3> QED BY <1>1, <1>2, <1>3, <3>1 DEF CallInv, Calls, Idle, None
  <2>2. ASSUME NEW p \in DataFrames, NEW flags \in MapFlags, map(v, p, n, flags)
        PROVE  CallInv' /\ call'.op # "clone" /\ call' # None
    <3>1. call' = [op |-> "map", v |-> v, p |-> p, n |-> n, flags |-> flags]
      BY <2>2 DEF map
    <3>2. call' \in Calls
      BY <1>2, <3>1 DEF Calls
    <3>3. p = p + 0 /\ 0 + n <= MaxPages /\ 0 \in 0 .. MaxPages
      BY <1>2
    <3> QED BY <1>1, <1>3, <3>1, <3>2, <3>3 DEF CallInv, Idle, None
  <2> QED BY <2>1, <2>2
<1>5. \A a : Filled(a) = Lower /\ Filled(a)' = Lower
  BY <1>1, <1>4 DEF Filled, Complete, Lower, Idle, None
<1> QED BY <1>1, <1>4, <1>5, QuietStep DEF Idle, Started

(* The page that a call has come to.                                       *)
LEMMA ActiveCall ==
    ASSUME IInv, Running("map") \/ Running("unmap"), More
    PROVE  /\ state = "up" /\ Started /\ call.op # "clone"
           /\ call.n \in 1 .. MaxPages /\ call.v \in FreelyMapped /\ call.v[1] \in Lower
           /\ Following(call.v) \in Pages /\ Room(Following(call.v), call.n - 1)
<1>1. /\ state = "up" /\ Started /\ call.op # "clone" /\ call.op \in {"map", "unmap"}
      /\ call.v \in Pages /\ call.n \in 1 .. MaxPages /\ Room(call.v, call.n)
  BY VmmAssumption DEF Running, Started, More, IInv, CallInv, Calls, None
<1>2. call.n \in Nat \ {0}
  BY <1>1
<1>3. /\ call.v \in FreelyMapped
      /\ Following(call.v) \in Pages /\ Room(Following(call.v), call.n - 1)
  BY <1>1, <1>2, RoomNext
<1>4. call.v[1] \in Lower
  BY <1>3, Geometry DEF FreelyMapped, Pages, Slots, Lower, KernelEnd, RPDT_BASE2
<1> QED BY <1>1, <1>3, <1>4

LEMMA EnsureStep ==
    ASSUME IInv, SecondWindowUncached, Below4GB, ensure_page_table_mapped
    PROVE  IInv'
<1>1. state = "up" /\ Started /\ call.op # "clone" /\ call.v[1] \in Lower
  BY ActiveCall DEF ensure_page_table_mapped
<1>2. CASE panic
  BY <1>1, <1>2, StopStep DEF panic
<1>3. CASE /\ free # {} /\ NewTable(call.v[1], {"write", "user"})
           /\ UNCHANGED <<pool, state, cr3, current, tlb, spaces, call>>
  <2>1. ~Present(mem[BootDir][call.v[1]])
    BY <1>1, TablePresent DEF ensure_page_table_mapped
  <2>2. Started' /\ CallInv'
    BY <1>1, <1>3 DEF Started, IInv, CallInv
  <2>3. Types' /\ WindowInv' /\ FrameInv' /\ UseInv' /\ TlbInv'
    BY <1>1, <1>3, <2>1, <2>2, NewTableStep, FlagFacts, SMTT(30)
  <2> QED BY <2>2, <2>3 DEF IInv
<1> QED BY <1>2, <1>3 DEF ensure_page_table_mapped

(* map_one_page and unmap_one_page write the entry that the MMU uses.      *)
WriteEntry(v, e) ==
    /\ v \in FreelyMapped /\ Present(mem[BootDir][v[1]])
    /\ \E t \in Frames :
          /\ t = mem[BootDir][v[1]].frame
          /\ mem' \in [Frames -> [Slots -> EntryType]]
          /\ \A f \in Frames \ {t} : mem'[f] = mem[f]
          /\ mem'[t][v[2]] = e
          /\ \A j \in Slots \ {v[2]} : mem'[t][j] = mem[t][j]

LEMMA WriteEffect ==
    ASSUME IInv, NEW v \in FreelyMapped, Present(mem[BootDir][v[1]]), NEW e \in EntryType,
           NEW t, t = mem[BootDir][v[1]].frame, mem' = [mem EXCEPT ![t][v[2]] = e]
    PROVE  WriteEntry(v, e)
<1>1. t \in Frames /\ v[2] \in Slots /\ mem \in [Frames -> [Slots -> EntryType]]
  BY OwnTable DEF IInv, Types
<1>2. PICK j \in Slots : j = v[2]
  BY <1>1
<1>3. mem' = [mem EXCEPT ![t][j] = e]
  BY <1>2, SMTT(30)
<1>4. /\ mem' \in [Frames -> [Slots -> EntryType]]
      /\ \A f \in Frames \ {t} : mem'[f] = mem[f]
      /\ mem'[t][j] = e
      /\ \A i \in Slots \ {j} : mem'[t][i] = mem[t][i]
  <2>1. mem[t] \in [Slots -> EntryType]
    BY <1>1
  <2>2. PICK row : row = [mem[t] EXCEPT ![j] = e]
    OBVIOUS
  <2>3. mem' = [mem EXCEPT ![t] = row]
    BY <1>3, <2>2
  <2>4. /\ row \in [Slots -> EntryType] /\ row[j] = e
        /\ \A i \in Slots \ {j} : row[i] = mem[t][i]
    BY <2>1, <2>2
  <2>5. mem' \in [Frames -> [Slots -> EntryType]]
    BY <1>1, <2>3, <2>4
  <2>6. mem'[t] = row /\ \A f \in Frames \ {t} : mem'[f] = mem[f]
    BY <1>1, <2>3
  <2> QED BY <2>4, <2>5, <2>6
<1>5. mem'[t][v[2]] = e /\ \A i \in Slots \ {v[2]} : mem'[t][i] = mem[t][i]
  BY <1>2, <1>4, Zenon
<1> QED BY <1>1, <1>4, <1>5, Zenon DEF WriteEntry

LEMMA MapEffect ==
    ASSUME IInv, Below4GB, map_one_page, state' # "panic"
    PROVE  /\ WriteEntry(call.v, Entry(call.p, EntryFlags(call.flags)))
           /\ ~Present(Walk(call.v))
           /\ call' = [call EXCEPT !.v = Following(@), !.p = @ + 1, !.n = @ - 1]
           /\ UNCHANGED <<pool, state, cr3, current, tlb, free, spaces>>
<1>1. /\ state = "up" /\ Started /\ call.v \in FreelyMapped /\ call.v[1] \in Lower
      /\ call.v \in Pages
  BY ActiveCall DEF map_one_page, FreelyMapped
<1>2. Present(mem[BootDir][call.v[1]])
  BY <1>1, TablePresent DEF map_one_page
<1>3. Table(mem, RPDT_BASE, call.v[1]) = {mem[BootDir][call.v[1]].frame}
  BY <1>1, <1>2, WindowTable, Geometry
<1>4. PICK t \in Table(mem, RPDT_BASE, call.v[1]) :
         /\ ~Present(mem[t][call.v[2]])
         /\ mem' = [mem EXCEPT ![t][call.v[2]] = Entry(cut(call.p), EntryFlags(call.flags))]
         /\ call' = [call EXCEPT !.v = Following(@), !.p = @ + 1, !.n = @ - 1]
         /\ UNCHANGED <<pool, state, cr3, current, tlb, free, spaces>>
  BY DEF map_one_page, panic
<1>5. t = mem[BootDir][call.v[1]].frame
  BY <1>3
<1>6. ~Present(Walk(call.v))
  BY <1>1, <1>2, <1>4, <1>5, WalkFacts
<1>7. Entry(call.p, EntryFlags(call.flags)) \in EntryType
  <2>1. call.p \in Nat /\ call.flags \in MapFlags
    BY DEF map_one_page, Running, IInv, CallInv, Calls, None
  <2> QED BY <2>1, EntryFacts, FlagFacts
<1>8. cut(call.p) = call.p
  <2>1. PICK p \in DataFrames, i \in 0 .. MaxPages : call.p = p + i /\ i + call.n <= MaxPages
    BY DEF map_one_page, Running, IInv, CallInv
  <2>2. call.n \in 1 .. MaxPages
    BY ActiveCall DEF map_one_page
  <2>3. p \in Nat /\ FrameLimit \in Nat /\ MaxPages \in Nat /\ p + MaxPages <= FrameLimit
    BY VmmAssumption DEF Below4GB
  <2>4. call.p \in Nat /\ call.p < FrameLimit
    BY <2>1, <2>2, <2>3
  <2> QED BY <2>4, CutFacts
<1>9. WriteEntry(call.v, Entry(call.p, EntryFlags(call.flags)))
  BY <1>1, <1>2, <1>4, <1>5, <1>7, <1>8, WriteEffect
<1> QED BY <1>4, <1>6, <1>9

LEMMA UnmapEffect ==
    ASSUME IInv, unmap_one_page, state' # "panic"
    PROVE  /\ WriteEntry(call.v, Zero)
           /\ Present(Walk(call.v))
           /\ call' = [call EXCEPT !.v = Following(@), !.n = @ - 1]
           /\ tlb' = {x \in tlb : x[1] # call.v}
           /\ UNCHANGED <<pool, state, cr3, current, free, spaces>>
<1>1. /\ state = "up" /\ Started /\ call.v \in FreelyMapped /\ call.v[1] \in Lower
      /\ call.v \in Pages
  BY ActiveCall DEF unmap_one_page, FreelyMapped
<1>2. Present(mem[BootDir][call.v[1]])
  BY <1>1, TablePresent DEF unmap_one_page, panic
<1>3. Table(mem, RPDT_BASE, call.v[1]) = {mem[BootDir][call.v[1]].frame}
  BY <1>1, <1>2, WindowTable, Geometry, ZenonT(60)
<1>4. PICK t \in Table(mem, RPDT_BASE, call.v[1]) :
         /\ Present(mem[t][call.v[2]])
         /\ mem' = [mem EXCEPT ![t][call.v[2]] = Zero]
         /\ tlb' = {x \in tlb : x[1] # call.v}
         /\ call' = [call EXCEPT !.v = Following(@), !.n = @ - 1]
         /\ UNCHANGED <<pool, state, cr3, current, free, spaces>>
  BY DEF unmap_one_page, panic
<1>5. t = mem[BootDir][call.v[1]].frame
  BY <1>3
<1>6. Present(Walk(call.v))
  BY <1>1, <1>2, <1>4, <1>5, WalkFacts
<1>7. WriteEntry(call.v, Zero)
  BY <1>1, <1>2, <1>4, <1>5, EntryFacts, WriteEffect
<1> QED BY <1>4, <1>6, <1>7

LEMMA MapCallNext ==
    ASSUME NEW c \in [op : {"map"}, v : Pages, p : Nat, n : 0 .. MaxPages, flags : MapFlags],
           NEW w \in Pages, MaxPages \in Nat, c.n \in 1 .. MaxPages,
           NEW d, d = [c EXCEPT !.v = w, !.p = @ + 1, !.n = @ - 1]
    PROVE  /\ d \in [op : {"map"}, v : Pages, p : Nat, n : 0 .. MaxPages, flags : MapFlags]
           /\ d.v = w /\ d.p = c.p + 1 /\ d.n = c.n - 1
<1>1. c.p + 1 \in Nat /\ c.n - 1 \in 0 .. MaxPages
  OBVIOUS
<1>2. d = [op |-> "map", v |-> w, p |-> c.p + 1, n |-> c.n - 1, flags |-> c.flags]
  OBVIOUS
<1> QED BY <1>1, <1>2

LEMMA UnmapCallNext ==
    ASSUME NEW c \in [op : {"unmap"}, v : Pages, n : 0 .. MaxPages],
           NEW w \in Pages, MaxPages \in Nat, c.n \in 1 .. MaxPages,
           NEW d, d = [c EXCEPT !.v = w, !.n = @ - 1]
    PROVE  /\ d \in [op : {"unmap"}, v : Pages, n : 0 .. MaxPages]
           /\ d.v = w /\ d.n = c.n - 1
<1>1. c.n - 1 \in 0 .. MaxPages
  OBVIOUS
<1>2. d = [op |-> "unmap", v |-> w, n |-> c.n - 1]
  OBVIOUS
<1> QED BY <1>1, <1>2

LEMMA MapStep ==
    ASSUME IInv, SecondWindowUncached, Below4GB, map_one_page
    PROVE  IInv'
<1>1. /\ state = "up" /\ Started /\ call.op = "map" /\ call.n \in 1 .. MaxPages
      /\ Following(call.v) \in Pages /\ Room(Following(call.v), call.n - 1)
      /\ MaxPages \in Nat /\ DataFrames \subseteq Nat
  BY ActiveCall, VmmAssumption DEF map_one_page, Running
<1>2. CASE state' = "panic"
  BY <1>1, <1>2, StopStep DEF map_one_page, panic
<1>3. CASE state' # "panic"
  <2>1. /\ WriteEntry(call.v, Entry(call.p, EntryFlags(call.flags)))
        /\ ~Present(Walk(call.v))
        /\ call' = [call EXCEPT !.v = Following(@), !.p = @ + 1, !.n = @ - 1]
        /\ UNCHANGED <<pool, state, cr3, current, tlb, free, spaces>>
    BY <1>3, MapEffect
  <2>2. call \in [op : {"map"}, v : Pages, p : Nat, n : 0 .. MaxPages, flags : MapFlags]
    BY <1>1 DEF IInv, CallInv, Calls, None
  <2>3. call' \in [op : {"map"}, v : Pages, p : Nat, n : 0 .. MaxPages, flags : MapFlags]
        /\ call'.v = Following(call.v) /\ call'.p = call.p + 1 /\ call'.n = call.n - 1
    <3>1. call' = [call EXCEPT !.v = Following(call.v), !.p = @ + 1, !.n = @ - 1]
      BY <2>1
    <3> QED BY <1>1, <2>2, <3>1, MapCallNext
  <2>4. \E p \in DataFrames, i \in 0 .. MaxPages : call'.p = p + i /\ i + call'.n <= MaxPages
    <3>1. PICK p \in DataFrames, i \in 0 .. MaxPages : call.p = p + i /\ i + call.n <= MaxPages
      BY <1>1 DEF IInv, CallInv
    <3>2. i + 1 \in 0 .. MaxPages /\ call'.p = p + (i + 1) /\ (i + 1) + call'.n <= MaxPages
      BY <1>1, <2>3, <3>1
    <3> QED BY <3>2
  <2>5. CallInv' /\ Started' /\ call'.op # "clone"
    BY <1>1, <2>1, <2>3, <2>4 DEF CallInv, Calls, Started
  <2>6. \A x \in tlb : x[1] # call.v
    BY <2>1 DEF IInv, TlbInv
  <2>7. Types' /\ WindowInv' /\ FrameInv' /\ UseInv' /\ TlbInv'
    BY <1>1, <2>1, <2>5, <2>6, WriteStep DEF WriteEntry
  <2> QED BY <2>5, <2>7 DEF IInv
<1> QED BY <1>2, <1>3

LEMMA UnmapStep ==
    ASSUME IInv, SecondWindowUncached, unmap_one_page
    PROVE  IInv'
<1>1. /\ state = "up" /\ Started /\ call.op = "unmap" /\ call.n \in 1 .. MaxPages
      /\ Following(call.v) \in Pages /\ Room(Following(call.v), call.n - 1)
      /\ MaxPages \in Nat
  BY ActiveCall, VmmAssumption DEF unmap_one_page, Running
<1>2. CASE state' = "panic"
  BY <1>1, <1>2, StopStep DEF unmap_one_page, panic
<1>3. CASE state' # "panic"
  <2>1. /\ WriteEntry(call.v, Zero)
        /\ call' = [call EXCEPT !.v = Following(@), !.n = @ - 1]
        /\ tlb' = {x \in tlb : x[1] # call.v}
        /\ UNCHANGED <<pool, state, cr3, current, free, spaces>>
    BY <1>3, UnmapEffect
  <2>2. call \in [op : {"unmap"}, v : Pages, n : 0 .. MaxPages]
    BY <1>1 DEF IInv, CallInv, Calls, None
  <2>3. call' \in [op : {"unmap"}, v : Pages, n : 0 .. MaxPages]
        /\ call'.v = Following(call.v) /\ call'.n = call.n - 1
    <3>1. call' = [call EXCEPT !.v = Following(call.v), !.n = @ - 1]
      BY <2>1
    <3> QED BY <1>1, <2>2, <3>1, UnmapCallNext, ZenonT(60)
  <2>4. CallInv' /\ Started' /\ call'.op # "clone"
    BY <1>1, <2>1, <2>3 DEF CallInv, Calls, Started
  <2>5. tlb' \subseteq tlb /\ \A x \in tlb' : x[1] # call.v
    BY <2>1
  <2>6. Types' /\ WindowInv' /\ FrameInv' /\ UseInv' /\ TlbInv'
    BY <1>1, <2>1, <2>4, <2>5, WriteStep DEF WriteEntry
  <2> QED BY <2>4, <2>6 DEF IInv
<1> QED BY <1>2, <1>3

LEMMA FillStep ==
    ASSUME IInv, NEW v \in Cached, Fill(v)
    PROVE  IInv'
<1>1. /\ Present(Walk(v)) /\ tlb' = tlb \cup {<<v, Walk(v).frame>>}
      /\ UNCHANGED <<pool, state, mem, cr3, current, free, spaces, call>>
  BY DEF Fill
<1>2. v \in Pages
  BY VmmAssumption
<1>3. Walk(v).frame \in Nat
  <2>1. Present(mem[BootDir][v[1]]) /\ Walk(v) = mem[mem[BootDir][v[1]].frame][v[2]]
        /\ v[1] \in Slots /\ v[2] \in Slots
    BY <1>1, <1>2, WalkFacts, EntryFacts
  <2>2. Walk(v) \in EntryType
    BY <2>1, BootEntries DEF IInv, Types
  <2> QED BY <2>2 DEF EntryType
<1>4. Types'
  BY <1>1, <1>3 DEF IInv, Types
<1>5. Directories' = Directories /\ Last' = Last /\ (Started' <=> Started)
      /\ \A a : Filled(a)' = Filled(a)
  BY <1>1 DEF Directories, Last, Started, Filled, Complete, Lower
<1>6. CallInv' /\ WindowInv'
  BY <1>1, <1>5 DEF IInv, CallInv, WindowInv
<1>7. FrameInv'
  BY <1>1, <1>5 DEF IInv, FrameInv
<1>8. UseInv'
  BY <1>1, <1>5 DEF IInv, UseInv
<1>9. TlbInv'
  <2>1. \A w : Walk(w)' = Walk(w)
    BY <1>1 DEF Walk, WalkIn
  <2> QED BY <1>1, <2>1, SMTT(30) DEF IInv, TlbInv
<1> QED BY <1>4, <1>6, <1>7, <1>8, <1>9 DEF IInv

(* The end of a call: all entries of a clone are filled in.                *)
LEMMA DoneStep ==
    ASSUME IInv, CallDone \/ CloneDone
    PROVE  IInv'
<1>1. /\ state = "up" /\ call' = None /\ Started /\ Started'
      /\ UNCHANGED <<pool, state, mem, cr3, current, tlb, free, spaces>>
  BY DEF CallDone, CloneDone, Running, Started
<1>2. CallInv'
  BY <1>1 DEF CallInv, Calls, None
<1>3. \A a : Filled(a)' = Lower
  BY <1>1 DEF Filled, Complete, None, Lower
<1>4. call.op = "clone" => call.d = KernelEnd
  BY DEF CallDone, CloneDone, Running
<1>5. \A a : Filled(a) = Lower
  BY <1>4 DEF Filled, Complete, Lower
<1> QED BY <1>1, <1>2, <1>3, <1>5, QuietStep

LEMMA CloneAnyStep ==
    ASSUME IInv, SecondWindowUncached, Below4GB,
           (\E cow \in BOOLEAN : clone_address_space(cow)) \/ CloneDirEntry
    PROVE  IInv'
<1>1. CASE state' = "wild"
  <2>1. state = "up" /\ UNCHANGED <<mem, cr3, current, tlb, pool, free, spaces, call>>
    BY <1>1 DEF clone_address_space, CloneDirEntry, CloneWild, Idle, Running
  <2> QED BY <1>1, <2>1, StopStep DEF Started
<1> QED BY <1>1, CloneStep, CloneDirStep

-----------------------------------------------------------------------------
(* The theorems                                                            *)

LEMMA StepHolds ==
    ASSUME InRange, SecondWindowUncached, Below4GB, IInv, [Next]_vars
    PROVE  IInv'
<1>1. CASE UNCHANGED vars
  <2>1. CallInv' /\ (Started' <=> Started) /\ \A a : Filled(a)' = Filled(a)
    BY <1>1 DEF vars, IInv, CallInv, Started, Filled, Complete, Lower
  <2>2. state' \in {"boot", "up", "panic", "wild"}
    BY <1>1 DEF vars, IInv, Types
  <2> QED BY <1>1, <2>1, <2>2, QuietStep DEF vars
<1> QED BY <1>1, StartStep, InitTableStep, InitDoneStep, CallsStep, EnsureStep, MapStep,
           UnmapStep, DoneStep, CloneAnyStep, FillStep DEF Next, Stopped

(* The inductive invariant holds in every reachable state.                 *)
THEOREM Invariance == InRange /\ SecondWindowUncached /\ Below4GB => (Spec => []IInv)
<1> SUFFICES ASSUME InRange, SecondWindowUncached, Below4GB PROVE Spec => []IInv
  OBVIOUS
<1>1. IInv /\ [Next]_vars => IInv'
  BY StepHolds
<1> QED BY <1>1, InitHolds, PTL DEF Spec

(* invlpg in unmap_one_page is all that the TLB needs to be told: no       *)
(* translation outlives the entry it was made from.                        *)
THEOREM TlbCoherentAlways == InRange /\ SecondWindowUncached /\ Below4GB => (Spec => []TlbCoherent)
<1>1. IInv => TlbCoherent
  BY DEF IInv, TlbInv, TlbCoherent
<1> QED BY <1>1, Invariance, PTL

(* The recursive page directory trick works: get_mapping returns what the  *)
(* MMU uses.                                                               *)
THEOREM LookupRightAlways == InRange /\ SecondWindowUncached /\ Below4GB => (Spec => []LookupRight)
<1>1. ASSUME IInv PROVE LookupRight
  <2> SUFFICES ASSUME state = "up", NEW v \in Pages
               PROVE  get_mapping(v) = {IF Present(Walk(v)) THEN Walk(v) ELSE Zero}
    BY DEF LookupRight
  <2>1. Started
    BY DEF Started
  <2>2. Dir(mem, RPDT_BASE) = {BootDir}
    BY <1>1, <2>1, WindowDir
  <2>3. /\ v[1] \in Slots
        /\ Walk(v) = IF Present(mem[BootDir][v[1]])
                     THEN mem[mem[BootDir][v[1]].frame][v[2]] ELSE Zero
    BY <1>1, WalkFacts
  <2>4. CASE Present(mem[BootDir][v[1]])
    <3>1. Table(mem, RPDT_BASE, v[1]) = {mem[BootDir][v[1]].frame}
      BY <1>1, <2>1, <2>3, <2>4, WindowTable
    <3> QED BY <2>2, <2>3, <2>4, <3>1 DEF get_mapping
  <2>5. CASE ~Present(mem[BootDir][v[1]])
    BY <2>2, <2>3, <2>5, EntryFacts DEF get_mapping
  <2> QED BY <2>4, <2>5
<1> QED BY <1>1, Invariance, PTL

LEMMA TypeInvariant == IInv => TypeOK
<1> SUFFICES ASSUME IInv PROVE TypeOK
  OBVIOUS
<1>1. cr3 \in Frames /\ tlb \subseteq Pages \X Nat
  BY FrameFacts, VmmAssumption DEF IInv, Types
<1>2. \/ call = None
      \/ call.op \in {"init", "clone"} /\ call.d \in 0 .. KernelEnd
      \/ call.op \in {"map", "unmap"} /\ call.v \in Pages /\ call.n \in Nat
  <2>1. CASE call \in [op : {"init"}, d : KernelStart .. KernelEnd]
    BY <2>1, Geometry DEF KernelEnd, RPDT_BASE2
  <2>2. CASE call \notin [op : {"init"}, d : KernelStart .. KernelEnd]
    BY <2>2, VmmAssumption DEF IInv, CallInv, Calls
  <2> QED BY <2>1, <2>2
<1> QED BY <1>1, <1>2 DEF IInv, Types, TypeOK

(* Frames are neither lost nor used twice, in any number of clones.        *)
THEOREM FramesAccountedAlways == InRange /\ SecondWindowUncached /\ Below4GB => (Spec => []FramesAccounted)
<1>1. ASSUME IInv PROVE FramesAccounted
  <2> SUFFICES ASSUME state = "up"
               PROVE  LET dirs == {d \in Directories : Complete(d)}
                          used == Directories \cup UNION {TablesOf(d) : d \in dirs}
                      IN  /\ call.op # "clone" => pool \ free = used \ {BootDir, BootTable}
                          /\ used \cap free = {}
                          /\ \A a, b \in dirs : \A i, j \in 0 .. (KernelEnd - 1) :
                                /\ Present(mem[a][i]) /\ Present(mem[b][j])
                                /\ mem[a][i].frame = mem[b][j].frame
                                /\ mem[a][i].frame # BootTable
                                => i = j /\ (a = b \/ i >= KernelStart)
    BY <1>1, TypeInvariant DEF FramesAccounted
  <2> DEFINE dirs == {d \in Directories : Complete(d)}
             used == Directories \cup UNION {TablesOf(d) : d \in dirs}
  <2>1. /\ BootDir \notin pool /\ BootTable \notin pool /\ free \subseteq pool
        /\ \A a \in Directories : a \notin free /\ (a # BootDir => a \in pool)
    BY <1>1, DirectoryFacts DEF IInv, Types
  <2>2. \A a \in dirs : a \in Directories /\ Filled(a) = Lower
    BY DEF Filled
  <2>3. \A a \in dirs, i \in Lower : Present(mem[a][i]) =>
           /\ mem[a][i].frame \in (pool \ free) \cup {BootTable}
           /\ \A b \in dirs, j \in Lower :
                 Present(mem[b][j]) /\ mem[a][i].frame = mem[b][j].frame
                     /\ mem[a][i].frame # BootTable
                 => a = b /\ i = j
    BY <1>1, <2>2 DEF IInv, FrameInv
  <2>4. \A f : f \in used <=>
           \/ f \in Directories
           \/ \E a \in dirs, i \in Lower : Present(mem[a][i]) /\ mem[a][i].frame = f
    BY DEF TablesOf, Lower
  <2>5. call.op # "clone" => dirs = Directories
    BY DEF Complete
  <2> HIDE DEF dirs, used
  <2>6. used \cap free = {}
    BY <2>1, <2>3, <2>4
  <2>7. ASSUME call.op # "clone" PROVE pool \ free = used \ {BootDir, BootTable}
    <3>1. \A f \in pool \ free : f \in used
      BY <1>1, <2>2, <2>4, <2>5, <2>7 DEF IInv, UseInv
    <3>2. \A f \in used \ {BootDir, BootTable} : f \in pool \ free
      BY <2>1, <2>3, <2>4
    <3> QED BY <2>1, <3>1, <3>2
  <2>8. \A a, b \in dirs : \A i, j \in 0 .. (KernelEnd - 1) :
           /\ Present(mem[a][i]) /\ Present(mem[b][j])
           /\ mem[a][i].frame = mem[b][j].frame
           /\ mem[a][i].frame # BootTable
           => i = j /\ (a = b \/ i >= KernelStart)
    BY <2>3 DEF Lower
  <2> QED BY <2>6, <2>7, <2>8 DEF dirs, used
<1> QED BY <1>1, Invariance, PTL

-----------------------------------------------------------------------------
(* Refinement of PageMap                                                   *)

Mapped == {w \in FreelyMapped : Present(Walk(w))}

Mapping == [v \in Mapped |-> Walk(v)]

(* Tables that are in use stay, and a new table is empty.                  *)
TablesKept ==
    \A i \in Lower :
        IF Present(mem[BootDir][i])
        THEN /\ mem'[BootDir][i] = mem[BootDir][i]
             /\ mem'[mem[BootDir][i].frame] = mem[mem[BootDir][i].frame]
        ELSE Present(mem'[BootDir][i]) => mem'[mem'[BootDir][i].frame] = ZeroPage

LEMMA KeptMapping ==
    ASSUME IInv, cr3' = cr3, TablesKept
    PROVE  Mapping' = Mapping
<1>1. ASSUME NEW v \in FreelyMapped
      PROVE  /\ Present(Walk(v)') <=> Present(Walk(v))
             /\ Present(Walk(v)) => Walk(v)' = Walk(v)
  <2>1. v[1] \in Lower /\ v[2] \in Slots /\ v \in Pages
    BY Geometry DEF FreelyMapped, Pages, Slots, Lower, KernelEnd, RPDT_BASE2
  <2>2. Walk(v) = IF Present(mem[BootDir][v[1]])
                  THEN mem[mem[BootDir][v[1]].frame][v[2]] ELSE Zero
    BY <2>1, WalkFacts
  <2>3. cr3' = BootDir
    BY DEF IInv, Types
  <2>4. CASE Present(mem[BootDir][v[1]])
    <3>1. mem[BootDir][v[1]].frame \in Frames
      BY <2>1, <2>4, BootEntries, Geometry
    <3>2. Walk(v)' = mem'[mem[BootDir][v[1]].frame][v[2]]
      BY <2>1, <2>3, <2>4, <3>1 DEF Walk, WalkIn, TablesKept
    <3> QED BY <2>1, <2>2, <2>4, <3>2 DEF TablesKept
  <2>5. CASE ~Present(mem[BootDir][v[1]])
    <3>1. ~Present(Walk(v)')
      BY <2>1, <2>3, <2>5, EntryFacts DEF Walk, WalkIn, TablesKept
    <3> QED BY <2>2, <2>5, <3>1, EntryFacts
  <2> QED BY <2>4, <2>5
<1>2. Mapped' = Mapped
  BY <1>1 DEF Mapped
<1>3. \A v \in Mapped : Walk(v)' = Walk(v)
  BY <1>1 DEF Mapped
<1> QED BY <1>2, <1>3 DEF Mapping

(* All steps but those of map and unmap keep the tables.                   *)
LEMMA OtherStepsKeep ==
    ASSUME IInv, InRange, SecondWindowUncached, Below4GB, [Next]_vars,
           ~(map_one_page /\ state' # "panic"), ~(unmap_one_page /\ state' # "panic")
    PROVE  cr3' = cr3 /\ TablesKept
<1>1. /\ \A i \in Lower : i \in Slots /\ i # RPDT_BASE /\ i # RPDT_BASE2
      /\ \A i \in Lower : Present(mem[BootDir][i]) =>
            /\ mem[BootDir][i].frame \in Frames /\ mem[BootDir][i].frame \notin free
            /\ mem[BootDir][i].frame \notin Directories
      /\ BootDir \in Frames /\ BootDir \notin free /\ BootDir \in Directories
  BY BootEntries, Geometry, FrameFacts, DirectoryFacts DEF IInv, Directories
<1>2. CASE UNCHANGED <<mem, cr3>>
  BY <1>2 DEF TablesKept
<1>3. ASSUME init_virtual_memory PROVE cr3' = cr3 /\ TablesKept
  <2>1. /\ mem \in [Frames -> [Slots -> EntryType]] /\ cr3' = cr3
        /\ mem' = [mem EXCEPT ![BootDir][RPDT_BASE] = Entry(BootDir, {"write"})]
    BY <1>3 DEF init_virtual_memory, IInv, Types
  <2>2. /\ \A i \in Slots \ {RPDT_BASE} : mem'[BootDir][i] = mem[BootDir][i]
        /\ \A f \in Frames \ {BootDir} : mem'[f] = mem[f]
    BY <1>1, <2>1, Geometry
  <2> QED BY <1>1, <2>1, <2>2 DEF TablesKept
<1>4. ASSUME NEW d \in Lower, NEW flags \in SUBSET Flags, Started,
             free # {}, ~HasTable(d), NewTable(d, flags)
      PROVE  TablesKept
  <2>1. ~Present(mem[BootDir][d])
    BY <1>4, TablePresent
  <2>2. PICK t \in free :
           /\ mem'[BootDir][d] = Entry(t, flags)
           /\ \A i \in Slots \ {d} : mem'[BootDir][i] = mem[BootDir][i]
           /\ mem'[t] = ZeroPage
           /\ \A f \in Frames \ {BootDir, t} : mem'[f] = mem[f]
    BY <1>4, <2>1, NewTableEffect
  <2> QED BY <1>1, <2>1, <2>2, EntryFacts DEF TablesKept
<1>5. ASSUME InitTable PROVE cr3' = cr3 /\ TablesKept
  <2>1. Started /\ call.d \in Lower
    BY <1>5, Geometry DEF InitTable, Started, IInv, CallInv, Calls, None, Lower, KernelEnd, RPDT_BASE2
  <2> QED BY <1>2, <1>4, <1>5, <2>1, FlagFacts DEF InitTable
<1>6. ASSUME ensure_page_table_mapped PROVE cr3' = cr3 /\ TablesKept
  <2>1. Started /\ call.v[1] \in Lower
    BY <1>6, ActiveCall DEF ensure_page_table_mapped
  <2> QED BY <1>2, <1>4, <1>6, <2>1, FlagFacts DEF ensure_page_table_mapped, panic
<1>7. ASSUME NEW cow \in BOOLEAN, clone_address_space(cow), state' # "wild"
      PROVE  cr3' = cr3 /\ TablesKept
  <2>1. PICK p \in free :
           /\ \A i \in Slots \ {RPDT_BASE2} : mem'[BootDir][i] = mem[BootDir][i]
           /\ \A f \in Frames \ {BootDir, p} : mem'[f] = mem[f]
    BY <1>7, CloneEffect
  <2> QED BY <1>1, <1>7, <2>1, CloneEffect DEF TablesKept
<1>8. ASSUME CloneDirEntry, state' # "wild" PROVE cr3' = cr3 /\ TablesKept
  <2>1. Last \in Directories /\ Last # BootDir
    BY <1>8, DirectoryFacts DEF CloneDirEntry, Running, IInv, CallInv
  <2>2. \/ \A f \in Frames \ {Last} : mem'[f] = mem[f]
        \/ \E p \in free : \A f \in Frames \ {Last, p} : mem'[f] = mem[f]
    BY <1>8, CloneDirEffect
  <2>3. cr3' = cr3
    BY <1>8, CloneDirEffect
  <2> QED BY <1>1, <2>1, <2>2, <2>3 DEF TablesKept
<1>9. ASSUME (\E cow \in BOOLEAN : clone_address_space(cow)) \/ CloneDirEntry, state' = "wild"
      PROVE  UNCHANGED <<mem, cr3>>
  BY <1>9 DEF clone_address_space, CloneDirEntry, CloneWild, Idle, Running
<1>10. ASSUME \/ InitDone \/ CallDone \/ CloneDone \/ Stopped \/ UNCHANGED vars
              \/ \E v \in CallerPages, n \in 1 .. MaxPages :
                   unmap(v, n) \/ \E p \in DataFrames, flags \in MapFlags : map(v, p, n, flags)
              \/ \E v \in Cached : Fill(v)
              \/ (map_one_page \/ unmap_one_page) /\ state' = "panic"
      PROVE  UNCHANGED <<mem, cr3>>
  <2>1. CASE (map_one_page \/ unmap_one_page) /\ state' = "panic"
    BY <2>1, ActiveCall DEF map_one_page, unmap_one_page, panic, Running
  <2> QED BY <1>10, <2>1 DEF InitDone, CallDone, CloneDone, Stopped, vars, unmap, map, Fill
<1> QED BY <1>2, <1>3, <1>5, <1>6, <1>7, <1>8, <1>9, <1>10 DEF Next

(* A written entry is the translation of its page, and of no other.        *)
LEMMA WrittenMapping ==
    ASSUME IInv, cr3' = cr3, NEW v, NEW e, WriteEntry(v, e)
    PROVE  Walk(v)' = e /\ \A w \in FreelyMapped \ {v} : Walk(w)' = Walk(w)
<1>1. v \in FreelyMapped /\ Present(mem[BootDir][v[1]]) /\ cr3' = BootDir
  BY DEF WriteEntry, IInv, Types
<1>2. PICK t \in Frames :
         /\ t = mem[BootDir][v[1]].frame
         /\ \A f \in Frames \ {t} : mem'[f] = mem[f]
         /\ mem'[t][v[2]] = e
         /\ \A j \in Slots \ {v[2]} : mem'[t][j] = mem[t][j]
  BY DEF WriteEntry
<1>3. /\ t \notin Directories /\ v = <<v[1], v[2]>> /\ v[1] \in Lower
      /\ \A i \in Lower : Present(mem[BootDir][i]) /\ mem[BootDir][i].frame = t => i = v[1]
  BY <1>1, <1>2, OwnTable
<1>4. mem'[BootDir] = mem[BootDir]
  BY <1>2, <1>3, FrameFacts DEF Directories
<1>5. Walk(v)' = e
  BY <1>1, <1>2, <1>4 DEF Walk, WalkIn
<1>6. ASSUME NEW w \in FreelyMapped \ {v} PROVE Walk(w)' = Walk(w)
  <2>1. w[1] \in Lower /\ w[2] \in Slots /\ w \in Pages /\ w = <<w[1], w[2]>>
    BY Geometry DEF FreelyMapped, Pages, Slots, Lower, KernelEnd, RPDT_BASE2
  <2>2. Walk(w) = IF Present(mem[BootDir][w[1]])
                  THEN mem[mem[BootDir][w[1]].frame][w[2]] ELSE Zero
    BY <2>1, WalkFacts
  <2>3. CASE Present(mem[BootDir][w[1]])
    <3>1. mem[BootDir][w[1]].frame \in Frames
      BY <2>1, <2>3, BootEntries, Geometry
    <3>2. Walk(w)' = mem'[mem[BootDir][w[1]].frame][w[2]]
      BY <1>1, <1>4, <2>3, <3>1 DEF Walk, WalkIn
    <3>3. mem[BootDir][w[1]].frame = t => w[2] # v[2]
      BY <1>3, <2>1, <2>3
    <3> QED BY <1>2, <2>1, <2>2, <2>3, <3>1, <3>2, <3>3
  <2>4. CASE ~Present(mem[BootDir][w[1]])
    BY <1>1, <1>4, <2>2, <2>4 DEF Walk, WalkIn
  <2> QED BY <2>3, <2>4
<1> QED BY <1>5, <1>6

(* The request that the call in progress is.                               *)
Request == IF call.op \in {"map", "unmap"} THEN call ELSE None

LEMMA RequestNext ==
    ASSUME IInv, Running("map") \/ Running("unmap"), More
    PROVE  /\ Request = call /\ call.v \in FreelyMapped
           /\ [v \in FreelyMapped |-> Following(v)][call.v] = Following(call.v)
<1>1. call.v \in FreelyMapped
  BY ActiveCall
<1>2. call.op \in {"map", "unmap"}
  BY DEF Running
<1> QED BY <1>1, <1>2 DEF Request

LEMMA MapRefines ==
    ASSUME IInv, Below4GB, map_one_page, state' # "panic"
    PROVE  Abstract!Map
<1>1. PICK v \in FreelyMapped : /\ v = call.v
                                /\ WriteEntry(v, Entry(call.p, EntryFlags(call.flags)))
  BY MapEffect DEF WriteEntry
<1>2. PICK e : e = Entry(call.p, EntryFlags(call.flags)) /\ WriteEntry(v, e)
  BY <1>1
<1>3. Walk(v)' = e /\ \A w \in FreelyMapped \ {v} : Walk(w)' = Walk(w)
  BY <1>2, MapEffect, WrittenMapping
<1>4. ~Present(Walk(v)) /\ Present(e)
  BY <1>1, <1>2, MapEffect, EntryFacts
<1>5. Mapped' = Mapped \cup {v} /\ v \notin Mapped
  BY <1>3, <1>4 DEF Mapped
<1>6. e = [frame |-> call.p, flags |-> Abstract!Granted(call.flags)]
  <2>1. EntryFlags(call.flags) \cup {"present"} = Abstract!Granted(call.flags)
    BY DEF EntryFlags, Abstract!Granted
  <2> QED BY <1>2, <2>1 DEF Entry
<1>7. Mapping' = [w \in Mapped \cup {v} |-> IF w = v THEN e ELSE Mapping[w]]
  <2>1. \A w \in Mapped : w # v /\ w \in FreelyMapped /\ Walk(w)' = Walk(w) /\ Mapping[w] = Walk(w)
    BY <1>3, <1>5 DEF Mapped, Mapping
  <2>2. Mapping' = [w \in Mapped' |-> Walk(w)']
    BY DEF Mapping
  <2> QED BY <1>3, <1>5, <2>1, <2>2
<1>8. DOMAIN Mapping = Mapped
  BY DEF Mapping
<1>9. /\ call.op = "map" /\ call.n > 0 /\ Request = call
      /\ [w \in FreelyMapped |-> Following(w)][call.v] = Following(call.v)
  BY RequestNext DEF map_one_page, Running, More
<1>10. call' = [call EXCEPT !.v = [w \in FreelyMapped |-> Following(w)][@], !.p = @ + 1, !.n = @ - 1]
  BY <1>9, MapEffect
<1>11. Request' = call'
  <2>1. call \in [op : {"map"}, v : Pages, p : Nat, n : 0 .. MaxPages, flags : MapFlags]
    BY <1>9 DEF IInv, CallInv, Calls, None
  <2>2. call'.op = "map"
    BY <1>10, <2>1
  <2> QED BY <2>2 DEF Request
<1>12. Mapping' = [w \in DOMAIN Mapping \cup {Request.v} |->
                      IF w = Request.v
                      THEN [frame |-> Request.p, flags |-> Abstract!Granted(Request.flags)]
                      ELSE Mapping[w]]
  BY <1>1, <1>6, <1>7, <1>8, <1>9
<1>13. Request.v \in FreelyMapped \ DOMAIN Mapping
  BY <1>1, <1>5, <1>8, <1>9
<1>14. /\ Request.op = "map" /\ Request.n > 0
       /\ Request' = [Request EXCEPT !.v = [w \in FreelyMapped |-> Following(w)][@],
                                     !.p = @ + 1, !.n = @ - 1]
  BY <1>9, <1>10, <1>11
<1> QED BY <1>12, <1>13, <1>14 DEF Abstract!Map, Mapping, Mapped, Request

LEMMA UnmapRefines ==
    ASSUME IInv, unmap_one_page, state' # "panic"
    PROVE  Abstract!Unmap
<1>1. PICK v \in FreelyMapped : v = call.v /\ WriteEntry(v, Zero)
  BY UnmapEffect DEF WriteEntry
<1>2. Walk(v)' = Zero /\ \A w \in FreelyMapped \ {v} : Walk(w)' = Walk(w)
  BY <1>1, UnmapEffect, WrittenMapping
<1>3. Present(Walk(v)) /\ ~Present(Zero)
  BY <1>1, UnmapEffect, EntryFacts
<1>4. Mapped' = Mapped \ {v} /\ v \in Mapped
  BY <1>2, <1>3 DEF Mapped
<1>5. Mapping' = [w \in Mapped \ {v} |-> Mapping[w]]
  <2>1. \A w \in Mapped \ {v} : Walk(w)' = Walk(w) /\ Mapping[w] = Walk(w)
    BY <1>2 DEF Mapped, Mapping
  <2>2. Mapping' = [w \in Mapped' |-> Walk(w)']
    BY DEF Mapping
  <2> QED BY <1>4, <2>1, <2>2
<1>6. DOMAIN Mapping = Mapped
  BY DEF Mapping
<1>7. /\ call.op = "unmap" /\ call.n > 0 /\ Request = call
      /\ [w \in FreelyMapped |-> Following(w)][call.v] = Following(call.v)
  BY RequestNext DEF unmap_one_page, Running, More
<1>8. call' = [call EXCEPT !.v = [w \in FreelyMapped |-> Following(w)][@], !.n = @ - 1]
  BY <1>7, UnmapEffect
<1>9. Request' = call'
  <2>1. call \in [op : {"unmap"}, v : Pages, n : 0 .. MaxPages]
    BY <1>7 DEF IInv, CallInv, Calls, None
  <2>2. call'.op = "unmap"
    BY <1>8, <2>1
  <2> QED BY <2>2 DEF Request
<1>10. Mapping' = [w \in DOMAIN Mapping \ {Request.v} |-> Mapping[w]]
  BY <1>1, <1>5, <1>6, <1>7
<1>11. Request.v \in FreelyMapped \cap DOMAIN Mapping
  BY <1>1, <1>4, <1>6, <1>7
<1>12. /\ Request.op = "unmap" /\ Request.n > 0
       /\ Request' = [Request EXCEPT !.v = [w \in FreelyMapped |-> Following(w)][@], !.n = @ - 1]
  BY <1>7, <1>8, <1>9
<1> QED BY <1>10, <1>11, <1>12 DEF Abstract!Unmap, Mapping, Mapped, Request

LEMMA StartsEmpty ==
    ASSUME Init
    PROVE  Abstract!Init
<1>1. IInv
  BY InitHolds
<1>2. \A v \in FreelyMapped : ~Present(Walk(v))
  <2> SUFFICES ASSUME NEW v \in FreelyMapped PROVE ~Present(Walk(v))
    OBVIOUS
  <2>1. v \in Pages /\ v[1] \in Slots /\ v[1] \notin BootSlots
    BY DEF FreelyMapped, Pages
  <2>2. mem[BootDir][v[1]] = Zero
    BY <2>1, FrameFacts DEF Init, BootEntry
  <2> QED BY <1>1, <2>1, <2>2, WalkFacts, EntryFacts
<1>3. Mapped = {}
  BY <1>2 DEF Mapped
<1>4. [v \in Mapped |-> Walk(v)] = <<>>
  BY <1>3
<1>5. Request = None
  BY DEF Init, Request, None
<1> QED BY <1>4, <1>5 DEF Abstract!Init, Abstract!NoRequest, Mapped, Request, None

(* A call of map or unmap is a request, and its end is the answer.         *)
LEMMA CallsRefine ==
    ASSUME Idle, NEW v \in CallerPages, NEW n \in 1 .. MaxPages,
           unmap(v, n) \/ \E p \in DataFrames, flags \in MapFlags : map(v, p, n, flags)
    PROVE  Request = None /\ Request' \in Requests
<1>1. Request = None
  BY DEF Idle, Request, None
<1>2. CASE unmap(v, n)
  <2>1. call' = [op |-> "unmap", v |-> v, n |-> n]
    BY <1>2 DEF unmap
  <2> QED BY <1>1, <2>1 DEF Request, Requests
<1>3. ASSUME NEW p \in DataFrames, NEW flags \in MapFlags, map(v, p, n, flags)
      PROVE  Request' \in Requests
  <2>1. call' = [op |-> "map", v |-> v, p |-> p, n |-> n, flags |-> flags]
    BY <1>3 DEF map
  <2> QED BY <2>1 DEF Request, Requests
<1> QED BY <1>1, <1>2, <1>3

LEMMA DoneRefines ==
    ASSUME IInv, CallDone
    PROVE  Request.op \in {"map", "unmap"} /\ Request.n = 0 /\ Request' = None
<1>1. call.op \in {"map", "unmap"} /\ call' = None /\ ~(call.n > 0)
  BY DEF CallDone, Running, More
<1>2. call.n \in 0 .. MaxPages
  BY <1>1 DEF IInv, CallInv, Calls, None
<1>3. call.n = 0
  BY <1>1, <1>2, VmmAssumption
<1> QED BY <1>1, <1>3 DEF Request, None

(* The other steps are no part of a call of map or unmap, or leave it.     *)
LEMMA OthersLeaveRequest ==
    ASSUME IInv, [Next]_vars,
           ~(map_one_page /\ state' # "panic"), ~(unmap_one_page /\ state' # "panic"),
           ~CallDone,
           ~\E v \in CallerPages, n \in 1 .. MaxPages :
               unmap(v, n) \/ \E p \in DataFrames, flags \in MapFlags : map(v, p, n, flags)
    PROVE  Request' = Request
<1>1. ASSUME init_virtual_memory PROVE Request' = Request
  BY <1>1 DEF init_virtual_memory, Request, None
<1>2. ASSUME InitTable PROVE Request' = Request
  <2>1. call \in [op : {"init"}, d : KernelStart .. KernelEnd]
    BY <1>2 DEF InitTable, IInv, CallInv, Calls, None
  <2>2. call'.op = "init"
    BY <1>2, <2>1 DEF InitTable
  <2> QED BY <2>1, <2>2 DEF Request
<1>3. ASSUME InitDone PROVE Request' = Request
  BY <1>3 DEF InitDone, Request, None
<1>4. ASSUME ensure_page_table_mapped PROVE Request' = Request
  BY <1>4 DEF ensure_page_table_mapped, panic, Request
<1>5. ASSUME (map_one_page \/ unmap_one_page) /\ state' = "panic" PROVE Request' = Request
  BY <1>5, ActiveCall DEF map_one_page, unmap_one_page, panic, Request
<1>6. ASSUME NEW cow \in BOOLEAN, clone_address_space(cow) PROVE Request' = Request
  <2>1. call = None
    BY <1>6 DEF clone_address_space, Idle
  <2>2. call' = call \/ call' = [op |-> "clone", d |-> 0, cow |-> cow]
    BY <1>6 DEF clone_address_space, CloneWild
  <2> QED BY <2>1, <2>2 DEF Request, None
<1>7. ASSUME CloneDirEntry PROVE Request' = Request
  <2>1. call \in [op : {"clone"}, d : 0 .. KernelEnd, cow : BOOLEAN]
    BY <1>7, CloneCall DEF CloneDirEntry, Running, IInv
  <2>2. call' = call \/ call' = [call EXCEPT !.d = @ + 1]
    BY <1>7 DEF CloneDirEntry, CloneWild
  <2>3. call'.op = "clone"
    BY <2>1, <2>2
  <2> QED BY <2>1, <2>3 DEF Request
<1>8. ASSUME CloneDone PROVE Request' = Request
  BY <1>8 DEF CloneDone, Running, Request, None
<1>9. ASSUME NEW v \in Cached, Fill(v) PROVE Request' = Request
  BY <1>9 DEF Fill, Request
<1>10. ASSUME Stopped \/ UNCHANGED vars PROVE Request' = Request
  BY <1>10 DEF Stopped, vars, Request
<1> QED BY <1>1, <1>2, <1>3, <1>4, <1>5, <1>6, <1>7, <1>8, <1>9, <1>10 DEF Next

(* map and unmap implement PageMap: they change the address space page by  *)
(* page as the request says.  All else, start-up, new page tables, what    *)
(* the TLB keeps and cloning, leaves the address space as it is.           *)
THEOREM Refinement == InRange /\ SecondWindowUncached /\ Below4GB => (Spec => AbstractSpec)
<1> SUFFICES ASSUME InRange, SecondWindowUncached, Below4GB PROVE Spec => AbstractSpec
  OBVIOUS
<1>1. Init => Abstract!Init
  BY StartsEmpty
<1>2. IInv /\ [Next]_vars =>
         [Abstract!Next]_<<[v \in {w \in FreelyMapped : Present(Walk(w))} |-> Walk(v)],
                           IF call.op \in {"map", "unmap"} THEN call ELSE None>>
  <2> SUFFICES ASSUME IInv, [Next]_vars
               PROVE  Abstract!Next \/ (Mapping' = Mapping /\ Request' = Request)
    BY DEF Mapping, Mapped, Request
  <2>1. CASE map_one_page /\ state' # "panic"
    BY <2>1, MapRefines DEF Abstract!Next
  <2>2. CASE unmap_one_page /\ state' # "panic"
    BY <2>2, UnmapRefines DEF Abstract!Next
  <2>3. CASE ~(map_one_page /\ state' # "panic") /\ ~(unmap_one_page /\ state' # "panic")
    <3>1. Mapping' = Mapping
      BY <2>3, OtherStepsKeep, KeptMapping
    <3>2. ASSUME NEW v \in CallerPages, NEW n \in 1 .. MaxPages,
                 unmap(v, n) \/ \E p \in DataFrames, flags \in MapFlags : map(v, p, n, flags)
          PROVE  Abstract!Ask
      <4>1. Idle
        BY <3>2 DEF unmap, map
      <4>2. Request = None /\ Request' \in Requests
        BY <3>2, <4>1, CallsRefine
      <4> QED BY <3>1, <4>2 DEF Abstract!Ask, Abstract!NoRequest, Request, None, Mapping, Mapped
    <3>3. ASSUME CallDone PROVE Abstract!Answer
      BY <3>1, <3>3, DoneRefines DEF Abstract!Answer, Abstract!NoRequest, Request, None, Mapping, Mapped
    <3>4. CASE /\ ~CallDone
               /\ ~\E v \in CallerPages, n \in 1 .. MaxPages :
                      unmap(v, n) \/ \E p \in DataFrames, flags \in MapFlags : map(v, p, n, flags)
      BY <2>3, <3>1, <3>4, OthersLeaveRequest
    <3> QED BY <3>2, <3>3, <3>4 DEF Abstract!Next
  <2> QED BY <2>1, <2>2, <2>3
<1>3. Spec => []IInv
  BY Invariance
<1> QED BY <1>1, <1>2, <1>3, PTL DEF Spec, AbstractSpec, Abstract!Spec
=============================================================================
