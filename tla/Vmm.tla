-------------------------------- MODULE Vmm --------------------------------
(***************************************************************************)
(* The virtual memory manager (arch/x86/vmm.c): page directory and page    *)
(* tables in physical frames, reached through the recursive page directory *)
(* trick, and the TLB between the tables and the CPU.                      *)
(*                                                                         *)
(* Directories and tables have N entries (1024).  A virtual page is a pair *)
(* <<d, t>>: entry d of the directory, entry t of its table.  The code     *)
(* reads and writes entries only through virtual addresses, so every       *)
(* access first translates the page of the window it goes through, from    *)
(* the tables as they are or from what the TLB remembers of them.          *)
(*                                                                         *)
(* Each round of the loops of map, unmap, init_virtual_memory and          *)
(* clone_address_space is one step; calls are serial (one CPU, and each    *)
(* round runs under a lock with interrupts off).                           *)
(***************************************************************************)
EXTENDS Integers, Sequences, FiniteSetsExt

CONSTANTS
    N,              \* entries of a table
    KernelStart,    \* MMAP_KERNEL_START >> 22
    Pools,          \* the frames that early_alloc_page and alloc_page may
                    \* hand out: one set for each size of memory
    DataFrames,     \* frames that callers map
    MapFlags,       \* the flags callers pass to map
    CallerPages,    \* pages at which callers map and unmap
    Cached,         \* pages whose translations the TLB may keep
    FrameLimit,     \* frames that a 32-bit entry can name (2^20)
    MaxPages,       \* bound on num_pages
    MaxClones       \* bound on calls of clone_address_space

BootDir == 0        \* `pd' of loader.s
BootTable == 1      \* `pt' of loader.s
Slots == 0 .. (N - 1)
PoolFrames == UNION Pools
Frames == {BootDir, BootTable} \cup PoolFrames

RPDT_BASE == N - 1
RPDT_BASE2 == N - 2
KernelEnd == RPDT_BASE2     \* MMAP_KERNEL_END >> 22
BootSlots == {0, KernelStart}
Pages == Slots \X Slots

\* The pages whose tables are neither the loader's nor a window.
FreelyMapped == {v \in Pages : v[1] < KernelEnd /\ v[1] \notin BootSlots}

Flags == {"present", "write", "execute", "user", "cow"}
EntryType == [frame : Nat, flags : SUBSET Flags]

(* The machine has no memory above 4GB, and nobody maps any.               *)
Below4GB ==
    /\ \A f \in PoolFrames : f < FrameLimit
    /\ \A p \in DataFrames : p + MaxPages <= FrameLimit

ASSUME VmmAssumption ==
    /\ N \in Nat /\ KernelStart \in 1 .. (N - 3)
    /\ PoolFrames \subseteq Nat \ Slots
    /\ DataFrames \subseteq Nat \ Frames /\ DataFrames # {}
    /\ MapFlags \subseteq SUBSET (Flags \ {"present"})
    /\ CallerPages \subseteq FreelyMapped
    /\ Cached \subseteq Pages
    /\ FrameLimit \in Nat \ {0}
    /\ MaxPages \in Nat /\ MaxClones \in Nat

VARIABLES
    state,      \* "boot", "up", "panic", or "wild" after a write through ~0
    mem,        \* the contents of the frames that hold tables
    cr3,
    current,    \* directory of `current', or -1 for NULL
    tlb,        \* translations the CPU may use: pairs of page and frame
    pool,       \* the pool of this machine
    free,       \* frames of it that are not handed out
    spaces,     \* directories of the clones
    call        \* the call in progress

vars == <<state, mem, cr3, current, tlb, pool, free, spaces, call>>

None == [op |-> "none"]

Zero == [frame |-> 0, flags |-> {}]

Entry(f, flags) == [frame |-> f, flags |-> flags \cup {"present"}]

(* A physical address is 64 bits wide, an entry and a uint32_t are not.    *)
cut(p) == p % FrameLimit

Present(e) == "present" \in e.flags

ZeroPage == [i \in Slots |-> Zero]

-----------------------------------------------------------------------------
(* The MMU and the windows                                                 *)

(* The entry that the MMU finds for page v by walking the tables in m.     *)
WalkIn(m, v) ==
    LET e == m[cr3][v[1]]
    IN  IF Present(e) /\ e.frame \in Frames THEN m[e.frame][v[2]] ELSE Zero

Walk(v) == WalkIn(mem, v)

(* The frames to which an access to page v may go.                         *)
Translations(m, v) ==
    {x[2] : x \in {y \in tlb : y[1] = v}} \cup
    {e.frame : e \in {x \in {WalkIn(m, v)} : Present(x)}}

(* The page of PAGE_DIR_ENTRY(base, v): word v[1] there is the entry.      *)
DirPage(base) == <<base, RPDT_BASE>>

(* The page of PAGE_TABLE_ENTRY(base, <<d, t>>): word t is the entry.      *)
TablePage(base, d) == <<base, d>>

Dir(m, base) == Translations(m, DirPage(base))
Table(m, base, d) == Translations(m, TablePage(base, d))

(* Mutant: the directory entry is not looked at first.                     *)
get_mapping_unchecked(v) ==
    {IF Present(mem[t][v[2]]) THEN mem[t][v[2]] ELSE Zero :
        t \in Table(mem, RPDT_BASE, v[1])}

(* The results that get_mapping may return; Zero for ~0ULL.                *)
get_mapping(v) ==
    UNION {IF Present(mem[d][v[1]])
           THEN {IF Present(mem[t][v[2]]) THEN mem[t][v[2]] ELSE Zero :
                     t \in Table(mem, RPDT_BASE, v[1])}
           ELSE {Zero} : d \in Dir(mem, RPDT_BASE)}

Idle == state = "up" /\ call = None

-----------------------------------------------------------------------------
(* The tables of loader.s: one table, with every page mapped, for the      *)
(* first pages and for the first of the kernel.  The other frames hold     *)
(* what is left over from before; the worst is what looks like mappings.   *)
BootEntry(d) == IF d \in BootSlots THEN Entry(BootTable, {"write"}) ELSE Zero

Leftover == Entry(Min(DataFrames), {"write"})

Init ==
    /\ state = "boot"
    /\ mem = [f \in Frames |->
                 CASE f = BootDir -> [d \in Slots |-> BootEntry(d)]
                   [] f = BootTable -> [t \in Slots |-> Entry(t, {"write"})]
                   [] OTHER -> [i \in Slots |-> Leftover]]
    /\ cr3 = BootDir
    /\ current = -1
    /\ tlb = {}
    /\ pool \in Pools
    /\ free = pool
    /\ spaces = <<>>
    /\ call = None

panic ==
    /\ state' = "panic"
    /\ UNCHANGED <<pool, mem, cr3, current, tlb, free, spaces, call>>

(* The CPU keeps a translation; it may do so at any time, for any page     *)
(* that is mapped.                                                         *)
Fill(v) ==
    /\ Present(Walk(v))
    /\ tlb' = tlb \cup {<<v, Walk(v).frame>>}
    /\ UNCHANGED <<pool, state, mem, cr3, current, free, spaces, call>>

(* Start of init_virtual_memory: the directory is mapped onto itself.      *)
init_virtual_memory ==
    /\ state = "boot" /\ call = None
    /\ current' = cr3
    /\ mem' = [mem EXCEPT ![cr3][RPDT_BASE] = Entry(cr3, {"write"})]
    /\ call' = [op |-> "init", d |-> KernelStart]
    /\ UNCHANGED <<pool, state, cr3, tlb, free, spaces>>

(* A new table at entry d of the current directory, cleared through the    *)
(* window.                                                                 *)
NewTable(d, flags) ==
    \E dir \in Dir(mem, RPDT_BASE) :
        LET t == Min(free)
            m == [mem EXCEPT ![dir][d] = Entry(cut(t), flags)]
        IN  \E z \in Table(m, RPDT_BASE, d) :
               /\ mem' = [m EXCEPT ![z] = ZeroPage]
               /\ free' = free \ {t}

HasTable(d) == \E dir \in Dir(mem, RPDT_BASE) : Present(mem[dir][d])

(* One table of kernel space; early_alloc_page panics if there is no page. *)
InitTable ==
    /\ call.op = "init" /\ state = "boot"
    /\ call.d < KernelEnd
    /\ \/ /\ HasTable(call.d)
          /\ UNCHANGED <<mem, free, state>>
       \/ /\ ~HasTable(call.d)
          /\ free # {}
          /\ NewTable(call.d, {"write"})
          /\ UNCHANGED state
       \/ /\ ~HasTable(call.d)
          /\ free = {}
          /\ state' = "panic"
          /\ UNCHANGED <<mem, free>>
    /\ call' = [call EXCEPT !.d = @ + 1]
    /\ UNCHANGED <<pool, cr3, current, tlb, spaces>>

InitDone ==
    /\ call.op = "init" /\ state = "boot"
    /\ call.d = KernelEnd
    /\ state' = "up"
    /\ call' = None
    /\ UNCHANGED <<pool, mem, cr3, current, tlb, free, spaces>>

-----------------------------------------------------------------------------
(* map and unmap                                                           *)

Following(v) == IF v[2] = N - 1 THEN <<v[1] + 1, 0>> ELSE <<v[1], v[2] + 1>>

map(v, p, n, flags) ==
    /\ Idle
    /\ call' = [op |-> "map", v |-> v, p |-> p, n |-> n, flags |-> flags]
    /\ UNCHANGED <<pool, state, mem, cr3, current, tlb, free, spaces>>

unmap(v, n) ==
    /\ Idle
    /\ call' = [op |-> "unmap", v |-> v, n |-> n]
    /\ UNCHANGED <<pool, state, mem, cr3, current, tlb, free, spaces>>

(* The condition of the loops of map and unmap.                            *)
More == call.n > 0

Running(op) == state = "up" /\ call.op = op

(* Mutant: the new table is not cleared.                                   *)
EnsureUncleared ==
    /\ Running("map") /\ More
    /\ ~HasTable(call.v[1])
    /\ \/ /\ free = {}
          /\ panic
       \/ /\ free # {}
          /\ \E dir \in Dir(mem, RPDT_BASE) :
                mem' = [mem EXCEPT ![dir][call.v[1]] =
                            Entry(cut(Min(free)), {"write", "user"})]
          /\ free' = free \ {Min(free)}
          /\ UNCHANGED <<pool, state, cr3, current, tlb, spaces, call>>

(* The table of the page to be mapped is missing.                          *)
ensure_page_table_mapped ==
    /\ Running("map") /\ More
    /\ ~HasTable(call.v[1])
    /\ \/ /\ free = {}
          /\ panic
       \/ /\ free # {}
          /\ NewTable(call.v[1], {"write", "user"})
          /\ UNCHANGED <<pool, state, cr3, current, tlb, spaces, call>>

(* The flags of the entry: a copy-on-write page is not writable.           *)
EntryFlags(flags) == IF "cow" \in flags THEN flags \ {"write"} ELSE flags

(* The rest of map_one_page, and on to the next page.                      *)
map_one_page ==
    /\ Running("map") /\ More
    /\ HasTable(call.v[1])
    /\ \E t \in Table(mem, RPDT_BASE, call.v[1]) :
          \/ /\ Present(mem[t][call.v[2]])
             /\ panic
          \/ /\ ~Present(mem[t][call.v[2]])
             /\ mem' = [mem EXCEPT ![t][call.v[2]] =
                            Entry(cut(call.p), EntryFlags(call.flags))]
             /\ call' = [call EXCEPT !.v = Following(@), !.p = @ + 1, !.n = @ - 1]
             /\ UNCHANGED <<pool, state, cr3, current, tlb, free, spaces>>

(* Mutant: no invlpg.                                                      *)
UnmapNoFlush ==
    /\ Running("unmap") /\ More
    /\ \/ /\ ~HasTable(call.v[1])
          /\ panic
       \/ /\ HasTable(call.v[1])
          /\ \E t \in Table(mem, RPDT_BASE, call.v[1]) :
                \/ /\ ~Present(mem[t][call.v[2]])
                   /\ panic
                \/ /\ Present(mem[t][call.v[2]])
                   /\ mem' = [mem EXCEPT ![t][call.v[2]] = Zero]
                   /\ call' = [call EXCEPT !.v = Following(@), !.n = @ - 1]
                   /\ UNCHANGED <<pool, state, cr3, current, tlb, free, spaces>>

(* One page of unmap: it panics if there is no table or no mapping, else   *)
(* it clears the entry and tells the TLB (invlpg).                         *)
unmap_one_page ==
    /\ Running("unmap") /\ More
    /\ \/ /\ ~HasTable(call.v[1])
          /\ panic
       \/ /\ HasTable(call.v[1])
          /\ \E t \in Table(mem, RPDT_BASE, call.v[1]) :
                \/ /\ ~Present(mem[t][call.v[2]])
                   /\ panic
                \/ /\ Present(mem[t][call.v[2]])
                   /\ mem' = [mem EXCEPT ![t][call.v[2]] = Zero]
                   /\ tlb' = {x \in tlb : x[1] # call.v}
                   /\ call' = [call EXCEPT !.v = Following(@), !.n = @ - 1]
                   /\ UNCHANGED <<pool, state, cr3, current, free, spaces>>

CallDone ==
    /\ Running("map") \/ Running("unmap")
    /\ ~More
    /\ call' = None
    /\ UNCHANGED <<pool, state, mem, cr3, current, tlb, free, spaces>>

-----------------------------------------------------------------------------
(* clone_address_space                                                     *)

(* Sizes in bytes, with entries of four bytes; an address has as many bits *)
(* as SpaceBytes needs (32).                                               *)
PAGE_SIZE == 4 * N
PAGE_TABLE_SIZE == PAGE_SIZE * N
SpaceBytes == PAGE_TABLE_SIZE * N

IS_KERNEL_ADDR(x) == x % SpaceBytes >= KernelStart * PAGE_TABLE_SIZE

(* Mutant: the test is the wrong way round.                                *)
is_user_not(d) == IS_KERNEL_ADDR(PAGE_TABLE_SIZE * (d * PAGE_TABLE_SIZE))

(* In the loop i is an address, and it is scaled once more.                *)
is_user(d) == ~IS_KERNEL_ADDR(PAGE_TABLE_SIZE * (d * PAGE_TABLE_SIZE))

(* alloc_page may fail, and its result is not looked at.                   *)
CloneWild ==
    /\ free = {}
    /\ state' = "wild"
    /\ UNCHANGED <<pool, mem, cr3, current, tlb, free, spaces, call>>

(* The new directory is put into the second window, and its own entry for  *)
(* that window's directory page is set.  The TLB is not told.  alloc_page  *)
(* may give any page here; the code keeps 32 bits of its address.          *)
clone_address_space(cow) ==
    /\ Idle
    /\ Len(spaces) < MaxClones
    /\ \/ CloneWild
       \/ /\ free # {}
          /\ LET p == cut(Min(free))
             IN  \E dir \in Dir(mem, RPDT_BASE) :
                    LET m == [mem EXCEPT ![dir][RPDT_BASE2] = Entry(p, {"write"})]
                    IN  \E new \in Table(m, RPDT_BASE, RPDT_BASE2) :
                           /\ mem' = [m EXCEPT ![new][RPDT_BASE] =
                                                   Entry(p, {"write"})]
                           /\ free' = free \ {Min(free)}
                           /\ spaces' = Append(spaces, p)
                           /\ call' = [op |-> "clone", d |-> 0, cow |-> cow]
          /\ UNCHANGED <<pool, state, cr3, current, tlb>>

(* What happens to entry e of a table that is cloned, if d is there.       *)
CloneEntry(e, d, cow) ==
    IF cow /\ "write" \in e.flags
    THEN [e EXCEPT !.flags = (@ \ {"write"}) \cup {"cow"}]
    ELSE d

(* One round of the loop: directory entry call.d.                          *)
CloneDirEntry ==
    /\ Running("clone")
    /\ call.d < KernelEnd
    /\ \E src \in Dir(mem, RPDT_BASE), dst \in Dir(mem, RPDT_BASE2) :
          LET d == call.d
              split == Present(mem[src][d]) /\ is_user(d)
          IN  \/ /\ ~split
                 /\ mem' = [mem EXCEPT ![dst][d] = mem[src][d]]
                 /\ call' = [call EXCEPT !.d = @ + 1]
                 /\ UNCHANGED <<pool, state, cr3, current, tlb, free, spaces>>
              \/ /\ split
                 /\ CloneWild
              \/ /\ split
                 /\ free # {}
                 /\ LET p2 == cut(Min(free))
                        m == [mem EXCEPT ![dst][d] = Entry(p2, {"write", "user"})]
                    IN  \E s \in Table(m, RPDT_BASE, d), t \in Table(m, RPDT_BASE2, d) :
                           /\ mem' = [m EXCEPT ![t] = [j \in Slots |->
                                         CloneEntry(m[s][j], m[t][j], call.cow)]]
                           /\ free' = free \ {Min(free)}
                 /\ call' = [call EXCEPT !.d = @ + 1]
                 /\ UNCHANGED <<pool, state, cr3, current, tlb, spaces>>

CloneDone ==
    /\ Running("clone")
    /\ call.d = KernelEnd
    /\ call' = None
    /\ UNCHANGED <<pool, state, mem, cr3, current, tlb, free, spaces>>

Stopped ==
    /\ state \in {"panic", "wild"}
    /\ UNCHANGED vars

Next ==
    \/ init_virtual_memory
    \/ InitTable
    \/ InitDone
    \/ \E v \in CallerPages, n \in 1 .. MaxPages :
          \/ unmap(v, n)
          \/ \E p \in DataFrames, flags \in MapFlags : map(v, p, n, flags)
    \/ ensure_page_table_mapped
    \/ map_one_page
    \/ unmap_one_page
    \/ CallDone
    \/ \E cow \in BOOLEAN : clone_address_space(cow)
    \/ CloneDirEntry
    \/ CloneDone
    \/ \E v \in Cached : Fill(v)
    \/ Stopped

Spec == Init /\ [][Next]_vars

-----------------------------------------------------------------------------
(* Properties                                                              *)

TypeOK ==
    /\ state \in {"boot", "up", "panic", "wild"}
    /\ mem \in [Frames -> [Slots -> EntryType]]
    /\ cr3 \in Frames
    /\ current \in Frames \cup {-1}
    /\ tlb \subseteq Pages \X Nat
    /\ pool \in Pools /\ free \subseteq pool
    /\ spaces \in Seq(pool)
    /\ \/ call = None
       \/ call.op \in {"init", "clone"} /\ call.d \in 0 .. KernelEnd
       \/ call.op \in {"map", "unmap"} /\ call.v \in Pages /\ call.n \in Nat

(* No translation outlives the table entry it was made from: a page that   *)
(* is unmapped cannot be reached any more, and a window shows the table    *)
(* that is in use now.                                                     *)
TlbCoherent ==
    state \in {"boot", "up"} =>
        \A x \in tlb : Present(Walk(x[1])) /\ Walk(x[1]).frame = x[2]

(* The recursive page directory trick works: what get_mapping reads        *)
(* through the window is, for every page, what the MMU uses.               *)
LookupRight ==
    state = "up" =>
        \A v \in Pages :
            get_mapping(v) = {IF Present(Walk(v)) THEN Walk(v) ELSE Zero}

(* Directories, and the frames a directory's entries point to.             *)
Directories == {BootDir} \cup {spaces[n] : n \in DOMAIN spaces}

TablesOf(dir) ==
    {mem[dir][d].frame : d \in {x \in 0 .. (KernelEnd - 1) : Present(mem[dir][x])}}

Complete(dir) ==        \* no call is still filling in this directory
    ~(call.op = "clone" /\ dir = spaces[Len(spaces)])

(* No frame is lost and none is used twice: a frame that was handed out is *)
(* a directory or a table of one, is not free, and no two entries of a     *)
(* directory, and no two user entries of two directories, share a table    *)
(* (except the one that loader.s has put at two places).  The loops of map *)
(* and unmap stop in time.                                                 *)
FramesAccounted ==
    /\ TypeOK
    /\ state = "up" =>
        LET dirs == {d \in Directories : Complete(d)}
            used == Directories \cup UNION {TablesOf(d) : d \in dirs}
        IN  /\ call.op # "clone" => pool \ free = used \ {BootDir, BootTable}
            /\ used \cap free = {}
            /\ \A a, b \in dirs : \A i, j \in 0 .. (KernelEnd - 1) :
                  /\ Present(mem[a][i]) /\ Present(mem[b][j])
                  /\ mem[a][i].frame = mem[b][j].frame
                  /\ mem[a][i].frame # BootTable
                  => i = j /\ (a = b \/ i >= KernelStart)

(* The calls of map and unmap that callers make.                           *)
Requests ==
    [op : {"map"}, v : CallerPages, p : DataFrames, n : 1 .. MaxPages, flags : MapFlags]
        \cup [op : {"unmap"}, v : CallerPages, n : 1 .. MaxPages]

Abstract == INSTANCE PageMap WITH
    Pages <- FreelyMapped,
    After <- [v \in FreelyMapped |-> Following(v)],
    mapping <- [v \in {w \in FreelyMapped : Present(Walk(w))} |-> Walk(v)],
    request <- IF call.op \in {"map", "unmap"} THEN call ELSE None

(* map and unmap do what PageMap says, to the frames and with the flags    *)
(* that were asked for.  All else leaves the address space as it is: new   *)
(* page tables, translations that the CPU keeps, and cloning, which makes  *)
(* pages of the clone copy-on-write and none of this address space (hal.h  *)
(* says that all pages marked WRITE become so).                            *)
AbstractSpec == Abstract!Spec
=============================================================================
