-------------------------------- MODULE Boot --------------------------------
(***************************************************************************)
(* From the boot loader to the end of start-up: loader() in                *)
(* arch/x86/loader2.c copies what the boot loader left in memory, kmain    *)
(* starts the features (Features), and the feature x86/mem reads the       *)
(* memory map (init_memory in arch/x86/mem.c).                             *)
(*                                                                         *)
(* Once code reads or writes memory that is not what it takes it for, the  *)
(* model stops ("wild").                                                   *)
(***************************************************************************)
EXTENDS Features, Words, Functions

CONSTANTS
    Machines,       \* what the boot loader leaves, and the kernel's features
    Garbage,        \* words read from memory that is no command line
    MemFeature,     \* x86/mem
    AddrSpace,      \* 2^32: the range of pointers and of unsigned
    EARLYALLOC_SZ,
    MaxArgs,        \* 256: the size of argv
    MaxRanges,      \* 32: the size of ranges in init_memory
    MaxEntries      \* 128: the bound of its loop

SIZEOF_MODULE == 16
SIZEOF_SECTION == 40

(* Where the entries of a memory map end, from its start.                  *)
Ends(mmap) ==
    LET end[n \in 0 .. Len(mmap)] ==
            IF n = 0 THEN 0 ELSE end[n - 1] + mmap[n].size + 4
    IN  end

(* The boot loader's data are in memory, beside the early allocator's      *)
(* buffer.                                                                 *)
InMemory(data) ==
    \A len \in {Len(data.cmdline) + 1, data.mods_count * SIZEOF_MODULE,
                Len(data.sections) * SIZEOF_SECTION, Ends(data.mmap)[Len(data.mmap)] + 4} :
        len + EARLYALLOC_SZ <= AddrSpace

ASSUME BootAssumption ==
    /\ \A m \in Machines :
          /\ InMemory(m.info)
          /\ m.table \in Tables
          /\ m.info.cmdline \in Seq(Range(m.info.cmdline))
          /\ m.info.sections \in Seq(Range(m.info.sections))
          /\ m.info.mods_count \in Nat
          /\ m.info.mmap \in Seq([size : Nat, available : BOOLEAN, addr : Nat, len : Nat])
    /\ 1 \in Results
    /\ MemFeature \in Feature
    /\ AddrSpace \in Nat /\ EARLYALLOC_SZ \in Nat \ {0} /\ EARLYALLOC_SZ <= AddrSpace
    /\ MaxArgs \in Nat /\ MaxRanges \in Nat /\ MaxEntries \in Nat
    /\ MaxRanges <= MaxEntries

(* Pointers: into the early allocator's buffer they are offsets.           *)
Null == -1
Left == -2          \* as the boot loader left it

VARIABLES
    info,           \* the boot loader's structure: flags, and what is valid by them
    at,             \* the next step of loader, "kmain", "walk", "halt" or "wild"
    idx,            \* earlyalloc's idx
    mboot,          \* the pointers in mboot
    argv,           \* the words of the command line
    KDEBUG,
    kernel_elf,     \* the sections found for strtab and symtab, 0 for none
    entry,          \* init_memory: i - mboot.mmap_addr
    ranges, extent

bootVars == <<info, at, idx, mboot, argv, KDEBUG, kernel_elf, entry, ranges, extent>>

allVars == <<vars, bootVars>>

BootInit ==
    /\ \E m \in Machines : info = m.info /\ table = m.table
    /\ Init
    /\ at = "magic"
    /\ idx = 0
    /\ mboot = [p \in {"cmdline", "mods", "elf", "mmap"} |-> Left]
    /\ argv = <<>>
    /\ KDEBUG = FALSE
    /\ kernel_elf = [strtab |-> 0, symtab |-> 0]
    /\ entry = 0 /\ ranges = <<>> /\ extent = 0

-----------------------------------------------------------------------------
(* loader                                                                  *)

CheckMagic ==
    /\ at = "magic"
    /\ at' = IF info.magic THEN "cmdline" ELSE "halt"
    /\ UNCHANGED <<vars, info, idx, mboot, argv, KDEBUG, kernel_elf, entry, ranges, extent>>

unsigned(n) == n % AddrSpace

(* Mutant: the buffer's end is not looked at.                              *)
EarlyallocAlways(p, len) ==
    /\ mboot' = [mboot EXCEPT ![p] = idx]
    /\ idx' = unsigned(idx + len)

earlyalloc(p, len) ==
    IF unsigned(idx + len) >= EARLYALLOC_SZ
    THEN mboot' = [mboot EXCEPT ![p] = Null] /\ UNCHANGED idx
    ELSE /\ mboot' = [mboot EXCEPT ![p] = idx]
         /\ idx' = unsigned(idx + len)

(* The part that a flag declares valid is copied.                          *)
Copy(p, len) ==
    IF p \in info.flags THEN earlyalloc(p, unsigned(len)) ELSE UNCHANGED <<mboot, idx>>

CopyCmdline ==
    /\ at = "cmdline" /\ at' = "mods"
    /\ Copy("cmdline", Len(info.cmdline) + 1)
    /\ UNCHANGED <<vars, info, argv, KDEBUG, kernel_elf, entry, ranges, extent>>

CopyMods ==
    /\ at = "mods" /\ at' = "elf"
    /\ Copy("mods", info.mods_count * SIZEOF_MODULE)
    /\ UNCHANGED <<vars, info, argv, KDEBUG, kernel_elf, entry, ranges, extent>>

(* The last section of that name; the local variable has no initial value. *)
SectionNamed(name) ==
    LET found == {n \in DOMAIN info.sections : info.sections[n] = name}
    IN  IF found = {} THEN Null ELSE Max(found)

elf_from_multiboot ==
    [strtab |-> SectionNamed(".strtab"), symtab |-> SectionNamed(".symtab")]

(* Without a copy the section headers are read at address 0.               *)
CopyElf ==
    /\ at = "elf" /\ at' = "memory"
    /\ Copy("elf", Len(info.sections) * SIZEOF_SECTION)
    /\ kernel_elf' = IF "elf" \notin info.flags THEN [strtab |-> 0, symtab |-> 0]
                     ELSE IF mboot'["elf"] = Null THEN [strtab |-> Null, symtab |-> Null]
                     ELSE elf_from_multiboot
    /\ UNCHANGED <<vars, info, argv, KDEBUG, entry, ranges, extent>>

mmap_length == Ends(info.mmap)[Len(info.mmap)]

(* The flag that is looked at is the one for mem_lower and mem_upper.  The *)
(* copy is made, but mmap_addr is set back to the original.                *)
CopyMemory ==
    /\ at = "memory" /\ at' = "args"
    /\ IF "memory" \in info.flags
       THEN LET end == unsigned(idx + unsigned(mmap_length + 4))
                fits == end < EARLYALLOC_SZ
            IN  /\ mboot' = [mboot EXCEPT !["mmap"] = IF fits THEN Left ELSE Null]
                /\ idx' = IF fits THEN end ELSE idx
       ELSE UNCHANGED <<mboot, idx>>
    /\ UNCHANGED <<vars, info, argv, KDEBUG, kernel_elf, entry, ranges, extent>>

Debug == <<"d">>

(* tokenize, and process_args of kmain.  Without a copy the line is        *)
(* whatever is at the pointer.                                             *)
Args ==
    /\ at = "args" /\ at' = "kmain"
    /\ IF mboot["cmdline"] \in {Null, Left}
       THEN /\ argv' = Garbage
            /\ KDEBUG' \in BOOLEAN
       ELSE /\ argv' = tokenize(" ", info.cmdline, MaxArgs)
            /\ KDEBUG' = \E n \in DOMAIN argv' : argv'[n] # Debug   \* strcmp
    /\ UNCHANGED <<vars, info, idx, mboot, kernel_elf, entry, ranges, extent>>

-----------------------------------------------------------------------------
(* init_memory                                                             *)

InInit(f) ==
    stage = "init" /\ stack # <<>> /\ Head(stack).todo = <<>> /\ Head(stack).feature = f

init_memory ==
    /\ at = "kmain" /\ InInit(MemFeature)
    /\ IF "memory" \notin info.flags
       THEN panic /\ UNCHANGED <<result, at>>
       ELSE /\ at' = IF mboot["mmap"] = Null \/ "mmap" \notin info.flags THEN "wild" ELSE "walk"
            /\ UNCHANGED vars
    /\ UNCHANGED <<info, idx, mboot, argv, KDEBUG, kernel_elf, entry, ranges, extent>>

(* Where an entry is, from the start of the map.                           *)
Offset(n) == Ends(info.mmap)[n - 1]

(* Mutant: the size is taken for the whole entry's.                        *)
StrideShort(e) == e.size

Stride(e) == e.size + 4

(* One round of the loop over the memory map.                              *)
Walk ==
    /\ at = "walk"
    /\ entry < mmap_length /\ Len(ranges) < MaxEntries
    /\ LET here == {n \in DOMAIN info.mmap : Offset(n) = entry}
       IN  IF here = {} THEN at' = "wild" /\ UNCHANGED <<entry, ranges, extent>>
           ELSE LET e == info.mmap[Max(here)]
                IN  IF ~e.available
                    THEN entry' = entry + Stride(e) /\ UNCHANGED <<at, ranges, extent>>
                    ELSE IF Len(ranges) >= MaxRanges
                    THEN at' = "wild" /\ UNCHANGED <<entry, ranges, extent>>
                    ELSE /\ ranges' = Append(ranges, [start |-> e.addr, extent |-> e.len])
                         /\ extent' = Max({extent, e.addr + e.len})
                         /\ entry' = entry + Stride(e)
                         /\ UNCHANGED at
    /\ UNCHANGED <<vars, info, idx, mboot, argv, KDEBUG, kernel_elf>>

(* The ranges go to init_physical_memory_early (what comes of them is in   *)
(* Pmm and Vmm), and x86/mem is up.                                        *)
WalkDone ==
    /\ at = "walk"
    /\ entry >= mmap_length \/ Len(ranges) >= MaxEntries
    /\ at' = "kmain"
    /\ RunInit(1)
    /\ UNCHANGED <<info, idx, mboot, argv, KDEBUG, kernel_elf, entry, ranges, extent>>

(* kmain, but for the init function of x86/mem.                            *)
Kmain ==
    /\ at = "kmain" /\ ~InInit(MemFeature)
    /\ Next
    /\ UNCHANGED bootVars

LoaderStopped == at \in {"halt", "wild"} /\ UNCHANGED allVars

BootNext ==
    \/ CheckMagic \/ CopyCmdline \/ CopyMods \/ CopyElf \/ CopyMemory \/ Args
    \/ Kmain \/ init_memory \/ Walk \/ WalkDone
    \/ LoaderStopped

BootSpec == BootInit /\ [][BootNext]_allVars

FairBootSpec == BootSpec /\ WF_allVars(BootNext)

-----------------------------------------------------------------------------
(* Properties                                                              *)

(* The space that each copy takes.                                         *)
Lengths ==
    [cmdline |-> Len(info.cmdline) + 1, mods |-> info.mods_count * SIZEOF_MODULE,
     elf |-> Len(info.sections) * SIZEOF_SECTION]

(* The early allocator's blocks are inside its buffer and do not overlap,  *)
(* whatever the boot loader leaves in memory and whichever requests fail.  *)
EarlyApart ==
    LET copied == {p \in DOMAIN Lengths : mboot[p] >= 0}
        bytes(p) == mboot[p] .. (mboot[p] + Lengths[p] - 1)
    IN  /\ \A p \in copied : bytes(p) \subseteq 0 .. (EARLYALLOC_SZ - 1)
        /\ \A p, q \in copied : p # q => bytes(p) \cap bytes(q) = {}

(* The available entries among the first n of the memory map.              *)
Available(n) == {k \in 1 .. n : info.mmap[k].available}

(* What the code relies on: a command line and a memory map, a buffer that *)
(* everything fits in, no more ranges than there is room for, and both     *)
(* tables if there is a section table.                                     *)
Reliable ==
    /\ {"cmdline", "memory", "mmap"} \subseteq info.flags
    /\ Lengths.cmdline + mmap_length + 4
       + (IF "mods" \in info.flags THEN Lengths.mods ELSE 0)
       + (IF "elf" \in info.flags THEN Lengths.elf ELSE 0) < EARLYALLOC_SZ
    /\ Cardinality(Available(Len(info.mmap))) <= MaxRanges
    /\ "elf" \in info.flags => {".strtab", ".symtab"} \subseteq Range(info.sections)

(* From reliable data the kernel never runs wild; it takes over exactly    *)
(* the memory that is reported as available, in order, up to its end, and  *)
(* the words of the command line, and it finds its symbols.                *)
TakenOver ==
    Reliable =>
        /\ at # "wild"
        /\ MemFeature \in Range(started) =>
              /\ Len(ranges) = Cardinality(Available(Len(info.mmap)))
              /\ \A n \in Available(Len(info.mmap)) :
                    LET e == info.mmap[n]
                    IN  /\ ranges[Cardinality(Available(n))] = [start |-> e.addr, extent |-> e.len]
                        /\ e.addr + e.len <= extent
        /\ at \in {"kmain", "walk"} =>
              /\ argv = tokenize(" ", info.cmdline, MaxArgs)
              /\ "elf" \in info.flags =>
                    /\ info.sections[kernel_elf.strtab] = ".strtab"
                    /\ info.sections[kernel_elf.symtab] = ".symtab"

(* Start-up comes to an end, whatever the boot loader has left and         *)
(* whatever the table of features; only bad data make it end wild, and     *)
(* only a bad magic number before kmain.                                   *)
BootEnds ==
    <>[](\/ stage \in {"up", "panic"}
         \/ at = "wild" /\ ~Reliable
         \/ at = "halt" /\ ~info.magic)
=============================================================================
