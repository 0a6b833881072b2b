------------------------------- MODULE Images -------------------------------
(***************************************************************************)
(* Lookups in images that the boot loader leaves in memory: the RAM file   *)
(* system (ramfs.c) and the kernel's ELF symbols (elf.c), as functions.    *)
(*                                                                         *)
(* An image has its header and a sequence of headers or symbols; a header  *)
(* of the RAM file system is one unit of memory, and a pointer to it is    *)
(* its number, from 1.                                                     *)
(***************************************************************************)
EXTENDS Integers, Sequences, FiniteSetsExt

CONSTANTS
    NameSize,       \* 24: sizeof file_name
    AddrSpace,      \* 2^32
    NULL

ASSUME ImageAssumption == NameSize \in Nat /\ AddrSpace \in Nat \ {0}

MINK_RAMFS_MAGIC == "0x0101CA75"
MINK_RAMFS_VERSION == 10

(* The image is a record, or NULL.                                         *)
is_valid_ramfs(mem) ==
    mem # NULL /\ mem.magic = MINK_RAMFS_MAGIC /\ mem.version = MINK_RAMFS_VERSION

(* A uint32_t field that is returned as an int.                            *)
int(n) == IF n >= AddrSpace \div 2 THEN n - AddrSpace ELSE n

ramfs_size(fs) == IF is_valid_ramfs(fs) THEN int(fs.fs_size) ELSE -1

ramfs_file_count(fs) == IF is_valid_ramfs(fs) THEN int(fs.file_count) ELSE -1

(* The C library's: names that have NameSize characters in common, or end  *)
(* together before that, are equal.                                        *)
strncmp_equal(a, b) ==
    LET short(s) == SubSeq(s, 1, Min({NameSize, Len(s)}))
    IN  short(a) = short(b)

(* Mutant: the last header is left out.                                    *)
FindFileShort(fs, name) ==
    IF ~is_valid_ramfs(fs) \/ name = NULL THEN NULL
    ELSE LET found == {i \in 1 .. (fs.file_count - 1) : strncmp_equal(name, fs.files[i].file_name)}
         IN  IF found = {} THEN NULL ELSE Min(found)

ramfs_find_file(fs, name) ==
    IF ~is_valid_ramfs(fs) \/ name = NULL THEN NULL
    ELSE LET found == {i \in 1 .. fs.file_count : strncmp_equal(name, fs.files[i].file_name)}
         IN  IF found = {} THEN NULL ELSE Min(found)

(* file_start counts from the file's own header.                           *)
ramfs_file_open(fs, file) ==
    IF file = NULL THEN NULL
    ELSE IF fs.files[file].file_length = 0 \/ fs.files[file].file_start = 0 THEN NULL
    ELSE file + fs.files[file].file_start

-----------------------------------------------------------------------------
STT_FUNC == 2

(* A symbol's end is computed in 32 bits.                                  *)
elf_lookup_symbol(addr, symtab) ==
    LET found == {i \in DOMAIN symtab :
                    /\ symtab[i].type = STT_FUNC
                    /\ addr >= symtab[i].value
                    /\ addr < (symtab[i].value + symtab[i].size) % AddrSpace}
    IN  IF found = {} THEN NULL ELSE symtab[Min(found)].name
=============================================================================
