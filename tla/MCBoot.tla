------------------------------- MODULE MCBoot -------------------------------
(* Instances of Boot for TLC.                                              *)
EXTENDS Boot

(* Names are numbers: feature f is called f, and nothing is called 0.      *)
Lists == {<<>>} \cup {<<n>> : n \in 0 .. N}

(* Every table of N features with at most one prerequisite of each kind;   *)
(* the last one has no init function.                                      *)
SmallTables ==
    [name : {[f \in Feature |-> f]},
     required : [Feature -> Lists],
     load_after : [Feature -> Lists],
     init : {[f \in Feature |-> f < N]}]

(* A table without prerequisites.                                          *)
Plain ==
    [name |-> [f \in Feature |-> f],
     required |-> [f \in Feature |-> <<>>], load_after |-> [f \in Feature |-> <<>>],
     init |-> [f \in Feature |-> f < N]]

Flags == {"cmdline", "mods", "elf", "memory", "mmap"}

(* Entries of the memory map, with and without the extended attributes.    *)
Entries ==
    {[size |-> 20, available |-> TRUE, addr |-> 0, len |-> 3],
     [size |-> 20, available |-> FALSE, addr |-> 3, len |-> 2],
     [size |-> 24, available |-> TRUE, addr |-> 5, len |-> 1]}

(* Everything that a boot loader may leave; EARLYALLOC_SZ is such that the *)
(* copies fit, all but just fit, or do not.                                *)
Infos ==
    [magic : BOOLEAN,
     flags : SUBSET Flags,
     cmdline : {<<>>, <<"d">>, <<"d", " ", "x">>, <<"x", " ", " ", "d">>},
     mods_count : {0, 1, 2},
     sections : {<<".symtab">>, <<".strtab", ".symtab">>},
     mmap : UNION {[1 .. n -> Entries] : n \in 0 .. 3}]

Good ==
    [magic |-> TRUE, flags |-> Flags, cmdline |-> <<"d">>, mods_count |-> 0,
     sections |-> <<".strtab", ".symtab">>,
     mmap |-> <<[size |-> 20, available |-> TRUE, addr |-> 0, len |-> 3]>>]

(* Every table with good data, and every data with a plain table.          *)
AllMachines == [info : {Good}, table : SmallTables] \cup [info : Infos, table : {Plain}]
=============================================================================
