------------------------------- MODULE MCPmm -------------------------------
(* Instances of Pmm for TLC.                                               *)
EXTENDS Pmm

MCSize == [k \in 0 .. MaxOrder |-> 2 ^ k]

Mem(start, extent) == [start |-> start, extent |-> extent]

(* Small maps: high memory that continues across 4GB, three ranges of      *)
(* which early_alloc_page uses up one and moves on, and too little memory. *)
SmallMaps ==
    { << Mem(0, 2), Mem(2, 10) >>,
      << Mem(0, 1), Mem(2, 5), Mem(7, 4) >>,
      << Mem(0, 2), Mem(2, 4) >> }

(* A PC with 128MB: 636KB below the BIOS area, the rest from 1MB on.       *)
PCMap == { << Mem(0, 159), Mem(256, 32512) >> }
=============================================================================
