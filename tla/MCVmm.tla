------------------------------- MODULE MCVmm -------------------------------
(* Instances of Vmm for TLC: seven entries to a table, of which the first  *)
(* and the fourth are the loader's, the second and the third are for user  *)
(* space, the fifth for the kernel, and the last two are the windows.      *)
EXTENDS Vmm

\* The last page of a user table, so that a second page is in the next
\* table, and a page of the kernel.
MCPages == {<<1, 6>>, <<4, 0>>}

\* Enough for everything, too little for a clone, for a user table, for init.
MCPools == {7 .. 15, 7 .. 9, {7}, {}}

MCFlags == {{"write"}, {"write", "cow"}}

ASSUME Below4GB

\* A page, and the window on its table.
MCCached == {<<1, 6>>, <<6, 1>>}
=============================================================================
