----------------------------- MODULE MCKmalloc -----------------------------
(* An instance of Kmalloc for TLC, with small sizes.                       *)
EXTENDS Kmalloc, TLC

CONSTANTS k1, k2

\* On both sides of each limit: caches of 4 and 8 bytes, pages of 32, blocks
\* of at most 64, all of them with a header of 2 bytes.  A slab has 20 bytes
\* below its footer.  Of five objects of 4 bytes the last one is where the
\* bitmap is; two of 8 bytes leave room for it.
MCRequests == {2, 3, 6, 7, 31, 63}

Powers == [k \in 0 .. 30 |-> 2 ^ k]

MCContexts == {k1, k2}
Symmetry == Permutations(MCContexts)
=============================================================================
