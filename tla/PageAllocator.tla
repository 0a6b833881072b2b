--------------------------- MODULE PageAllocator ---------------------------
(***************************************************************************)
(* What a page allocator promises to its callers (the interface of         *)
(* include/adt/buddy.h): it hands out aligned blocks of pages that were    *)
(* registered as usable, never a page that somebody holds, and refuses a   *)
(* request only when there is no free aligned block of that size.  How the *)
(* free pages are recorded is left open.                                   *)
(***************************************************************************)
EXTENDS Integers

CONSTANTS MaxOrder, Size, NPages,
          Usable      \* the pages that may ever be handed out

VARIABLES free,       \* pages that can be handed out
          held,       \* pages that callers own
          ret         \* first page of the last block, or -1

vars == <<free, held, ret>>

Orders == 0 .. MaxOrder

Block(k, i) == (i * Size[k]) .. ((i + 1) * Size[k] - 1)

Init == free = {} /\ held = {} /\ ret = -1

(* Usable pages become available, once.                                    *)
Register(k, i) ==
    /\ Block(k, i) \subseteq Usable
    /\ Block(k, i) \cap (free \cup held) = {}
    /\ free' = free \cup Block(k, i)
    /\ UNCHANGED <<held, ret>>

Alloc(k, i) ==
    /\ Block(k, i) \subseteq free
    /\ free' = free \ Block(k, i)
    /\ held' = held \cup Block(k, i)
    /\ ret' = i * Size[k]

AllocFail(k) ==
    /\ \A i \in 0 .. NPages : ~(Block(k, i) \subseteq free)
    /\ ret' = -1
    /\ UNCHANGED <<free, held>>

Free(k, i) ==
    /\ Block(k, i) \subseteq held
    /\ free' = free \cup Block(k, i)
    /\ held' = held \ Block(k, i)
    /\ UNCHANGED ret

Next ==
    \E k \in Orders :
        \/ AllocFail(k)
        \/ \E i \in 0 .. NPages : Register(k, i) \/ Alloc(k, i) \/ Free(k, i)

Spec == Init /\ [][Next]_vars
=============================================================================
