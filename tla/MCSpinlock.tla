----------------------------- MODULE MCSpinlock -----------------------------
(* Instances of Spinlock for TLC.                                          *)
EXTENDS Spinlock

CONSTANTS c1, c2

(* vmspace.lock 1, address_space.lock 2, the lock of pmm.c 3               *)
KernelNesting == {<<1, 2>>, <<1, 3>>, <<2, 3>>}

(* The code of one CPU takes all the locks, that of the other the last.    *)
Contended == [c \in CPUs |-> IF c = c1 THEN Locks ELSE {NLocks}]
=============================================================================
