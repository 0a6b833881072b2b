------------------------------ MODULE Spinlock ------------------------------
(***************************************************************************)
(* Spinlocks that mask interrupts (locking.c, arch/x86/hal.c), and the     *)
(* kernel code and interrupt handlers that take them.                      *)
(*                                                                         *)
(* A context is the kernel code of a CPU or the interrupt handler that has *)
(* interrupted it.  Each access to the interrupt flag or to a lock is one  *)
(* step, so that an interrupt, or another CPU, can come between any two.   *)
(*                                                                         *)
(* The locks are numbered in the order in which the code nests them:       *)
(* slab_cache.lock, vmspace.lock, address_space.lock (map and unmap), the  *)
(* lock of pmm.c; and global_vmm_lock (clone_address_space) over pmm.c's.  *)
(***************************************************************************)
EXTENDS Integers, FiniteSets

CONSTANTS
    CPUs,
    NLocks,
    Wanted,         \* Wanted[c]: the locks that the code on CPU c takes
    Nested          \* <<k, l>>: code that holds k takes l

Locks == 1 .. NLocks

ASSUME LockAssumption ==
    /\ NLocks \in Nat
    /\ Wanted \in [CPUs -> SUBSET Locks]
    /\ Nested \subseteq {p \in Locks \X Locks : p[1] < p[2]}

Contexts == CPUs \X {"kernel", "handler"}

VARIABLES
    val,            \* lock->val
    interrupts,     \* lock->interrupts
    flag,           \* the interrupt flag of each CPU
    handling,       \* whether an interrupt handler is running on the CPU
    up,             \* whether the CPU has passed enable_interrupts() of kmain
    pc,             \* the next step of the context
    lock,           \* the argument of its call; 0 outside of one
    saved,          \* the local variable `interrupts' of spinlock_acquire
    held,           \* ghost: the locks the context has
    callers         \* ghost: the CPUs that have called spinlock_acquire

vars == <<val, interrupts, flag, handling, up, pc, lock, saved, held, callers>>

Init ==
    /\ val = [l \in Locks |-> 0]
    /\ interrupts = [l \in Locks |-> FALSE]
    /\ flag = [c \in CPUs |-> FALSE]
    /\ handling = [c \in CPUs |-> FALSE]
    /\ up = [c \in CPUs |-> FALSE]
    /\ pc = [x \in Contexts |-> "run"]
    /\ lock = [x \in Contexts |-> 0]
    /\ saved = [x \in Contexts |-> FALSE]
    /\ held = [x \in Contexts |-> {}]
    /\ callers = {}

(* The context that the CPU executes.                                      *)
Running(x) == x[2] = IF handling[x[1]] THEN "handler" ELSE "kernel"

Top(x) == CHOOSE l \in held[x] : \A m \in held[x] : m <= l

-----------------------------------------------------------------------------
(* spinlock_acquire                                                        *)

(* interrupts = get_interrupt_state()                                      *)
Acquire(x, l) ==
    /\ Running(x) /\ pc[x] = "run"
    /\ l \in Wanted[x[1]]
    /\ held[x] # {} => <<Top(x), l>> \in Nested
    /\ callers' = callers \cup {x[1]}
    /\ lock' = [lock EXCEPT ![x] = l]
    /\ saved' = [saved EXCEPT ![x] = flag[x[1]]]
    /\ pc' = [pc EXCEPT ![x] = "cli"]
    /\ UNCHANGED <<val, interrupts, flag, handling, up, held>>

(* Mutant: the flag is not cleared.                                        *)
DisableNot(x) ==
    /\ Running(x) /\ pc[x] = "cli"
    /\ pc' = [pc EXCEPT ![x] = "spin"]
    /\ UNCHANGED <<val, interrupts, flag, handling, up, lock, saved, held, callers>>

(* disable_interrupts()                                                    *)
Disable(x) ==
    /\ Running(x) /\ pc[x] = "cli"
    /\ flag' = [flag EXCEPT ![x[1]] = FALSE]
    /\ pc' = [pc EXCEPT ![x] = "spin"]
    /\ UNCHANGED <<val, interrupts, handling, up, lock, saved, held, callers>>

(* The compare and swap succeeds, which ends the loop.                     *)
Take(x) ==
    /\ Running(x) /\ pc[x] = "spin"
    /\ val[lock[x]] = 0
    /\ val' = [val EXCEPT ![lock[x]] = 1]
    /\ held' = [held EXCEPT ![x] = @ \cup {lock[x]}]
    /\ pc' = [pc EXCEPT ![x] = "save"]
    /\ UNCHANGED <<interrupts, flag, handling, up, lock, saved, callers>>

(* Mutant: the result of the compare and swap is not looked at.            *)
SpinOnce(x) ==
    /\ Running(x) /\ pc[x] = "spin"
    /\ val' = [val EXCEPT ![lock[x]] = 1]
    /\ held' = [held EXCEPT ![x] = @ \cup {lock[x]}]
    /\ pc' = [pc EXCEPT ![x] = "save"]
    /\ UNCHANGED <<interrupts, flag, handling, up, lock, saved, callers>>

(* Mutant: the compare and swap expects a lock that is taken.              *)
SpinSwapped(x) ==
    /\ Running(x) /\ pc[x] = "spin"
    /\ IF val[lock[x]] = 1 THEN Take(x) ELSE UNCHANGED vars

(* A round of the loop.                                                    *)
Spin(x) ==
    /\ Running(x) /\ pc[x] = "spin"
    /\ IF val[lock[x]] = 0 THEN Take(x) ELSE UNCHANGED vars

(* lock->interrupts = interrupts                                           *)
Save(x) ==
    /\ Running(x) /\ pc[x] = "save"
    /\ interrupts' = [interrupts EXCEPT ![lock[x]] = saved[x]]
    /\ lock' = [lock EXCEPT ![x] = 0]
    /\ saved' = [saved EXCEPT ![x] = FALSE]
    /\ pc' = [pc EXCEPT ![x] = "run"]
    /\ UNCHANGED <<val, flag, handling, up, held, callers>>

-----------------------------------------------------------------------------
(* spinlock_release                                                        *)

(* The compare and swap; every function releases the lock it took last.    *)
Release(x) ==
    /\ Running(x) /\ pc[x] = "run"
    /\ held[x] # {}
    /\ val[Top(x)] = 1
    /\ val' = [val EXCEPT ![Top(x)] = 0]
    /\ held' = [held EXCEPT ![x] = @ \ {Top(x)}]
    /\ lock' = [lock EXCEPT ![x] = Top(x)]
    /\ pc' = [pc EXCEPT ![x] = "restore"]
    /\ UNCHANGED <<interrupts, flag, handling, up, saved, callers>>

(* Mutant: interrupts stay off.                                            *)
RestoreNot(x) ==
    /\ Running(x) /\ pc[x] = "restore"
    /\ lock' = [lock EXCEPT ![x] = 0]
    /\ pc' = [pc EXCEPT ![x] = "run"]
    /\ UNCHANGED <<val, interrupts, flag, handling, up, saved, held, callers>>

(* if (lock->interrupts) enable_interrupts()                               *)
Restore(x) ==
    /\ Running(x) /\ pc[x] = "restore"
    /\ flag' = [flag EXCEPT ![x[1]] = @ \/ interrupts[lock[x]]]
    /\ lock' = [lock EXCEPT ![x] = 0]
    /\ pc' = [pc EXCEPT ![x] = "run"]
    /\ UNCHANGED <<val, interrupts, handling, up, saved, held, callers>>

-----------------------------------------------------------------------------
(* Interrupts                                                              *)

(* enable_interrupts() in kmain, once start-up is done.                    *)
Enable(c) ==
    /\ ~up[c] /\ Running(<<c, "kernel">>)
    /\ pc[<<c, "kernel">>] = "run" /\ held[<<c, "kernel">>] = {}
    /\ flag' = [flag EXCEPT ![c] = TRUE]
    /\ up' = [up EXCEPT ![c] = TRUE]
    /\ UNCHANGED <<val, interrupts, handling, pc, lock, saved, held, callers>>

(* An interrupt gate: the flag is off in the handler.                      *)
Interrupt(c) ==
    /\ flag[c] /\ ~handling[c]
    /\ handling' = [handling EXCEPT ![c] = TRUE]
    /\ flag' = [flag EXCEPT ![c] = FALSE]
    /\ UNCHANGED <<val, interrupts, up, pc, lock, saved, held, callers>>

(* iret restores the flag of the code that was interrupted.                *)
Return(c) ==
    /\ handling[c]
    /\ pc[<<c, "handler">>] = "run" /\ held[<<c, "handler">>] = {}
    /\ handling' = [handling EXCEPT ![c] = FALSE]
    /\ flag' = [flag EXCEPT ![c] = TRUE]
    /\ UNCHANGED <<val, interrupts, up, pc, lock, saved, held, callers>>

(* The steps within a call of spinlock_acquire or spinlock_release.        *)
Inside(x) == Disable(x) \/ Spin(x) \/ Save(x) \/ Restore(x)

Next ==
    \/ \E x \in Contexts : \/ \E l \in Locks : Acquire(x, l)
                           \/ Inside(x)
                           \/ Release(x)
    \/ \E c \in CPUs : Enable(c) \/ Interrupt(c) \/ Return(c)

Spec == Init /\ [][Next]_vars

(* A CPU keeps executing; handlers return, and kernel code that holds a    *)
(* lock gets to its release.                                               *)
Fairness ==
    /\ \A x \in Contexts : WF_vars(Inside(x)) /\ WF_vars(Release(x))
    /\ \A c \in CPUs : WF_vars(Return(c))

FairSpec == Spec /\ Fairness

-----------------------------------------------------------------------------
(* Properties                                                              *)

(* Every variable has its type; lock->val is 0 or 1, so that a release     *)
(* always finds the 1 it expects and is "Nonblocking" (hal.h).             *)
TypeOK ==
    /\ val \in [Locks -> {0, 1}]
    /\ interrupts \in [Locks -> BOOLEAN]
    /\ flag \in [CPUs -> BOOLEAN]
    /\ handling \in [CPUs -> BOOLEAN]
    /\ up \in [CPUs -> BOOLEAN]
    /\ pc \in [Contexts -> {"run", "cli", "spin", "save", "restore"}]
    /\ lock \in [Contexts -> Locks \cup {0}]
    /\ saved \in [Contexts -> BOOLEAN]
    /\ held \in [Contexts -> SUBSET Locks]
    /\ callers \in SUBSET CPUs

(* Two contexts never have the same lock, and a lock is taken exactly if a *)
(* context has it: also when several CPUs compete for it in the compare    *)
(* and swap, and whatever interrupts come.                                 *)
MutualExclusion ==
    /\ \A x, y \in Contexts : x # y => held[x] \cap held[y] = {}
    /\ \A l \in Locks : val[l] = 1 <=> \E x \in Contexts : l \in held[x]

(* The locks have been used by one CPU.  get_num_cpucores() returns 1.     *)
OneCPU == \E c \in CPUs : callers \subseteq {c}

(* While kernel code or a handler has a lock, or is about to take it, no   *)
(* interrupt can come on its CPU: the handler might want the same lock.    *)
(* (A second CPU can write lock->interrupts between the two steps of       *)
(* spinlock_release, which is why this and FlagRestored need OneCPU.)      *)
MaskedWhileHeld ==
    OneCPU => \A x \in Contexts :
                 held[x] # {} \/ pc[x] \in {"spin", "save"} => ~flag[x[1]]

(* Outside of all locks the interrupt flag is what it was before them: on  *)
(* in kernel code once start-up is done, off during start-up and in        *)
(* handlers.                                                               *)
FlagRestored ==
    OneCPU => \A x \in Contexts :
                 Running(x) /\ pc[x] = "run" /\ held[x] = {} =>
                     flag[x[1]] = (up[x[1]] /\ x[2] = "kernel")

(* The value that lock->interrupts has to get from a context x which takes *)
(* its first lock, or further ones.                                        *)
FlagOutside(x, first) == first /\ up[x[1]] /\ x[2] = "kernel"

(* Why the flag is restored on one CPU, for a context x: what it carries   *)
(* in `saved', and then in lock->interrupts of the locks it has, is the    *)
(* flag from before its first lock; and a context that is interrupted, or  *)
(* not running, has no lock at all.                                        *)
FlagCarried(x) ==
    /\ pc[x] # "run" => lock[x] \in Locks
    /\ pc[x] \in {"cli", "spin"} =>
          /\ saved[x] <=> FlagOutside(x, held[x] = {})
          /\ \A m \in held[x] : m < lock[x]
    /\ pc[x] = "save" =>
          /\ saved[x] <=> FlagOutside(x, held[x] = {lock[x]})
          /\ lock[x] \in held[x] /\ \A m \in held[x] : m <= lock[x]
    /\ pc[x] = "restore" => (interrupts[lock[x]] <=> FlagOutside(x, held[x] = {}))
    /\ \A l \in held[x] :
          \/ pc[x] = "save" /\ l = lock[x]
          \/ interrupts[l] <=> FlagOutside(x, \A m \in held[x] : l <= m)

FlagInvOf(c) ==
    LET k == <<c, "kernel">>
        h == <<c, "handler">>
    IN  /\ FlagCarried(k) /\ FlagCarried(h)
        /\ handling[c] => ~flag[c] /\ up[c] /\ held[k] = {} /\ pc[k] \in {"run", "cli"}
        /\ ~handling[c] =>
              /\ held[h] = {} /\ pc[h] = "run"
              /\ flag[c] <=> FlagOutside(k, held[k] = {} /\ pc[k] \in {"run", "cli"})

(* On the only CPU that uses the locks, and trivially on the others.       *)
FlagInv ==
    /\ \A x \in Contexts : x[1] \notin callers => held[x] = {} /\ pc[x] = "run"
    /\ OneCPU => \A c \in CPUs : FlagInvOf(c)

(* "Acquire 'lock', blocking until it is available" (hal.h): the call gets *)
(* the lock, and returns.  Among several CPUs one may wait forever.        *)
AcquireReturns ==
    []OneCPU => \A x \in Contexts :
                   /\ pc[x] = "spin" ~> pc[x] = "save" /\ lock[x] \in held[x]
                   /\ pc[x] = "save" ~> pc[x] = "run"
=============================================================================
