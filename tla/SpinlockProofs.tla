--------------------------- MODULE SpinlockProofs ---------------------------
(***************************************************************************)
(* Proofs about Spinlock: mutual exclusion for any number of CPUs, locks   *)
(* and nestings, and the interrupt flag on one CPU.                        *)
(***************************************************************************)
EXTENDS Spinlock, TLAPS, WellFoundedInduction

(* A nonempty set of natural numbers has a least element.                  *)
LEMMA LeastNatural ==
    ASSUME NEW T, T \subseteq Nat, T # {}
    PROVE  \E x \in T : \A y \in T : x <= y
<1> DEFINE R == OpToRel(<, Nat)
<1>1. IsWellFoundedOn(R, Nat)
  BY NatLessThanWellFounded
<1>2. \A x, y \in Nat : <<y, x>> \in R <=> y < x
  BY DEF OpToRel
<1> HIDE DEF R
<1>3. PICK x \in T : \A y \in T : ~ (<<y, x>> \in R)
  BY <1>1, WFMin
<1>4. ASSUME NEW y \in T PROVE x <= y
  <2>1. x \in Nat /\ y \in Nat
    OBVIOUS
  <2>2. ~(y < x)
    BY <1>2, <1>3, <2>1
  <2>3. QED
    BY <2>1, <2>2
<1>5. QED
  BY <1>4

(* Top is the last lock in the order of nesting.                           *)
LEMMA TopIsLast ==
    ASSUME NEW x \in Contexts, held[x] \subseteq Locks, held[x] # {}
    PROVE  Top(x) \in held[x] /\ \A m \in held[x] : m <= Top(x)
<1> DEFINE T == {NLocks - l : l \in held[x]}
<1>1. T \subseteq Nat /\ T # {}
  BY LockAssumption DEF Locks
<1>2. PICK d \in T : \A e \in T : d <= e
  BY <1>1, LeastNatural
<1>3. PICK l \in held[x] : d = NLocks - l
  BY <1>2
<1>4. \A m \in held[x] : NLocks - l <= NLocks - m
  BY <1>2, <1>3
<1>5. \A m \in held[x] : m <= l
  BY <1>4, LockAssumption DEF Locks
<1>6. QED
  BY <1>5 DEF Top

-----------------------------------------------------------------------------
(* Mutual exclusion                                                        *)

(* A context in the loop has its argument in `lock'.                       *)
LockArgument == \A x \in Contexts : pc[x] # "run" => lock[x] \in Locks

MutexInv == TypeOK /\ LockArgument /\ MutualExclusion

LEMMA MutexInit == Init => MutexInv
BY DEF Init, MutexInv, TypeOK, LockArgument, MutualExclusion

LEMMA MutexStep == MutexInv /\ [Next]_vars => MutexInv'
<1> SUFFICES ASSUME MutexInv, [Next]_vars
             PROVE  MutexInv'
  OBVIOUS
<1> USE DEF MutexInv
<1>1. ASSUME NEW x \in Contexts, NEW l \in Locks, Acquire(x, l)
      PROVE  MutexInv'
  <2>1. x[1] \in CPUs
    BY DEF Contexts
  <2>2. TypeOK'
    BY <1>1, <2>1 DEF Acquire, TypeOK, Contexts
  <2>3. LockArgument'
    BY <1>1 DEF Acquire, TypeOK, LockArgument
  <2>4. QED
    BY <1>1, <2>2, <2>3 DEF Acquire, MutualExclusion
<1>2. ASSUME NEW x \in Contexts, Disable(x)
      PROVE  MutexInv'
  BY <1>2 DEF Disable, TypeOK, LockArgument, MutualExclusion, Contexts
<1>3. ASSUME NEW x \in Contexts, Take(x)
      PROVE  MutexInv'
  <2>1. lock[x] \in Locks
    BY <1>3 DEF Take, LockArgument
  <2>2. TypeOK'
    BY <1>3, <2>1 DEF Take, TypeOK
  <2>3. LockArgument'
    BY <1>3 DEF Take, TypeOK, LockArgument
  <2>4. \A y \in Contexts : lock[x] \notin held[y]
    BY <1>3, <2>1 DEF Take, MutualExclusion
  <2>5. \A y, z \in Contexts : y # z => held'[y] \cap held'[z] = {}
    BY <1>3, <2>4 DEF Take, TypeOK, MutualExclusion
  <2>6. \A l \in Locks : val'[l] = 1 <=> \E y \in Contexts : l \in held'[y]
    BY <1>3, <2>1, <2>4 DEF Take, TypeOK, MutualExclusion
  <2>7. QED
    BY <2>2, <2>3, <2>5, <2>6 DEF MutualExclusion
<1>4. ASSUME NEW x \in Contexts, Save(x)
      PROVE  MutexInv'
  BY <1>4 DEF Save, TypeOK, LockArgument, MutualExclusion
<1>5. ASSUME NEW x \in Contexts, Release(x)
      PROVE  MutexInv'
  <2>1. Top(x) \in held[x] /\ Top(x) \in Locks
    BY <1>5, TopIsLast DEF Release, TypeOK
  <2>2. TypeOK'
    BY <1>5, <2>1 DEF Release, TypeOK
  <2>3. LockArgument'
    BY <1>5, <2>1 DEF Release, TypeOK, LockArgument
  <2>4. \A y, z \in Contexts : y # z => held'[y] \cap held'[z] = {}
    BY <1>5 DEF Release, TypeOK, MutualExclusion
  <2>5. \A l \in Locks : val'[l] = 1 <=> \E y \in Contexts : l \in held'[y]
    BY <1>5, <2>1 DEF Release, TypeOK, MutualExclusion
  <2>6. QED
    BY <2>2, <2>3, <2>4, <2>5 DEF MutualExclusion
<1>6. ASSUME NEW x \in Contexts, Restore(x)
      PROVE  MutexInv'
  BY <1>6 DEF Restore, TypeOK, LockArgument, MutualExclusion, Contexts
<1>7. ASSUME NEW c \in CPUs, Enable(c) \/ Interrupt(c) \/ Return(c)
      PROVE  MutexInv'
  <2>1. CASE Enable(c)
    BY <2>1 DEF Enable, TypeOK, LockArgument, MutualExclusion
  <2>2. CASE Interrupt(c)
    BY <2>2 DEF Interrupt, TypeOK, LockArgument, MutualExclusion
  <2>3. CASE Return(c)
    BY <2>3 DEF Return, TypeOK, LockArgument, MutualExclusion
  <2>4. QED
    BY <1>7, <2>1, <2>2, <2>3
<1>8. CASE UNCHANGED vars
  BY <1>8 DEF vars, TypeOK, LockArgument, MutualExclusion
<1>9. QED
  BY <1>1, <1>2, <1>3, <1>4, <1>5, <1>6, <1>7, <1>8 DEF Next, Inside, Spin

(* On any number of CPUs, with interrupts anywhere, two contexts never     *)
(* have the same lock, and lock->val says whether a context has it.        *)
THEOREM Exclusion == Spec => [](TypeOK /\ MutualExclusion)
<1>1. MutexInv => TypeOK /\ MutualExclusion
  BY DEF MutexInv
<1>2. QED
  BY MutexInit, MutexStep, <1>1, PTL DEF Spec

-----------------------------------------------------------------------------
(* The interrupt flag                                                      *)

LEMMA FlagInit == Init => FlagInv
BY DEF Init, FlagInv, FlagInvOf, FlagCarried, FlagOutside, Contexts

(* A step of the code on CPU c, or an interrupt there.                     *)
CodeStep(c) ==
    \E x \in Contexts : /\ x[1] = c
                        /\ (\E l \in Locks : Acquire(x, l)) \/ Inside(x) \/ Release(x)

StepOn(c) == CodeStep(c) \/ Enable(c) \/ Interrupt(c) \/ Return(c)

LEMMA NextIsStepOn == Next => \E c \in CPUs : StepOn(c)
<1>1. \A x \in Contexts : x[1] \in CPUs
  BY DEF Contexts
<1>2. QED
  BY <1>1 DEF Next, StepOn, CodeStep

(* The steps of a CPU preserve the invariant of its own flag.              *)
LEMMA FlagStep ==
    ASSUME TypeOK, NEW c \in CPUs, FlagInvOf(c), StepOn(c)
    PROVE  FlagInvOf(c)'
<1> DEFINE k == <<c, "kernel">>
           h == <<c, "handler">>
<1>2. /\ c \in CPUs
      /\ k \in Contexts /\ h \in Contexts /\ k # h
      /\ k[1] = c /\ h[1] = c /\ k[2] = "kernel" /\ h[2] = "handler"
      /\ \A x \in Contexts : x[1] = c => x = k \/ x = h
  BY DEF Contexts
<1> DEFINE Idle == held[h] = {} /\ pc[h] = "run"
           Low(x) == held[x] = {} /\ pc[x] \in {"run", "cli"}
           Inv == /\ FlagCarried(k) /\ FlagCarried(h)
                  /\ handling[c] => ~flag[c] /\ up[c] /\ Low(k)
                  /\ ~handling[c] => /\ Idle
                                     /\ flag[c] <=> (Low(k) /\ up[c])
<1>3. Inv
  BY <1>2 DEF FlagInvOf, FlagOutside
<1>4. SUFFICES Inv'
  BY <1>2 DEF FlagInvOf, FlagOutside
<1>5. TypeOK
  OBVIOUS
<1> HIDE DEF k, h
<1>6. ASSUME NEW x \in Contexts, x[1] = c, NEW l \in Locks, Acquire(x, l)
      PROVE  Inv'
  <2>1. held[x] # {} => Top(x) \in held[x] /\ Top(x) < l /\ \A m \in held[x] : m <= Top(x)
    <3>1. held[x] \subseteq Locks
      BY <1>5 DEF TypeOK
    <3>2. QED
      BY <1>6, <3>1, TopIsLast, LockAssumption DEF Acquire
  <2>2. \A m \in held[x] : m < l
    BY <1>5, <2>1, LockAssumption DEF Locks, TypeOK
  <2>3. CASE x = k
    BY <1>2, <1>3, <1>5, <1>6, <2>2, <2>3 DEF Acquire, TypeOK, FlagCarried, FlagOutside, Running
  <2>4. CASE x = h
    BY <1>2, <1>3, <1>5, <1>6, <2>2, <2>4 DEF Acquire, TypeOK, FlagCarried, FlagOutside, Running
  <2>5. QED
    BY <1>2, <1>6, <2>3, <2>4
<1>7. ASSUME NEW x \in Contexts, x[1] = c, Disable(x)
      PROVE  Inv'
  <2>1. CASE x = k
    BY <1>2, <1>3, <1>5, <1>7, <2>1 DEF Disable, TypeOK, FlagCarried, FlagOutside, Running
  <2>2. CASE x = h
    BY <1>2, <1>3, <1>5, <1>7, <2>2 DEF Disable, TypeOK, FlagCarried, FlagOutside, Running
  <2>3. QED
    BY <1>2, <1>7, <2>1, <2>2
<1>8. ASSUME NEW x \in Contexts, x[1] = c, Take(x)
      PROVE  Inv'
  <2>1. lock[x] \in Locks /\ \A m \in held[x] : m < lock[x] /\ m \in Locks
    BY <1>2, <1>3, <1>5, <1>8 DEF Take, TypeOK, FlagCarried
  <2>2. \A m \in held[x] : ~(lock[x] <= m) /\ m <= lock[x] /\ m # lock[x]
    BY <2>1, LockAssumption DEF Locks
  <2>3. /\ held' = [held EXCEPT ![x] = held[x] \cup {lock[x]}]
        /\ pc' = [pc EXCEPT ![x] = "save"]
        /\ pc[x] = "spin" /\ Running(x)
        /\ UNCHANGED <<interrupts, flag, handling, up, lock, saved>>
    BY <1>8 DEF Take
  <2>4. FlagCarried(x)'
    <3>1. FlagCarried(x)
      BY <1>2, <1>3, <1>8
    <3>2. held'[x] = held[x] \cup {lock[x]} /\ lock'[x] = lock[x] /\ pc'[x] = "save"
      BY <1>5, <2>3 DEF TypeOK
    <3>3. /\ saved[x] <=> FlagOutside(x, held[x] = {})
          /\ \A l \in held[x] : interrupts[l] <=> FlagOutside(x, \A m \in held[x] : l <= m)
      BY <2>3, <3>1 DEF FlagCarried
    <3>4. held[x] = {} <=> held[x] \cup {lock[x]} = {lock[x]}
      BY <2>2
    <3>5. \A l \in held[x] :
              (\A m \in held[x] : l <= m) <=> (\A m \in held[x] \cup {lock[x]} : l <= m)
      BY <2>2
    <3>6. saved[x] <=> FlagOutside(x, held[x] \cup {lock[x]} = {lock[x]})
      BY <3>3, <3>4 DEF FlagOutside
    <3>7. \A l \in held[x] :
              interrupts[l] <=> FlagOutside(x, \A m \in held[x] \cup {lock[x]} : l <= m)
      BY <3>3, <3>5 DEF FlagOutside
    <3>8. \A m \in held[x] \cup {lock[x]} : m <= lock[x]
      BY <2>1, <2>2, LockAssumption DEF Locks
    <3>9. QED
      BY <2>1, <2>3, <3>2, <3>6, <3>7, <3>8 DEF FlagCarried, FlagOutside
  <2>5. CASE x = k
    <3>1. FlagCarried(h)'
      BY <1>2, <1>3, <1>5, <2>3, <2>5 DEF FlagCarried, FlagOutside, TypeOK, Running
    <3>2. ~handling[c] /\ ~flag[c]
      BY <1>2, <1>3, <1>5, <2>3, <2>5 DEF Running, TypeOK
    <3>3. QED
      BY <1>2, <1>3, <1>5, <2>3, <2>4, <2>5, <3>1, <3>2 DEF TypeOK
  <2>6. CASE x = h
    <3>1. handling[c] /\ ~flag[c] /\ held[k] = {} /\ pc[k] \in {"run", "cli"}
      BY <1>2, <1>3, <1>5, <2>3, <2>6 DEF Running, TypeOK
    <3>2. FlagCarried(k)'
      BY <1>2, <1>3, <1>5, <2>3, <2>6, <3>1 DEF FlagCarried, FlagOutside, TypeOK
    <3>3. QED
      BY <1>2, <1>3, <1>5, <2>3, <2>4, <2>6, <3>1, <3>2 DEF TypeOK
  <2>7. QED
    BY <1>2, <1>8, <2>5, <2>6
<1>9. ASSUME NEW x \in Contexts, x[1] = c, Save(x)
      PROVE  Inv'
  <2>1. /\ interrupts' = [interrupts EXCEPT ![lock[x]] = saved[x]]
        /\ pc' = [pc EXCEPT ![x] = "run"]
        /\ pc[x] = "save" /\ Running(x)
        /\ lock' = [lock EXCEPT ![x] = 0] /\ saved' = [saved EXCEPT ![x] = FALSE]
        /\ UNCHANGED <<flag, handling, up, held>>
    BY <1>9 DEF Save
  <2>2. FlagCarried(x)'
    <3>1. FlagCarried(x)
      BY <1>2, <1>3, <1>9
    <3>2. /\ saved[x] <=> FlagOutside(x, held[x] = {lock[x]})
          /\ lock[x] \in held[x] /\ lock[x] \in Locks
          /\ \A m \in held[x] : m <= lock[x] /\ m \in Locks
          /\ \A l \in held[x] : l # lock[x] =>
                (interrupts[l] <=> FlagOutside(x, \A m \in held[x] : l <= m))
      BY <1>5, <2>1, <3>1 DEF FlagCarried, TypeOK
    <3>3. held[x] = {lock[x]} <=> \A m \in held[x] : lock[x] <= m
      BY <3>2, LockAssumption DEF Locks
    <3>4. saved[x] <=> FlagOutside(x, \A m \in held[x] : lock[x] <= m)
      BY <3>2, <3>3 DEF FlagOutside
    <3>5. /\ interrupts'[lock[x]] = saved[x]
          /\ \A l \in held[x] : l # lock[x] => interrupts'[l] = interrupts[l]
          /\ pc'[x] = "run"
      BY <1>5, <2>1, <3>2 DEF TypeOK
    <3>6. \A l \in held[x] : interrupts'[l] <=> FlagOutside(x, \A m \in held[x] : l <= m)
      BY <3>2, <3>4, <3>5, ZenonT(60)
    <3>7. QED
      BY <2>1, <3>5, <3>6 DEF FlagCarried, FlagOutside
  <2>3. CASE x = k
    <3>1. FlagCarried(h)'
      BY <1>2, <1>3, <1>5, <2>1, <2>3 DEF FlagCarried, FlagOutside, TypeOK, Running
    <3>2. ~handling[c] /\ ~flag[c]
      BY <1>2, <1>3, <1>5, <2>1, <2>3 DEF Running, TypeOK
    <3>3. held[k] # {}
      BY <1>3, <2>1, <2>3 DEF FlagCarried
    <3>4. QED
      BY <1>2, <1>3, <1>5, <2>1, <2>2, <2>3, <3>1, <3>2, <3>3 DEF TypeOK
  <2>4. CASE x = h
    <3>1. handling[c] /\ ~flag[c] /\ held[k] = {} /\ pc[k] \in {"run", "cli"}
      BY <1>2, <1>3, <1>5, <2>1, <2>4 DEF Running, TypeOK
    <3>2. FlagCarried(k)'
      BY <1>2, <1>3, <1>5, <2>1, <2>4, <3>1 DEF FlagCarried, FlagOutside, TypeOK
    <3>3. QED
      BY <1>2, <1>3, <1>5, <2>1, <2>2, <2>4, <3>1, <3>2 DEF TypeOK
  <2>5. QED
    BY <1>2, <1>9, <2>3, <2>4
<1>10. ASSUME NEW x \in Contexts, x[1] = c, Release(x)
       PROVE  Inv'
  <2>1. Top(x) \in held[x] /\ Top(x) \in Locks /\ \A m \in held[x] : m <= Top(x) /\ m \in Locks
    BY <1>5, <1>10, TopIsLast DEF Release, TypeOK
  <2>2. /\ (\A m \in held[x] : Top(x) <= m) <=> held[x] \ {Top(x)} = {}
        /\ \A l \in held[x] \ {Top(x)} :
              (\A m \in held[x] : l <= m) <=> (\A m \in held[x] \ {Top(x)} : l <= m)
    BY <2>1, LockAssumption DEF Locks
  <2>3. /\ held' = [held EXCEPT ![x] = held[x] \ {Top(x)}]
        /\ lock' = [lock EXCEPT ![x] = Top(x)]
        /\ pc' = [pc EXCEPT ![x] = "restore"]
        /\ pc[x] = "run" /\ Running(x) /\ held[x] # {}
        /\ UNCHANGED <<interrupts, flag, handling, up, saved>>
    BY <1>10 DEF Release
  <2>4. FlagCarried(x)'
    <3>1. FlagCarried(x)
      BY <1>2, <1>3, <1>10
    <3>2. /\ held'[x] = held[x] \ {Top(x)} /\ lock'[x] = Top(x) /\ pc'[x] = "restore"
      BY <1>5, <2>3 DEF TypeOK
    <3>3. \A l \in held[x] : interrupts[l] <=> FlagOutside(x, \A m \in held[x] : l <= m)
      BY <2>3, <3>1 DEF FlagCarried
    <3>4. interrupts[Top(x)] <=> FlagOutside(x, held[x] \ {Top(x)} = {})
      BY <2>1, <2>2, <3>3 DEF FlagOutside
    <3>5. \A l \in held[x] \ {Top(x)} :
              interrupts[l] <=> FlagOutside(x, \A m \in held[x] \ {Top(x)} : l <= m)
      BY <2>2, <3>3 DEF FlagOutside
    <3>6. QED
      BY <2>1, <2>3, <3>2, <3>4, <3>5 DEF FlagCarried, FlagOutside
  <2>5. CASE x = k
    <3>1. FlagCarried(h)'
      BY <1>2, <1>3, <1>5, <2>3, <2>5 DEF FlagCarried, FlagOutside, TypeOK
    <3>2. ~handling[c] /\ ~flag[c]
      BY <1>2, <1>3, <1>5, <2>3, <2>5 DEF Running, TypeOK
    <3>3. QED
      BY <1>2, <1>3, <1>5, <2>3, <2>4, <2>5, <3>1, <3>2 DEF TypeOK
  <2>6. CASE x = h
    <3>1. FlagCarried(k)'
      BY <1>2, <1>3, <1>5, <2>3, <2>6 DEF FlagCarried, FlagOutside, TypeOK
    <3>2. handling[c]
      BY <1>2, <1>3, <1>5, <2>3, <2>6 DEF Running, TypeOK
    <3>3. QED
      BY <1>2, <1>3, <1>5, <2>3, <2>4, <2>6, <3>1, <3>2 DEF TypeOK
  <2>7. QED
    BY <1>2, <1>10, <2>5, <2>6
<1>11. ASSUME NEW x \in Contexts, x[1] = c, Restore(x)
       PROVE  Inv'
  <2>1. CASE x = k
    <3>1. ~handling[c] /\ ~flag[c] /\ pc[k] = "restore" /\ lock[k] \in Locks
      BY <1>2, <1>3, <1>5, <1>11, <2>1 DEF Restore, Running, FlagCarried
    <3>2. interrupts[lock[k]] <=> (held[k] = {} /\ up[c])
      BY <1>2, <1>3, <3>1 DEF FlagCarried, FlagOutside
    <3>3. flag'[c] <=> (held[k] = {} /\ up[c])
      BY <1>2, <1>5, <1>11, <2>1, <3>1, <3>2 DEF Restore, TypeOK
    <3>4. /\ pc' = [pc EXCEPT ![k] = "run"]
          /\ lock' = [lock EXCEPT ![k] = 0]
          /\ UNCHANGED <<interrupts, handling, up, saved, held>>
      BY <1>11, <2>1 DEF Restore
    <3>5. FlagCarried(k)' /\ FlagCarried(h)'
      BY <1>2, <1>3, <1>5, <3>1, <3>4 DEF FlagCarried, FlagOutside, TypeOK
    <3>6. QED
      BY <1>2, <1>3, <1>5, <3>1, <3>3, <3>4, <3>5 DEF TypeOK
  <2>2. CASE x = h
    BY <1>2, <1>3, <1>5, <1>11, <2>2 DEF Restore, TypeOK, FlagCarried, FlagOutside, Running
  <2>3. QED
    BY <1>2, <1>11, <2>1, <2>2
<1>12. CASE Enable(c)
  BY <1>2, <1>3, <1>5, <1>12 DEF Enable, TypeOK, FlagCarried, FlagOutside, Running, k
<1>13. CASE Interrupt(c)
  BY <1>2, <1>3, <1>5, <1>13 DEF Interrupt, TypeOK, FlagCarried, FlagOutside
<1>14. CASE Return(c)
  BY <1>2, <1>3, <1>5, <1>14 DEF Return, TypeOK, FlagCarried, FlagOutside, h
<1>15. CASE UNCHANGED vars
  BY <1>3, <1>15 DEF vars, FlagCarried, FlagOutside
<1>16. CASE CodeStep(c)
  BY <1>6, <1>7, <1>8, <1>9, <1>10, <1>11, <1>15, <1>16 DEF CodeStep, Inside, Spin
<1>17. QED
  BY <1>12, <1>13, <1>14, <1>16 DEF StepOn

(* A CPU that does not use the locks is not disturbed by the others.       *)
LEMMA FlagOther ==
    ASSUME TypeOK, NEW c \in CPUs, NEW d \in CPUs, d # c, StepOn(c), FlagInvOf(d),
           \A x \in Contexts : x[1] = d => held[x] = {} /\ pc[x] = "run"
    PROVE  FlagInvOf(d)'
<1> DEFINE k == <<d, "kernel">>
           h == <<d, "handler">>
<1>1. /\ k \in Contexts /\ h \in Contexts
      /\ k[1] = d /\ h[1] = d /\ k[2] = "kernel" /\ h[2] = "handler"
      /\ \A x \in Contexts : x[1] = c => x # k /\ x # h
  BY DEF Contexts
<1>2. held[k] = {} /\ pc[k] = "run" /\ held[h] = {} /\ pc[h] = "run"
  BY <1>1
<1> DEFINE Same == /\ flag'[d] = flag[d] /\ handling'[d] = handling[d] /\ up'[d] = up[d]
                   /\ held'[k] = held[k] /\ held'[h] = held[h]
                   /\ pc'[k] = pc[k] /\ pc'[h] = pc[h]
<1> HIDE DEF k, h
<1>3. Same
  <2>1. ASSUME NEW x \in Contexts, x[1] = c, NEW l \in Locks, Acquire(x, l) PROVE Same
    BY <1>1, <2>1 DEF Acquire, TypeOK
  <2>2. ASSUME NEW x \in Contexts, x[1] = c, Inside(x) PROVE Same
    BY <1>1, <2>2 DEF Inside, Disable, Spin, Take, Save, Restore, TypeOK, vars
  <2>3. ASSUME NEW x \in Contexts, x[1] = c, Release(x) PROVE Same
    BY <1>1, <2>3 DEF Release, TypeOK
  <2>4. CASE Enable(c) \/ Interrupt(c) \/ Return(c)
    BY <2>4 DEF Enable, Interrupt, Return, TypeOK
  <2>5. QED
    BY <2>1, <2>2, <2>3, <2>4 DEF StepOn, CodeStep
<1>4. FlagCarried(k)' /\ FlagCarried(h)'
  BY <1>2, <1>3 DEF FlagCarried
<1>5. QED
  BY <1>1, <1>2, <1>3, <1>4 DEF FlagInvOf, FlagOutside, k, h

LEMMA OneStep == MutexInv /\ FlagInv /\ [Next]_vars => FlagInv'
<1> DEFINE Idle(x) == held[x] = {} /\ pc[x] = "run"
           Others == \A x \in Contexts : x[1] \notin callers => Idle(x)
<1> SUFFICES ASSUME TypeOK, Others, OneCPU => \A c \in CPUs : FlagInvOf(c), [Next]_vars
             PROVE  FlagInv'
  BY DEF MutexInv, FlagInv
<1>1. CASE UNCHANGED vars
  <2>1. ASSUME NEW d \in CPUs, FlagInvOf(d)
        PROVE  FlagInvOf(d)'
    BY <1>1, <2>1 DEF vars, FlagInvOf, FlagCarried, FlagOutside
  <2>2. QED
    BY <1>1, <2>1 DEF vars, FlagInv, OneCPU
<1>2. ASSUME NEW c \in CPUs, StepOn(c)
      PROVE  FlagInv'
  <2>1. ASSUME NEW x \in Contexts, x[1] = c,
               (\E l \in Locks : Acquire(x, l)) \/ Inside(x) \/ Release(x)
        PROVE  /\ callers' = callers \cup {c}
               /\ \A y \in Contexts : y # x => held'[y] = held[y] /\ pc'[y] = pc[y]
    <3>1. CASE \E l \in Locks : Acquire(x, l)
      BY <2>1, <3>1 DEF Acquire, TypeOK
    <3>2. CASE Inside(x) \/ Release(x)
      <4>1. ~Idle(x)
        BY <3>2 DEF Inside, Disable, Spin, Save, Restore, Release
      <4>2. c \in callers
        BY <2>1, <4>1
      <4>3. /\ callers' = callers
            /\ \A y \in Contexts : y # x => held'[y] = held[y] /\ pc'[y] = pc[y]
        BY <3>2 DEF Inside, Disable, Spin, Take, Save, Restore, Release, TypeOK, vars
      <4>4. QED
        BY <4>2, <4>3
    <3>3. QED
      BY <2>1, <3>1, <3>2
  <2>2. ASSUME Enable(c) \/ Interrupt(c) \/ Return(c)
        PROVE  callers' = callers /\ held' = held /\ pc' = pc
    BY <2>2 DEF Enable, Interrupt, Return
  <2>3. callers \subseteq callers' /\ Others'
    BY <1>2, <2>1, <2>2 DEF StepOn, CodeStep
  <2>4. ASSUME OneCPU', NEW d \in CPUs
        PROVE  FlagInvOf(d)'
    <3>1. FlagInvOf(c) /\ FlagInvOf(d)
      BY <2>3, <2>4 DEF OneCPU
    <3>2. CASE d = c
      BY <1>2, <3>1, <3>2, FlagStep
    <3>3. CASE d # c /\ CodeStep(c)
      <4>1. d \notin callers
        BY <2>1, <2>4, <3>3 DEF OneCPU, CodeStep
      <4>2. QED
        BY <1>2, <3>1, <3>3, <4>1, FlagOther
    <3>4. CASE d # c /\ (Enable(c) \/ Interrupt(c) \/ Return(c))
      <4>1. UNCHANGED <<interrupts, pc, lock, saved, held>>
        BY <3>4 DEF Enable, Interrupt, Return
      <4>2. flag'[d] = flag[d] /\ handling'[d] = handling[d] /\ up'[d] = up[d]
        BY <3>4 DEF Enable, Interrupt, Return, TypeOK
      <4>3. ASSUME NEW z, FlagCarried(<<d, z>>)
            PROVE  FlagCarried(<<d, z>>)'
        BY <4>1, <4>2, <4>3 DEF FlagCarried, FlagOutside
      <4>4. QED
        BY <3>1, <4>1, <4>2, <4>3 DEF FlagInvOf, FlagOutside
    <3>5. QED
      BY <1>2, <3>2, <3>3, <3>4 DEF StepOn
  <2>5. QED
    BY <2>3, <2>4 DEF FlagInv
<1>3. QED
  BY <1>1, <1>2, NextIsStepOn

LEMMA FlagInvariance == Spec => [](MutexInv /\ FlagInv)
BY MutexInit, MutexStep, FlagInit, OneStep, PTL DEF Spec

(* As long as one CPU uses the locks, and get_num_cpucores() reports no    *)
(* other, no interrupt can come on it while a lock is held or about to be  *)
(* taken, for any locks and any nesting of them.                           *)
THEOREM Masked == Spec => []MaskedWhileHeld
<1>1. MutexInv /\ FlagInv => MaskedWhileHeld
  <2> SUFFICES ASSUME MutexInv, FlagInv, OneCPU, NEW x \in Contexts,
                      held[x] # {} \/ pc[x] \in {"spin", "save"}
               PROVE  ~flag[x[1]]
    BY DEF MaskedWhileHeld
  <2>1. PICK c \in CPUs : x = <<c, "kernel">> \/ x = <<c, "handler">>
    BY DEF Contexts
  <2>2. FlagInvOf(c)
    BY DEF FlagInv
  <2>3. QED
    BY <2>1, <2>2 DEF FlagInvOf, FlagOutside
<1>2. QED
  BY <1>1, FlagInvariance, PTL

(* As long as one CPU uses the locks, outside of them its interrupt flag   *)
(* is what it was before them.                                             *)
THEOREM FlagSafety == Spec => []FlagRestored
<1>1. MutexInv /\ FlagInv => FlagRestored
  <2> SUFFICES ASSUME MutexInv, FlagInv, OneCPU, NEW x \in Contexts,
                      Running(x), pc[x] = "run", held[x] = {}
               PROVE  flag[x[1]] = (up[x[1]] /\ x[2] = "kernel")
    BY DEF FlagRestored
  <2>1. PICK c \in CPUs : x = <<c, "kernel">> \/ x = <<c, "handler">>
    BY DEF Contexts
  <2>2. FlagInvOf(c)
    BY DEF FlagInv
  <2>3. x[1] = c /\ flag[c] \in BOOLEAN /\ up[c] \in BOOLEAN /\ handling[c] \in BOOLEAN
    BY <2>1 DEF MutexInv, TypeOK
  <2>4. flag[c] <=> (up[c] /\ x[2] = "kernel")
    BY <2>1, <2>2, <2>3 DEF FlagInvOf, FlagOutside, Running
  <2>5. QED
    BY <2>3, <2>4
<1>2. QED
  BY <1>1, FlagInvariance, PTL
=============================================================================
