----------------------------- MODULE BootProofs -----------------------------
(***************************************************************************)
(* Proofs about start-up from the boot loader on, for everything that the  *)
(* boot loader may leave and every table of features.                      *)
(***************************************************************************)
EXTENDS Boot, TLAPS, FiniteSetTheorems, SequenceTheorems

-----------------------------------------------------------------------------
(* The start-up of features, for every table                               *)

(* The number of prerequisites that f names.                               *)
Count(f) == Len(table.required[f]) + Len(table.load_after[f])

(* The prerequisites that the call in frame c has passed.                  *)
Passed(c) == 1 .. (Count(c.feature) - Len(c.todo))

OnStack(f) == \E n \in DOMAIN stack : stack[n].feature = f

IsStarted(f) == \E n \in DOMAIN started : started[n] = f

Items == [feature : Link, hard : BOOLEAN]

Frames == [feature : Feature, todo : Seq(Items)]

Types ==
    /\ table \in Tables
    /\ stage \in {"resolve", "init", "up", "panic"}
    /\ next \in 1 .. (N + 1)
    /\ state \in [Feature -> {UNINIT, RESOLVED, INIT}]
    /\ feature \in [Feature -> Seq(Link)]
    /\ stack \in Seq(Frames)
    /\ started \in Seq(Feature)
    /\ result \in [Feature -> Results \cup {0}]

(* While the names are resolved nothing is started; afterwards every       *)
(* prerequisite has been looked up.                                        *)
ResolveInv ==
    /\ stage = "resolve" =>
          /\ stack = <<>> /\ started = <<>>
          /\ \A f \in Feature : state[f] # INIT
    /\ \A f \in Feature : stage # "resolve" \/ f < next => Len(feature[f]) = Count(f)

(* A feature is marked exactly if it is done or its call is in progress,   *)
(* and it is only once in either place.                                    *)
MarkInv ==
    /\ \A f \in Feature : state[f] = INIT <=> IsStarted(f) \/ OnStack(f)
    /\ \A f \in Feature : ~(IsStarted(f) /\ OnStack(f))
    /\ \A m, n \in DOMAIN stack : stack[m].feature = stack[n].feature => m = n
    /\ \A m, n \in DOMAIN started : started[m] = started[n] => m = n

(* A call in progress has the rest of its prerequisites before it; the     *)
(* last one that it has passed is the one it is waiting for; and it has    *)
(* passed no missing hard one.                                             *)
FrameInv ==
    \A n \in DOMAIN stack :
        LET f == stack[n].feature
            t == stack[n].todo
        IN  /\ Len(t) <= Count(f)
            /\ \A i \in 1 .. Len(t) : t[i] = Prereqs(f)[Count(f) - Len(t) + i]
            /\ \A i \in Passed(stack[n]) : feature[f][i] = 0 => i > Len(table.required[f])
            /\ n > 1 => /\ Count(f) - Len(t) > 0
                        /\ stack[n - 1].feature = feature[f][Count(f) - Len(t)]

(* The features that are done had their hard prerequisites, and the loop   *)
(* of init_features has left none out.                                     *)
DoneInv ==
    /\ \A n \in DOMAIN started : \A i \in 1 .. Len(table.required[started[n]]) :
          feature[started[n]][i] # 0
    /\ stage \in {"init", "up"} => \A f \in Feature : f < next => state[f] = INIT
    /\ stage = "up" => next = N + 1 /\ stack = <<>>

(* A numbering of the features in which every one comes after those that   *)
(* it names.                                                               *)
Ranks(rank) ==
    /\ rank \in [Feature -> Feature]
    /\ \A f \in Feature : \A g \in After(f) : rank[g] < rank[f]

(* Without a cycle, the calls in progress go down in the numbering, so     *)
(* that what a call has passed is done, or is what it is waiting for.      *)
OrderInv ==
    \A rank \in [Feature -> Feature] : Ranks(rank) =>
        /\ \A m, n \in DOMAIN stack : m < n => rank[stack[m].feature] < rank[stack[n].feature]
        /\ \A n \in DOMAIN stack : \A i \in Passed(stack[n]) :
              LET g == feature[stack[n].feature][i]
              IN  g = 0 \/ IsStarted(g) \/ (n > 1 /\ g = stack[n - 1].feature)

(* What a feature that is done names was done before it.                   *)
SortedInv ==
    \A rank \in [Feature -> Feature] : Ranks(rank) =>
        \A n \in DOMAIN started : \A i \in DOMAIN feature[started[n]] :
            \/ feature[started[n]][i] = 0
            \/ \E k \in DOMAIN started : k < n /\ started[k] = feature[started[n]][i]

IInv == Types /\ ResolveInv /\ MarkInv /\ FrameInv /\ DoneInv /\ OrderInv /\ SortedInv
-----------------------------------------------------------------------------
(* The table and what is looked up in it                                   *)

LEMMA LeastOf ==
    ASSUME NEW T, T \subseteq Nat, T # {}
    PROVE  \E x \in T : \A y \in T : x <= y
<1>1. IsWellFoundedOn(OpToRel(<, Nat), Nat)
  BY NatLessThanWellFounded
<1>2. PICK x \in T : \A y \in T : ~(<<y, x>> \in OpToRel(<, Nat))
  BY <1>1, WFMin
<1>3. \A y \in T : ~(y < x)
  BY <1>2 DEF OpToRel
<1>4. QED
  BY <1>3

LEMMA LeastNatural ==
    ASSUME NEW T, T \subseteq Nat, T # {}
    PROVE  Min(T) \in T
BY LeastOf DEF Min

LEMMA FeaturesAreNumbers ==
    /\ N \in Nat
    /\ \A f : f \in Feature <=> f \in Nat /\ 1 <= f /\ f <= N
<1>1. N \in Nat
  BY TableAssumption
<1>2. QED
  BY <1>1 DEF Feature

LEMMA ListTypes ==
    ASSUME Types, NEW f \in Feature
    PROVE  /\ Len(table.required[f]) \in Nat
           /\ Len(table.load_after[f]) \in Nat
           /\ Count(f) \in Nat
           /\ DOMAIN (table.required[f] \o table.load_after[f]) = 1 .. Count(f)
<1> DEFINE S == Range(table.required[f]) \cup Range(table.load_after[f])
<1>1. table.required[f] \in Seq(S) /\ table.load_after[f] \in Seq(S)
  <2>1. /\ table.required[f] \in Seq(Range(table.required[f]))
        /\ table.load_after[f] \in Seq(Range(table.load_after[f]))
    BY TableAssumption DEF Types
  <2>2. QED
    BY <2>1, SeqMonotonic
<1> HIDE DEF S
<1>2. /\ Len(table.required[f]) \in Nat /\ Len(table.load_after[f]) \in Nat
  BY <1>1
<1>3. Len(table.required[f] \o table.load_after[f])
         = Len(table.required[f]) + Len(table.load_after[f])
  BY <1>1, ConcatProperties
<1>4. DOMAIN (table.required[f] \o table.load_after[f])
         = 1 .. Len(table.required[f] \o table.load_after[f])
  BY <1>1, ConcatProperties, LenProperties
<1>5. DOMAIN (table.required[f] \o table.load_after[f]) = 1 .. Count(f)
  BY <1>3, <1>4, Zenon DEF Count
<1>6. Count(f) \in Nat
  <2> DEFINE a == Len(table.required[f])
             b == Len(table.load_after[f])
  <2>1. a \in Nat /\ b \in Nat /\ Count(f) = a + b
    BY <1>2 DEF Count
  <2> HIDE DEF a, b
  <2>2. QED
    BY <2>1
<1>7. QED
  BY <1>2, <1>5, <1>6, Zenon

LEMMA FindFeatureType == N \in Nat => \A name : find_feature(name) \in Link
<1> SUFFICES ASSUME N \in Nat, NEW name
             PROVE  find_feature(name) \in Link
  OBVIOUS
<1> DEFINE found == {f \in Feature : table.name[f] = name}
<1>1. found # {} => Min(found) \in found
  BY LeastNatural DEF Feature
<1>2. QED
  BY <1>1 DEF find_feature, Link

LEMMA PrereqsType ==
    ASSUME Types, ResolveInv, stage # "resolve", NEW f \in Feature
    PROVE  /\ Prereqs(f) \in Seq(Items)
           /\ Len(Prereqs(f)) = Count(f)
           /\ Count(f) \in Nat
           /\ \A i \in 1 .. Count(f) :
                 /\ Prereqs(f)[i].feature = feature[f][i]
                 /\ Prereqs(f)[i].hard = (i <= Len(table.required[f]))
                 /\ feature[f][i] \in Link
<1>1. /\ Len(table.required[f]) \in Nat /\ Count(f) \in Nat
  BY ListTypes
<1>2. \A i \in 1 .. Count(f) : feature[f][i] \in Link
  BY ElementOfSeq DEF Types, ResolveInv
<1>3. Prereqs(f) = [i \in 1 .. Count(f) |->
                      [feature |-> feature[f][i], hard |-> i <= Len(table.required[f])]]
  BY DEF Prereqs, Count
<1>4. Prereqs(f) \in [1 .. Count(f) -> Items]
  BY <1>1, <1>2, <1>3 DEF Items
<1>5. Prereqs(f) \in Seq(Items) /\ Len(Prereqs(f)) = Count(f)
  BY <1>1, <1>4
<1>6. QED
  BY <1>1, <1>2, <1>3, <1>5

-----------------------------------------------------------------------------
(* The stack of calls                                                      *)

LEMMA Pushed ==
    ASSUME NEW S, NEW s \in Seq(S), NEW x \in S
    PROVE  /\ <<x>> \o s \in Seq(S)
           /\ Len(<<x>> \o s) = Len(s) + 1
           /\ (<<x>> \o s)[1] = x
           /\ \A n \in 2 .. (Len(s) + 1) : (<<x>> \o s)[n] = s[n - 1]
<1>1. <<x>> \in Seq(S) /\ Len(<<x>>) = 1 /\ <<x>>[1] = x
  OBVIOUS
<1>2. QED
  BY <1>1, ConcatProperties

LEMMA Popped ==
    ASSUME NEW S, NEW s \in Seq(S), s # <<>>
    PROVE  /\ Tail(s) \in Seq(S)
           /\ Len(Tail(s)) = Len(s) - 1
           /\ Len(s) \in Nat \ {0}
           /\ Head(s) = s[1] /\ s[1] \in S
           /\ \A n \in 1 .. (Len(s) - 1) : Tail(s)[n] = s[n + 1]
BY HeadTailProperties, EmptySeq

LEMMA Replaced ==
    ASSUME NEW S, NEW s \in Seq(S), NEW e \in S, NEW i \in 1 .. Len(s)
    PROVE  /\ [s EXCEPT ![i] = e] \in Seq(S)
           /\ Len([s EXCEPT ![i] = e]) = Len(s)
           /\ \A j \in 1 .. Len(s) : [s EXCEPT ![i] = e][j] = IF j = i THEN e ELSE s[j]
BY ExceptSeq

(* The stack when the innermost call has passed its next prerequisite.     *)
Advanced == [stack EXCEPT ![1].todo = Tail(@)]

Innermost == stack[1].feature

(* The index of that prerequisite.                                         *)
Current == Count(Innermost) - Len(stack[1].todo) + 1

LEMMA AdvancedFacts ==
    ASSUME IInv, stage = "init", stack # <<>>, Head(stack).todo # <<>>
    PROVE  /\ Advanced \in Seq(Frames) /\ Len(Advanced) = Len(stack)
           /\ Len(stack) \in Nat \ {0}
           /\ Innermost \in Feature /\ Advanced[1].feature = Innermost
           /\ Current \in 1 .. Count(Innermost)
           /\ Count(Innermost) - Len(Advanced[1].todo) = Current
           /\ Len(Advanced[1].todo) \in Nat
           /\ \A i \in 1 .. Len(Advanced[1].todo) :
                 Advanced[1].todo[i] = Prereqs(Innermost)[Current + i]
           /\ Head(Head(stack).todo) = Prereqs(Innermost)[Current]
           /\ \A n \in 2 .. Len(stack) : Advanced[n] = stack[n]
<1> USE DEF IInv
<1>1. /\ Len(stack) \in Nat \ {0} /\ Head(stack) = stack[1] /\ stack[1] \in Frames
  BY Popped DEF Types
<1> DEFINE f == Innermost
           t == stack[1].todo
<1>2. f \in Feature /\ t \in Seq(Items) /\ t # <<>>
  BY <1>1 DEF Frames, Innermost
<1>3. /\ Tail(t) \in Seq(Items) /\ Len(Tail(t)) = Len(t) - 1
      /\ Len(t) \in Nat \ {0} /\ Head(t) = t[1]
      /\ \A n \in 1 .. (Len(t) - 1) : Tail(t)[n] = t[n + 1]
  BY <1>2, Popped
<1>4. Count(f) \in Nat
  BY <1>2, ListTypes
<1>5. /\ Len(t) <= Count(f)
      /\ \A i \in 1 .. Len(t) : t[i] = Prereqs(f)[Count(f) - Len(t) + i]
  BY <1>1 DEF FrameInv, Innermost, Types
<1>6. [stack[1] EXCEPT !.todo = Tail(t)] \in Frames
  BY <1>1, <1>3 DEF Frames
<1>7. Advanced = [stack EXCEPT ![1] = [stack[1] EXCEPT !.todo = Tail(t)]]
  BY DEF Advanced
<1>8. /\ Advanced \in Seq(Frames) /\ Len(Advanced) = Len(stack)
      /\ Advanced[1] = [stack[1] EXCEPT !.todo = Tail(t)]
      /\ \A n \in 2 .. Len(stack) : Advanced[n] = stack[n]
  <2> DEFINE e == [stack[1] EXCEPT !.todo = Tail(t)]
  <2>1. e \in Frames /\ 1 \in 1 .. Len(stack) /\ stack \in Seq(Frames)
    BY <1>1, <1>6 DEF Types
  <2>2. Advanced = [stack EXCEPT ![1] = e]
    BY <1>7
  <2> HIDE DEF e
  <2>3. /\ Advanced \in Seq(Frames) /\ Len(Advanced) = Len(stack)
        /\ \A j \in 1 .. Len(stack) : Advanced[j] = IF j = 1 THEN e ELSE stack[j]
    BY <2>1, <2>2, Replaced
  <2>4. /\ Advanced[1] = e
        /\ \A n \in 2 .. Len(stack) : Advanced[n] = stack[n]
    BY <1>1, <2>3
  <2>5. QED
    BY <2>3, <2>4, Zenon DEF e
<1>9. Advanced[1].feature = f /\ Advanced[1].todo = Tail(t)
  BY <1>1, <1>8 DEF Frames, Innermost
<1>10. Current = Count(f) - Len(t) + 1
  BY DEF Current
<1> HIDE DEF f, t
<1>11. /\ Current \in 1 .. Count(f)
       /\ Count(f) - Len(Tail(t)) = Current
       /\ Len(Tail(t)) \in Nat
       /\ t[1] = Prereqs(f)[Current]
  BY <1>3, <1>4, <1>5, <1>10
<1>12. \A i \in 1 .. Len(Tail(t)) : Tail(t)[i] = Prereqs(f)[Current + i]
  <2> TAKE i \in 1 .. Len(Tail(t))
  <2>1. Tail(t)[i] = t[i + 1] /\ i + 1 \in 1 .. Len(t)
    BY <1>3
  <2>2. t[i + 1] = Prereqs(f)[Count(f) - Len(t) + (i + 1)]
    BY <1>5, <2>1
  <2>3. Count(f) - Len(t) + (i + 1) = Current + i
    BY <1>3, <1>4, <1>10
  <2>4. QED
    BY <2>1, <2>2, <2>3
<1>13. QED
  BY <1>1, <1>2, <1>3, <1>8, <1>9, <1>11, <1>12 DEF f, t
-----------------------------------------------------------------------------
(* The steps                                                               *)

(* The innermost call passes a prerequisite that needs no call of its own. *)
LEMMA SkipStep ==
    ASSUME IInv, stage = "init", stack # <<>>, Head(stack).todo # <<>>,
           stack' = Advanced,
           UNCHANGED <<table, stage, next, state, feature, started, result>>,
           \/ /\ feature[Innermost][Current] = 0
              /\ Current > Len(table.required[Innermost])
           \/ /\ feature[Innermost][Current] \in Feature
              /\ state[feature[Innermost][Current]] = INIT
    PROVE  IInv'
<1> USE DEF IInv
<1> DEFINE f == Innermost
           g == feature[f][Current]
<1>1. /\ Advanced \in Seq(Frames) /\ Len(Advanced) = Len(stack)
      /\ Len(stack) \in Nat \ {0}
      /\ f \in Feature /\ Advanced[1].feature = f
      /\ Current \in 1 .. Count(f)
      /\ Count(f) - Len(Advanced[1].todo) = Current
      /\ Len(Advanced[1].todo) \in Nat
      /\ \A i \in 1 .. Len(Advanced[1].todo) :
            Advanced[1].todo[i] = Prereqs(f)[Current + i]
      /\ \A n \in 2 .. Len(stack) : Advanced[n] = stack[n]
  BY AdvancedFacts
<1>2. /\ DOMAIN stack = 1 .. Len(stack) /\ DOMAIN stack' = 1 .. Len(stack)
      /\ \A n \in 1 .. Len(stack) : stack'[n].feature = stack[n].feature
  BY <1>1 DEF Types, Innermost
<1>3. Count(f) \in Nat /\ Len(table.required[f]) \in Nat
  BY <1>1, ListTypes
<1>4. /\ \A h : Count(h)' = Count(h) /\ Prereqs(h)' = Prereqs(h) /\ After(h)' = After(h)
      /\ \A h : IsStarted(h)' <=> IsStarted(h)
      /\ \A h : OnStack(h)' <=> OnStack(h)
  <2>1. \A h : Count(h)' = Count(h) /\ Prereqs(h)' = Prereqs(h) /\ After(h)' = After(h)
    BY DEF Count, Prereqs, After
  <2>2. \A h : IsStarted(h)' <=> IsStarted(h)
    BY DEF IsStarted
  <2>3. \A h : OnStack(h)' <=> OnStack(h)
    BY <1>2 DEF OnStack
  <2>4. QED
    BY <2>1, <2>2, <2>3
<1>5. Types' /\ ResolveInv'
  BY <1>1, <1>4 DEF Types, ResolveInv
<1>6. MarkInv'
  BY <1>2, <1>4 DEF MarkInv
<1>7. FrameInv'
  <2> SUFFICES ASSUME NEW n \in 1 .. Len(stack)
               PROVE  /\ Len(stack'[n].todo) <= Count(stack'[n].feature)
                      /\ \A i \in 1 .. Len(stack'[n].todo) : stack'[n].todo[i] =
                            Prereqs(stack'[n].feature)[Count(stack'[n].feature) - Len(stack'[n].todo) + i]
                      /\ \A i \in 1 .. (Count(stack'[n].feature) - Len(stack'[n].todo)) :
                            feature[stack'[n].feature][i] = 0 => i > Len(table.required[stack'[n].feature])
                      /\ n > 1 => /\ Count(stack'[n].feature) - Len(stack'[n].todo) > 0
                                  /\ stack'[n - 1].feature =
                                        feature[stack'[n].feature][Count(stack'[n].feature) - Len(stack'[n].todo)]
    BY <1>2, <1>4 DEF FrameInv, Passed
  <2>1. CASE n = 1
    <3>1. \A i \in 1 .. (Current - 1) : feature[f][i] = 0 => i > Len(table.required[f])
      <4>1. Passed(stack[1]) = 1 .. (Current - 1)
        <5>1. Len(stack[1].todo) \in Nat
          <6>1. stack[1] \in Frames
            BY <1>1 DEF Types
          <6>2. stack[1].todo \in Seq(Items)
            BY <6>1 DEF Frames
          <6>3. QED
            BY <6>2
        <5>2. QED
          BY <1>3, <5>1 DEF Passed, Current, Innermost
      <4>2. 1 \in DOMAIN stack
        BY <1>1, <1>2
      <4>3. \A i \in Passed(stack[1]) :
               feature[f][i] = 0 => i > Len(table.required[f])
        BY <4>2 DEF FrameInv, Innermost
      <4>4. QED
        BY <4>1, <4>3
    <3>2. \A i \in 1 .. Current : feature[f][i] = 0 => i > Len(table.required[f])
      BY <1>1, <1>3, <3>1 DEF Feature
    <3>3. QED
      BY <1>1, <1>2, <1>3, <2>1, <3>2
  <2>2. CASE n > 1
    <3>1. stack'[n] = stack[n] /\ n - 1 \in 1 .. Len(stack)
      BY <1>1, <2>2
    <3>2. stack'[n - 1].feature = stack[n - 1].feature
      BY <1>2, <3>1
    <3>3. QED
      BY <1>2, <2>2, <3>1, <3>2 DEF FrameInv, Passed
  <2>3. QED
    BY <2>1, <2>2
<1>8. DoneInv'
  BY <1>1 DEF DoneInv
<1>9. OrderInv'
  <2> SUFFICES ASSUME NEW rank \in [Feature -> Feature], Ranks(rank)'
               PROVE  /\ \A m, n \in 1 .. Len(stack) : m < n =>
                            rank[stack'[m].feature] < rank[stack'[n].feature]
                      /\ \A n \in 1 .. Len(stack) :
                            \A i \in 1 .. (Count(stack'[n].feature) - Len(stack'[n].todo)) :
                              LET h == feature[stack'[n].feature][i]
                              IN  h = 0 \/ IsStarted(h) \/ (n > 1 /\ h = stack'[n - 1].feature)
    BY <1>2, <1>4 DEF OrderInv, Passed
  <2>1. Ranks(rank)
    BY <1>4 DEF Ranks
  <2>2. \A m, n \in 1 .. Len(stack) : m < n => rank[stack[m].feature] < rank[stack[n].feature]
    BY <1>2, <2>1 DEF OrderInv
  <2>3. ASSUME NEW n \in 1 .. Len(stack),
               NEW i \in 1 .. (Count(stack'[n].feature) - Len(stack'[n].todo))
        PROVE  LET h == feature[stack'[n].feature][i]
               IN  h = 0 \/ IsStarted(h) \/ (n > 1 /\ h = stack'[n - 1].feature)
    <3>1. CASE n > 1
      <4>1. stack'[n] = stack[n] /\ n - 1 \in 1 .. Len(stack)
        BY <1>1, <3>1
      <4>2. QED
        BY <1>2, <2>1, <3>1, <4>1 DEF OrderInv, Passed
    <3>2. CASE n = 1 /\ i # Current
      <4>1. stack'[n].feature = f /\ i \in 1 .. (Current - 1)
        BY <1>1, <3>2
      <4>2. i \in Passed(stack[1])
        BY <1>1, <1>3, <4>1, SMTT(30) DEF Passed, Current, Innermost
      <4>3. QED
        <5>1. 1 \in DOMAIN stack
          BY <1>1, <1>2
        <5>2. feature[f][i] = 0 \/ IsStarted(feature[f][i])
          BY <2>1, <4>2, <5>1 DEF OrderInv, Innermost
        <5>3. QED
          BY <4>1, <5>2
    <3>3. CASE n = 1 /\ i = Current
      <4>1. stack'[n].feature = f
        BY <1>1, <3>3
      <4>2. CASE g = 0
        BY <3>3, <4>1, <4>2
      <4>3. CASE g \in Feature /\ state[g] = INIT
        <5>1. g \in After(f)
          <6>1. Current \in DOMAIN feature[f]
            BY <1>1, <1>3 DEF ResolveInv, Types
          <6>2. g # 0
            BY <4>3 DEF Feature
          <6>3. QED
            BY <6>1, <6>2 DEF After
        <5>2. rank[g] < rank[f]
          BY <1>1, <2>1, <5>1 DEF Ranks
        <5>3. ~OnStack(g)
          <6> SUFFICES ASSUME NEW m \in 1 .. Len(stack), stack[m].feature = g
                       PROVE  FALSE
            BY <1>2 DEF OnStack
          <6>1. rank[f] \in Int /\ rank[g] \in Int
            <7>1. rank[f] \in Feature /\ rank[g] \in Feature
              BY <1>1, <4>3
            <7>2. QED
              BY <7>1, FeaturesAreNumbers
          <6>2. m = 1 \/ rank[f] < rank[g]
            BY <1>1, <2>2 DEF Innermost
          <6>3. QED
            BY <5>2, <6>1, <6>2 DEF Innermost
        <5>4. IsStarted(g)
          BY <4>3, <5>3 DEF MarkInv
        <5>5. QED
          BY <3>3, <4>1, <5>4
      <4>4. QED
        BY <4>2, <4>3
    <3>4. QED
      BY <3>1, <3>2, <3>3
  <2>4. QED
    BY <1>2, <2>2, <2>3
<1>10. SortedInv'
  BY <1>4 DEF SortedInv, Ranks
<1>11. QED
  BY <1>5, <1>6, <1>7, <1>8, <1>9, <1>10

(* What the caller's part of the stack has to be when a call of            *)
(* init_feature(g) begins: the stack, with g passed by the innermost call. *)
Caller(b, g) ==
    /\ b \in Seq(Frames) /\ Len(b) = Len(stack)
    /\ \A n \in 1 .. Len(stack) : b[n].feature = stack[n].feature
    /\ \A n \in 2 .. Len(stack) : b[n] = stack[n]
    /\ Len(stack) > 0 =>
          LET f == stack[1].feature
              t == b[1].todo
              k == Count(f) - Len(t)
          IN  /\ Len(t) <= Count(f)
              /\ \A i \in 1 .. Len(t) : t[i] = Prereqs(f)[k + i]
              /\ k \in 1 .. Count(f) /\ feature[f][k] = g
              /\ \A i \in 1 .. (k - 1) : i \in Passed(stack[1])

(* A call of init_feature for a feature that is not marked yet begins.     *)
LEMMA PushStep ==
    ASSUME IInv, stage = "init", NEW g \in Feature, state[g] # INIT,
           NEW b, Caller(b, g),
           stack' = <<[feature |-> g, todo |-> Prereqs(g)]>> \o b,
           state' = [state EXCEPT ![g] = INIT],
           next' \in 1 .. (N + 1),
           \A f \in Feature : f < next' => f < next \/ f = g,
           UNCHANGED <<table, stage, feature, started, result>>
    PROVE  IInv'
<1> USE DEF IInv
<1> DEFINE top == [feature |-> g, todo |-> Prereqs(g)]
           L == Len(stack)
<1>1. /\ Prereqs(g) \in Seq(Items) /\ Len(Prereqs(g)) = Count(g) /\ Count(g) \in Nat
  BY PrereqsType
<1>2. top \in Frames /\ top.feature = g /\ top.todo = Prereqs(g)
  BY <1>1 DEF Frames
<1>3. b \in Seq(Frames) /\ Len(b) = L /\ L \in Nat
  BY DEF Caller, Types
<1> HIDE DEF top
<1>4. stack' = <<top>> \o b
  BY DEF top
<1> HIDE DEF L
<1>5. /\ stack' \in Seq(Frames) /\ Len(stack') = L + 1
      /\ stack'[1] = top
      /\ \A n \in 2 .. (L + 1) : stack'[n] = b[n - 1]
  BY <1>2, <1>3, <1>4, Pushed
<1>6. /\ DOMAIN stack = 1 .. L /\ DOMAIN stack' = 1 .. (L + 1)
      /\ \A n \in 2 .. (L + 1) : stack'[n].feature = stack[n - 1].feature
      /\ \A n \in 3 .. (L + 1) : stack'[n] = stack[n - 1]
  <2>1. DOMAIN stack = 1 .. L /\ DOMAIN stack' = 1 .. (L + 1)
    BY <1>3, <1>5 DEF L, Types
  <2>2. \A n \in 1 .. L : b[n].feature = stack[n].feature
    BY DEF Caller, L
  <2>3. \A n \in 2 .. L : b[n] = stack[n]
    BY DEF Caller, L
  <2>4. \A n \in 2 .. (L + 1) : stack'[n].feature = stack[n - 1].feature
    BY <1>3, <1>5, <2>2
  <2>5. \A n \in 3 .. (L + 1) : stack'[n] = stack[n - 1]
    BY <1>3, <1>5, <2>3
  <2>6. QED
    BY <2>1, <2>4, <2>5
<1>0. \A n \in 1 .. L : stack[n].feature \in Feature
  <2> TAKE n \in 1 .. L
  <2>1. stack[n] \in Frames
    BY ElementOfSeq DEF L, Types
  <2>2. QED
    BY <2>1 DEF Frames
<1>7. /\ \A h : Count(h)' = Count(h) /\ Prereqs(h)' = Prereqs(h) /\ After(h)' = After(h)
      /\ \A h : IsStarted(h)' <=> IsStarted(h)
  BY DEF Count, Prereqs, After, IsStarted
<1>8. \A h : OnStack(h)' <=> h = g \/ OnStack(h)
  <2> TAKE h
  <2>1. ASSUME OnStack(h)' PROVE h = g \/ OnStack(h)
    <3>1. PICK n \in 1 .. (L + 1) : stack'[n].feature = h
      BY <1>6, <2>1 DEF OnStack
    <3>2. n = 1 \/ (n \in 2 .. (L + 1) /\ n - 1 \in 1 .. L)
      BY <1>3
    <3>3. QED
      BY <1>2, <1>5, <1>6, <3>1, <3>2 DEF OnStack
  <2>2. ASSUME OnStack(h) PROVE OnStack(h)'
    <3>1. PICK n \in 1 .. L : stack[n].feature = h
      BY <1>6, <2>2 DEF OnStack
    <3>2. n + 1 \in 2 .. (L + 1) /\ n + 1 \in 1 .. (L + 1) /\ (n + 1) - 1 = n
      BY <1>3
    <3>3. QED
      BY <1>6, <3>1, <3>2 DEF OnStack
  <2>3. ASSUME h = g PROVE OnStack(h)'
    <3>1. 1 \in 1 .. (L + 1)
      BY <1>3
    <3>2. QED
      BY <1>2, <1>5, <1>6, <2>3, <3>1 DEF OnStack
  <2>4. QED
    BY <2>1, <2>2, <2>3
<1>9. ~IsStarted(g) /\ ~OnStack(g)
  BY DEF MarkInv
<1>10. Types' /\ ResolveInv'
  BY <1>5, <1>7 DEF Types, ResolveInv
<1>11. MarkInv'
  <2>1. \A f \in Feature : state'[f] = INIT <=> f = g \/ state[f] = INIT
    BY DEF Types
  <2>2. \A f \in Feature : state'[f] = INIT <=> IsStarted(f)' \/ OnStack(f)'
    BY <1>7, <1>8, <2>1 DEF MarkInv
  <2>3. \A f \in Feature : ~(IsStarted(f)' /\ OnStack(f)')
    BY <1>7, <1>8, <1>9 DEF MarkInv
  <2>4. \A n \in 2 .. (L + 1) : stack'[n].feature # g
    <3> TAKE n \in 2 .. (L + 1)
    <3>1. n - 1 \in 1 .. L
      BY <1>3
    <3>2. QED
      BY <1>6, <1>9, <3>1 DEF OnStack
  <2>5. ASSUME NEW m \in 1 .. (L + 1), NEW n \in 1 .. (L + 1),
               stack'[m].feature = stack'[n].feature
        PROVE  m = n
    <3>1. CASE m > 1 /\ n > 1
      <4>1. /\ m \in 2 .. (L + 1) /\ n \in 2 .. (L + 1)
            /\ m - 1 \in 1 .. L /\ n - 1 \in 1 .. L
        BY <1>3, <3>1
      <4>2. stack[m - 1].feature = stack[n - 1].feature
        BY <1>6, <2>5, <4>1
      <4>3. m - 1 = n - 1
        BY <1>6, <4>1, <4>2 DEF MarkInv
      <4>4. QED
        BY <4>3
    <3>2. CASE m = 1 \/ n = 1
      <4>1. stack'[1].feature = g
        BY <1>2, <1>5
      <4>2. m = 1 \/ m \in 2 .. (L + 1)
        BY <1>3
      <4>3. n = 1 \/ n \in 2 .. (L + 1)
        BY <1>3
      <4>4. QED
        BY <2>4, <2>5, <3>2, <4>1, <4>2, <4>3
    <3>3. QED
      BY <3>1, <3>2
  <2>6. \A m, n \in DOMAIN started : started[m] = started[n] => m = n
    BY DEF MarkInv
  <2>7. QED
    BY <1>6, <2>2, <2>3, <2>5, <2>6 DEF MarkInv
<1>12. FrameInv'
  <2> SUFFICES ASSUME NEW n \in 1 .. (L + 1)
               PROVE  /\ Len(stack'[n].todo) <= Count(stack'[n].feature)
                      /\ \A i \in 1 .. Len(stack'[n].todo) : stack'[n].todo[i] =
                            Prereqs(stack'[n].feature)[Count(stack'[n].feature) - Len(stack'[n].todo) + i]
                      /\ \A i \in 1 .. (Count(stack'[n].feature) - Len(stack'[n].todo)) :
                            feature[stack'[n].feature][i] = 0 => i > Len(table.required[stack'[n].feature])
                      /\ n > 1 => /\ Count(stack'[n].feature) - Len(stack'[n].todo) > 0
                                  /\ stack'[n - 1].feature =
                                        feature[stack'[n].feature][Count(stack'[n].feature) - Len(stack'[n].todo)]
    BY <1>6, <1>7, ZenonT(120) DEF FrameInv, Passed
  <2>1. CASE n = 1
    BY <1>1, <1>2, <1>5, <2>1
  <2>2. CASE n = 2
    <3> DEFINE f == stack[1].feature
               t == b[1].todo
               k == Count(f) - Len(t)
    <3>1. /\ L > 0 /\ n \in 2 .. (L + 1) /\ 1 \in 1 .. L
      BY <1>3, <2>2
    <3>2. /\ stack'[n] = b[1] /\ stack'[n].feature = f /\ stack'[n - 1].feature = g
      BY <1>2, <1>5, <1>6, <2>2, <3>1
    <3>3. /\ Len(t) <= Count(f)
          /\ \A i \in 1 .. Len(t) : t[i] = Prereqs(f)[k + i]
          /\ k \in 1 .. Count(f) /\ feature[f][k] = g
          /\ \A i \in 1 .. (k - 1) : i \in Passed(stack[1])
      BY <3>1 DEF Caller, L
    <3>4. \A i \in Passed(stack[1]) : feature[f][i] = 0 => i > Len(table.required[f])
      BY <1>6, <3>1 DEF FrameInv
    <3>5. f \in Feature /\ Count(f) \in Nat
      <4>1. f \in Feature
        BY <1>0, <3>1
      <4>2. QED
        BY <4>1, ListTypes
    <3>6. stack'[n].todo = t
      BY <3>2
    <3> HIDE DEF t
    <3>7. k > 0
      BY <3>3, <3>5
    <3> HIDE DEF f, k
    <3>8. \A i \in 1 .. k : feature[f][i] = 0 => i > Len(table.required[f])
      <4> SUFFICES ASSUME NEW i \in 1 .. k, feature[f][i] = 0
                   PROVE  i > Len(table.required[f])
        OBVIOUS
      <4>1. i # k
        BY <3>3, FeaturesAreNumbers
      <4>2. i \in 1 .. (k - 1)
        BY <3>3, <4>1
      <4>3. QED
        BY <3>3, <3>4, <4>2
    <3>9. QED
      BY <3>2, <3>3, <3>6, <3>7, <3>8 DEF k
  <2>3. CASE n > 2
    <3>1. /\ n \in 3 .. (L + 1) /\ n - 1 \in 2 .. (L + 1) /\ n - 1 \in 1 .. L
          /\ n - 2 \in 1 .. L /\ (n - 1) - 1 = n - 2 /\ n - 1 > 1
      BY <1>3, <2>3
    <3>2. /\ stack'[n] = stack[n - 1]
          /\ stack'[n - 1].feature = stack[(n - 1) - 1].feature
      BY <1>6, <3>1
    <3> DEFINE m == n - 1
    <3> HIDE DEF m
    <3>3. m \in DOMAIN stack /\ m > 1 /\ stack'[n] = stack[m] /\ stack'[m].feature = stack[m - 1].feature
      BY <1>6, <3>1, <3>2 DEF m
    <3>4. QED
      BY <3>3 DEF FrameInv, Passed, m
  <2>4. n = 1 \/ n = 2 \/ n > 2
    BY <1>3
  <2>5. QED
    BY <2>1, <2>2, <2>3, <2>4, Zenon
<1>13. DoneInv'
  <2>1. \A f \in Feature : f < next' => state'[f] = INIT
    BY DEF DoneInv, Types
  <2>2. QED
    BY <2>1 DEF DoneInv
<1>14. OrderInv'
  <2> SUFFICES ASSUME NEW rank \in [Feature -> Feature], Ranks(rank)'
               PROVE  /\ \A m, n \in 1 .. (L + 1) : m < n =>
                            rank[stack'[m].feature] < rank[stack'[n].feature]
                      /\ \A n \in 1 .. (L + 1) :
                            \A i \in 1 .. (Count(stack'[n].feature) - Len(stack'[n].todo)) :
                              LET h == feature[stack'[n].feature][i]
                              IN  h = 0 \/ IsStarted(h) \/ (n > 1 /\ h = stack'[n - 1].feature)
    BY <1>6, <1>7 DEF OrderInv, Passed
  <2>1. Ranks(rank)
    BY <1>7 DEF Ranks
  <2>2. \A m, n \in 1 .. L : m < n => rank[stack[m].feature] < rank[stack[n].feature]
    BY <1>6, <2>1 DEF OrderInv
  <2>3. \A n \in 1 .. L : \A i \in Passed(stack[n]) :
          LET h == feature[stack[n].feature][i]
          IN  h = 0 \/ IsStarted(h) \/ (n > 1 /\ h = stack[n - 1].feature)
    BY <1>6, <2>1 DEF OrderInv
  <2>4. ASSUME L > 0
        PROVE  LET f == stack[1].feature
                   k == Count(f) - Len(b[1].todo)
               IN  /\ k \in 1 .. Count(f) /\ feature[f][k] = g
                   /\ \A i \in 1 .. (k - 1) : i \in Passed(stack[1])
                   /\ f \in Feature
                   /\ rank[g] < rank[f]
    <3> DEFINE f == stack[1].feature
               k == Count(f) - Len(b[1].todo)
    <3>1. /\ k \in 1 .. Count(f) /\ feature[f][k] = g
          /\ \A i \in 1 .. (k - 1) : i \in Passed(stack[1])
      BY <2>4 DEF Caller, L
    <3>2. 1 \in 1 .. L
      BY <1>3, <2>4
    <3>3. f \in Feature
      BY <1>0, <3>2
    <3>4. k \in DOMAIN feature[f]
      BY <3>1, <3>3 DEF ResolveInv, Types
    <3>5. g \in After(f)
      <4>1. g # 0
        BY FeaturesAreNumbers
      <4>2. QED
        BY <3>1, <3>4, <4>1 DEF After
    <3>6. QED
      BY <2>1, <3>1, <3>3, <3>5 DEF Ranks
  <2>5. ASSUME NEW m \in 1 .. (L + 1), NEW n \in 1 .. (L + 1), m < n
        PROVE  rank[stack'[m].feature] < rank[stack'[n].feature]
    <3>1. /\ n \in 2 .. (L + 1) /\ n - 1 \in 1 .. L /\ L > 0 /\ 1 \in 1 .. L
      BY <1>3, <2>5
    <3>2. stack'[n].feature = stack[n - 1].feature
      BY <1>6, <3>1
    <3>3. CASE m = 1
      <4>1. stack'[m].feature = g
        BY <1>2, <1>5, <3>3
      <4>2. rank[g] < rank[stack[1].feature]
        BY <2>4, <3>1
      <4>3. n - 1 = 1 \/ rank[stack[1].feature] < rank[stack[n - 1].feature]
        <5>1. n - 1 = 1 \/ 1 < n - 1
          BY <3>1
        <5>2. QED
          BY <2>2, <3>1, <5>1
      <4>4. /\ rank[g] \in Int /\ rank[stack[1].feature] \in Int
            /\ rank[stack[n - 1].feature] \in Int
        <5>1. stack[1].feature \in Feature /\ stack[n - 1].feature \in Feature
          BY <1>0, <3>1
        <5>2. /\ rank[g] \in Feature /\ rank[stack[1].feature] \in Feature
              /\ rank[stack[n - 1].feature] \in Feature
          BY <5>1
        <5>3. QED
          BY <5>2, FeaturesAreNumbers
      <4>5. rank[g] < rank[stack[n - 1].feature]
        <5> DEFINE x == stack[n - 1].feature
        <5>1. x = stack[1].feature \/ rank[stack[1].feature] < rank[x]
          BY <4>3
        <5>2. rank[x] \in Int
          BY <4>4
        <5> HIDE DEF x
        <5>3. rank[g] < rank[x]
          BY <4>2, <4>4, <5>1, <5>2
        <5>4. QED
          BY <5>3 DEF x
      <4>6. QED
        BY <3>2, <4>1, <4>5, Zenon
    <3>4. CASE m > 1
      <4>1. m \in 2 .. (L + 1) /\ m - 1 \in 1 .. L /\ m - 1 < n - 1
        BY <1>3, <2>5, <3>4
      <4>2. QED
        BY <1>6, <2>2, <3>1, <3>2, <4>1
    <3>5. m = 1 \/ m > 1
      BY <1>3
    <3>6. QED
      BY <3>3, <3>4, <3>5
  <2>6. ASSUME NEW n \in 1 .. (L + 1),
               NEW i \in 1 .. (Count(stack'[n].feature) - Len(stack'[n].todo))
        PROVE  LET h == feature[stack'[n].feature][i]
               IN  h = 0 \/ IsStarted(h) \/ (n > 1 /\ h = stack'[n - 1].feature)
    <3>1. CASE n = 1
      BY <1>1, <1>2, <1>5, <3>1
    <3>2. CASE n = 2
      <4> DEFINE f == stack[1].feature
                 k == Count(f) - Len(b[1].todo)
      <4>1. /\ L > 0 /\ n \in 2 .. (L + 1) /\ 1 \in 1 .. L
        BY <1>3, <3>2
      <4>2. /\ stack'[n] = b[1] /\ stack'[n].feature = f /\ stack'[n - 1].feature = g
        BY <1>2, <1>5, <1>6, <3>2, <4>1
      <4>3. /\ k \in 1 .. Count(f) /\ feature[f][k] = g
            /\ \A j \in 1 .. (k - 1) : j \in Passed(stack[1])
        BY <2>4, <4>1
      <4>4. i \in 1 .. k
        BY <4>2
      <4> HIDE DEF k, f
      <4>5. CASE i = k
        <5>1. feature[stack'[n].feature][i] = stack'[n - 1].feature
          BY <4>2, <4>3, <4>5, Zenon
        <5>2. n > 1
          BY <3>2
        <5>3. QED
          BY <5>1, <5>2, Zenon
      <4>6. CASE i # k
        <5>1. i \in Passed(stack[1])
          BY <4>3, <4>4, <4>6
        <5>2. feature[f][i] = 0 \/ IsStarted(feature[f][i])
          BY <2>3, <4>1, <5>1 DEF f
        <5>3. QED
          BY <4>2, <5>2
      <4>7. QED
        BY <4>5, <4>6
    <3>3. CASE n > 2
      <4>1. /\ n \in 3 .. (L + 1) /\ n - 1 \in 2 .. (L + 1) /\ n - 1 \in 1 .. L
            /\ (n - 1) - 1 = n - 2 /\ n - 1 > 1
        BY <1>3, <3>3
      <4>2. /\ stack'[n] = stack[n - 1]
            /\ stack'[n - 1].feature = stack[(n - 1) - 1].feature
        BY <1>6, <4>1
      <4>3. i \in Passed(stack[n - 1])
        BY <4>2 DEF Passed
      <4> DEFINE m == n - 1
      <4> HIDE DEF m
      <4>4. /\ m \in 1 .. L /\ i \in Passed(stack[m]) /\ stack'[n] = stack[m]
            /\ stack'[n - 1].feature = stack[m - 1].feature
        BY <4>1, <4>2, <4>3 DEF m
      <4>5. \/ feature[stack[m].feature][i] = 0 \/ IsStarted(feature[stack[m].feature][i])
            \/ feature[stack[m].feature][i] = stack[m - 1].feature
        BY <2>3, <4>4
      <4>6. n > 1
        BY <4>1
      <4>7. QED
        BY <4>4, <4>5, <4>6, Zenon
    <3>4. n = 1 \/ n = 2 \/ n > 2
      BY <1>3
    <3>5. QED
      BY <3>1, <3>2, <3>3, <3>4, Zenon
  <2>7. QED
    BY <2>5, <2>6
<1>15. SortedInv'
  BY <1>7 DEF SortedInv, Ranks
<1>16. QED
  BY <1>10, <1>11, <1>12, <1>13, <1>14, <1>15

(* The innermost call is done and returns.                                 *)
LEMMA PopStep ==
    ASSUME IInv, stage = "init", stack # <<>>, Head(stack).todo = <<>>,
           stack' = Tail(stack),
           started' = Append(started, Head(stack).feature),
           result' \in [Feature -> Results \cup {0}],
           UNCHANGED <<table, stage, next, state, feature>>
    PROVE  IInv'
<1> USE DEF IInv
<1> DEFINE L == Len(stack)
           D == Len(started)
<1>1. /\ stack' \in Seq(Frames) /\ Len(stack') = L - 1
      /\ L \in Nat \ {0} /\ Head(stack) = stack[1]
      /\ \A n \in 1 .. (L - 1) : stack'[n] = stack[n + 1]
  BY Popped DEF Types
<1>2. /\ DOMAIN stack = 1 .. L /\ DOMAIN stack' = 1 .. (L - 1) /\ 1 \in 1 .. L
  BY <1>1 DEF Types
<1>3. \A n \in 1 .. L : stack[n].feature \in Feature
  <2> TAKE n \in 1 .. L
  <2>1. stack[n] \in Frames
    BY ElementOfSeq DEF Types
  <2>2. QED
    BY <2>1 DEF Frames
<1>4. PICK f \in Feature : f = stack[1].feature
  BY <1>2, <1>3
<1>5. started \in Seq(Feature) /\ D \in Nat
  BY DEF Types
<1> HIDE DEF L, D
<1>6. /\ started' \in Seq(Feature) /\ Len(started') = D + 1
      /\ started'[D + 1] = f
      /\ \A n \in 1 .. D : started'[n] = started[n]
      /\ DOMAIN started = 1 .. D /\ DOMAIN started' = 1 .. (D + 1)
  BY <1>1, <1>4, <1>5, AppendProperties DEF D
<1>7. /\ \A h : Count(h)' = Count(h) /\ Prereqs(h)' = Prereqs(h) /\ After(h)' = After(h)
  BY DEF Count, Prereqs, After
<1>8. \A h : IsStarted(h)' <=> IsStarted(h) \/ h = f
  <2> TAKE h
  <2>1. ASSUME IsStarted(h)' PROVE IsStarted(h) \/ h = f
    <3>1. PICK n \in 1 .. (D + 1) : started'[n] = h
      BY <1>6, <2>1 DEF IsStarted
    <3>2. n = D + 1 \/ n \in 1 .. D
      BY <1>5
    <3>3. QED
      BY <1>6, <3>1, <3>2 DEF IsStarted
  <2>2. ASSUME IsStarted(h) PROVE IsStarted(h)'
    <3>1. PICK n \in 1 .. D : started[n] = h
      BY <1>6, <2>2 DEF IsStarted
    <3>2. n \in 1 .. (D + 1)
      BY <1>5
    <3>3. QED
      BY <1>6, <3>1, <3>2 DEF IsStarted
  <2>3. IsStarted(f)'
    <3>1. D + 1 \in 1 .. (D + 1)
      BY <1>5
    <3>2. QED
      BY <1>6, <3>1 DEF IsStarted
  <2>4. QED
    BY <2>1, <2>2, <2>3
<1>9. \A h : OnStack(h)' <=> OnStack(h) /\ h # f
  <2> TAKE h
  <2>1. ASSUME OnStack(h)' PROVE OnStack(h) /\ h # f
    <3>1. PICK n \in 1 .. (L - 1) : stack'[n].feature = h
      BY <1>2, <2>1 DEF OnStack
    <3>2. n + 1 \in 1 .. L /\ n + 1 # 1 /\ stack[n + 1].feature = h
      BY <1>1, <3>1
    <3>3. h # f
      BY <1>2, <3>2, <1>4 DEF MarkInv
    <3>4. QED
      BY <1>2, <3>2, <3>3 DEF OnStack
  <2>2. ASSUME OnStack(h), h # f PROVE OnStack(h)'
    <3>1. PICK n \in 1 .. L : stack[n].feature = h
      BY <1>2, <2>2 DEF OnStack
    <3>2. n # 1
      BY <2>2, <3>1, <1>4
    <3>3. n - 1 \in 1 .. (L - 1) /\ (n - 1) + 1 = n
      BY <1>1, <3>2
    <3>4. stack'[n - 1].feature = h
      BY <1>1, <3>1, <3>3
    <3>5. QED
      BY <1>2, <3>3, <3>4 DEF OnStack
  <2>3. QED
    BY <2>1, <2>2
<1>10. ~IsStarted(f) /\ OnStack(f)
  BY <1>2, <1>4 DEF MarkInv, OnStack
<1>11. Types' /\ ResolveInv'
  BY <1>1, <1>6, <1>7 DEF Types, ResolveInv
<1>12. MarkInv'
  <2>1. \A h \in Feature : state'[h] = INIT <=> IsStarted(h)' \/ OnStack(h)'
    BY <1>8, <1>9, <1>10 DEF MarkInv
  <2>2. \A h \in Feature : ~(IsStarted(h)' /\ OnStack(h)')
    BY <1>8, <1>9 DEF MarkInv
  <2>3. ASSUME NEW m \in 1 .. (L - 1), NEW n \in 1 .. (L - 1),
               stack'[m].feature = stack'[n].feature
        PROVE  m = n
    <3>1. m + 1 \in 1 .. L /\ n + 1 \in 1 .. L
      BY <1>1
    <3>2. stack[m + 1].feature = stack[n + 1].feature
      BY <1>1, <2>3
    <3>3. m + 1 = n + 1
      BY <1>2, <3>1, <3>2 DEF MarkInv
    <3>4. QED
      BY <3>3
  <2>4. ASSUME NEW m \in 1 .. (D + 1), NEW n \in 1 .. (D + 1), started'[m] = started'[n]
        PROVE  m = n
    <3>1. \A k \in 1 .. D : started'[k] # f
      BY <1>6, <1>10 DEF IsStarted
    <3>2. (m = D + 1 \/ m \in 1 .. D) /\ (n = D + 1 \/ n \in 1 .. D)
      BY <1>5
    <3>3. CASE m \in 1 .. D /\ n \in 1 .. D
      BY <1>6, <2>4, <3>3 DEF MarkInv
    <3>4. QED
      BY <1>6, <2>4, <3>1, <3>2, <3>3, Zenon
  <2>5. QED
    BY <1>2, <1>6, <2>1, <2>2, <2>3, <2>4 DEF MarkInv
<1>13. FrameInv'
  <2> SUFFICES ASSUME NEW n \in 1 .. (L - 1)
               PROVE  /\ Len(stack'[n].todo) <= Count(stack'[n].feature)
                      /\ \A i \in 1 .. Len(stack'[n].todo) : stack'[n].todo[i] =
                            Prereqs(stack'[n].feature)[Count(stack'[n].feature) - Len(stack'[n].todo) + i]
                      /\ \A i \in 1 .. (Count(stack'[n].feature) - Len(stack'[n].todo)) :
                            feature[stack'[n].feature][i] = 0 => i > Len(table.required[stack'[n].feature])
                      /\ n > 1 => /\ Count(stack'[n].feature) - Len(stack'[n].todo) > 0
                                  /\ stack'[n - 1].feature =
                                        feature[stack'[n].feature][Count(stack'[n].feature) - Len(stack'[n].todo)]
    BY <1>2, <1>7, ZenonT(120) DEF FrameInv, Passed
  <2> DEFINE m == n + 1
  <2>1. m \in 1 .. L /\ m > 1 /\ m - 1 = n /\ stack'[n] = stack[m]
    BY <1>1
  <2>2. n > 1 => stack'[n - 1].feature = stack[m - 1].feature
    <3> SUFFICES ASSUME n > 1 PROVE stack'[n - 1].feature = stack[n].feature
      BY <2>1
    <3>1. n - 1 \in 1 .. (L - 1) /\ (n - 1) + 1 = n
      BY <1>1
    <3>2. QED
      BY <1>1, <3>1
  <2> HIDE DEF m
  <2>3. /\ Len(stack[m].todo) <= Count(stack[m].feature)
        /\ \A i \in 1 .. Len(stack[m].todo) : stack[m].todo[i] =
              Prereqs(stack[m].feature)[Count(stack[m].feature) - Len(stack[m].todo) + i]
        /\ \A i \in 1 .. (Count(stack[m].feature) - Len(stack[m].todo)) :
              feature[stack[m].feature][i] = 0 => i > Len(table.required[stack[m].feature])
        /\ Count(stack[m].feature) - Len(stack[m].todo) > 0
        /\ stack[m - 1].feature =
              feature[stack[m].feature][Count(stack[m].feature) - Len(stack[m].todo)]
    BY <1>2, <2>1 DEF FrameInv, Passed
  <2>4. QED
    BY <2>1, <2>2, <2>3, Zenon
<1>14. Count(f) \in Nat /\ Passed(stack[1]) = 1 .. Count(f)
  <2>1. Count(f) \in Nat
    BY <1>4, ListTypes
  <2>2. stack[1].todo = <<>>
    BY <1>1
  <2>3. Len(stack[1].todo) = 0
    BY <2>2
  <2>4. QED
    BY <2>1, <2>3, <1>4 DEF Passed
<1>15. DoneInv'
  <2>1. \A i \in 1 .. Len(table.required[f]) : feature[f][i] # 0
    <3>1. Len(table.required[f]) \in Nat /\ Len(table.load_after[f]) \in Nat
      BY <1>4, ListTypes
    <3>2. \A i \in 1 .. Len(table.required[f]) : i \in 1 .. Count(f) /\ ~(i > Len(table.required[f]))
      <4> DEFINE a == Len(table.required[f])
                 b == Len(table.load_after[f])
      <4>1. a \in Nat /\ b \in Nat /\ Count(f) = a + b
        BY <3>1 DEF Count
      <4> HIDE DEF a, b
      <4>2. \A i \in 1 .. a : i \in 1 .. Count(f) /\ ~(i > a)
        BY <4>1
      <4>3. QED
        BY <4>2 DEF a
    <3>3. \A i \in Passed(stack[1]) : feature[f][i] = 0 => i > Len(table.required[f])
      BY <1>2, <1>4 DEF FrameInv
    <3>4. QED
      BY <1>14, <3>2, <3>3
  <2>2. \A n \in 1 .. (D + 1) : n \in 1 .. D \/ n = D + 1
    BY <1>5
  <2>3. \A n \in 1 .. (D + 1) : \A i \in 1 .. Len(table.required[started'[n]]) :
          feature[started'[n]][i] # 0
    <3> TAKE n \in 1 .. (D + 1)
    <3>1. CASE n \in 1 .. D
      <4>1. started'[n] = started[n] /\ n \in DOMAIN started
        BY <1>6, <3>1
      <4>2. QED
        BY <4>1 DEF DoneInv
    <3>2. CASE n = D + 1
      BY <1>6, <2>1, <3>2
    <3>3. QED
      BY <2>2, <3>1, <3>2
  <2>4. QED
    BY <1>6, <2>3 DEF DoneInv
<1>16. OrderInv'
  <2> SUFFICES ASSUME NEW rank \in [Feature -> Feature], Ranks(rank)'
               PROVE  /\ \A m, n \in 1 .. (L - 1) : m < n =>
                            rank[stack'[m].feature] < rank[stack'[n].feature]
                      /\ \A n \in 1 .. (L - 1) :
                            \A i \in 1 .. (Count(stack'[n].feature) - Len(stack'[n].todo)) :
                              LET h == feature[stack'[n].feature][i]
                              IN  h = 0 \/ IsStarted(h) \/ h = f \/ (n > 1 /\ h = stack'[n - 1].feature)
    BY <1>2, <1>7, <1>8 DEF OrderInv, Passed
  <2>1. Ranks(rank)
    BY <1>7 DEF Ranks
  <2>2. \A m, n \in 1 .. L : m < n => rank[stack[m].feature] < rank[stack[n].feature]
    BY <1>2, <2>1 DEF OrderInv
  <2>3. \A n \in 1 .. L : \A i \in Passed(stack[n]) :
          LET h == feature[stack[n].feature][i]
          IN  h = 0 \/ IsStarted(h) \/ (n > 1 /\ h = stack[n - 1].feature)
    BY <1>2, <2>1 DEF OrderInv
  <2>4. ASSUME NEW m \in 1 .. (L - 1), NEW n \in 1 .. (L - 1), m < n
        PROVE  rank[stack'[m].feature] < rank[stack'[n].feature]
    <3>1. m + 1 \in 1 .. L /\ n + 1 \in 1 .. L /\ m + 1 < n + 1
      BY <1>1, <2>4
    <3>2. QED
      BY <1>1, <2>2, <3>1
  <2>5. ASSUME NEW n \in 1 .. (L - 1),
               NEW i \in 1 .. (Count(stack'[n].feature) - Len(stack'[n].todo))
        PROVE  LET h == feature[stack'[n].feature][i]
               IN  h = 0 \/ IsStarted(h) \/ h = f \/ (n > 1 /\ h = stack'[n - 1].feature)
    <3> DEFINE m == n + 1
               h == feature[stack'[n].feature][i]
    <3>1. m \in 1 .. L /\ m - 1 = n /\ stack'[n] = stack[m]
      <4>1. n + 1 \in 1 .. L /\ (n + 1) - 1 = n
        BY <1>1
      <4>2. stack'[n] = stack[n + 1]
        BY <1>1
      <4>3. QED
        BY <4>1, <4>2, Zenon
    <3> HIDE DEF m
    <3>2. i \in Passed(stack[m])
      BY <3>1 DEF Passed
    <3>3. h = 0 \/ IsStarted(h) \/ h = stack[n].feature
      BY <2>3, <3>1, <3>2
    <3> HIDE DEF h
    <3>4. CASE n = 1
      BY <1>4, <3>3, <3>4 DEF h
    <3>5. CASE n > 1
      <4>1. n - 1 \in 1 .. (L - 1) /\ (n - 1) + 1 = n
        BY <1>1, <3>5
      <4>2. stack'[n - 1] = stack[n]
        BY <1>1, <4>1
      <4>3. QED
        BY <3>3, <3>5, <4>2, Zenon DEF h
    <3>6. n = 1 \/ n > 1
      BY <1>1
    <3>7. QED
      BY <3>4, <3>5, <3>6
  <2>6. QED
    BY <2>4, <2>5
<1>17. SortedInv'
  <2> SUFFICES ASSUME NEW rank \in [Feature -> Feature], Ranks(rank)'
               PROVE  \A n \in DOMAIN started' : \A i \in DOMAIN feature'[started'[n]] :
                         \/ feature'[started'[n]][i] = 0
                         \/ \E k \in DOMAIN started' :
                               k < n /\ started'[k] = feature'[started'[n]][i]
    BY Zenon DEF SortedInv
  <2> SUFFICES ASSUME NEW n \in DOMAIN started', NEW i \in DOMAIN feature'[started'[n]],
                      feature'[started'[n]][i] # 0
               PROVE  \E k \in DOMAIN started' :
                          k < n /\ started'[k] = feature'[started'[n]][i]
    BY Zenon
  <2>0. /\ n \in 1 .. (D + 1) /\ i \in DOMAIN feature[started'[n]]
        /\ feature[started'[n]][i] # 0
    BY <1>6
  <2> SUFFICES \E k \in 1 .. (D + 1) : k < n /\ started'[k] = feature[started'[n]][i]
    BY <1>6
  <2>1. Ranks(rank)
    BY <1>7 DEF Ranks
  <2>2. CASE n \in 1 .. D
    <3>1. started'[n] = started[n] /\ n \in DOMAIN started
      BY <1>6, <2>2
    <3>2. PICK k \in DOMAIN started : k < n /\ started[k] = feature[started[n]][i]
      BY <2>0, <2>1, <3>1 DEF SortedInv
    <3>3. k \in 1 .. D /\ k \in 1 .. (D + 1)
      BY <1>5, <1>6
    <3>4. started'[k] = started[k]
      BY <1>6, <3>3
    <3>5. QED
      BY <3>1, <3>2, <3>3, <3>4
  <2>3. CASE n = D + 1
    <3> DEFINE g == feature[f][i]
    <3>1. i \in DOMAIN feature[f] /\ g # 0 /\ g = feature[started'[n]][i]
      BY <1>6, <2>0, <2>3
    <3> HIDE DEF g
    <3>2. i \in Passed(stack[1])
      BY <1>4, <1>14, <3>1, SMTT(30) DEF ResolveInv, Types
    <3>3. IsStarted(g)
      <4>1. 1 \in DOMAIN stack
        BY <1>2
      <4>2. LET h == feature[stack[1].feature][i] IN h = 0 \/ IsStarted(h)
        BY <2>1, <3>2, <4>1, SMTT(30) DEF OrderInv
      <4>3. QED
        BY <1>4, <3>1, <4>2 DEF g
    <3>4. PICK k \in 1 .. D : started[k] = g
      BY <1>6, <3>3 DEF IsStarted
    <3>5. k \in 1 .. (D + 1) /\ k < n
      BY <1>5, <2>3
    <3>6. started'[k] = g
      BY <1>6, <3>4
    <3>7. QED
      BY <3>1, <3>5, <3>6, Zenon
  <2>4. n \in 1 .. D \/ n = D + 1
    BY <1>5, <2>0
  <2>5. QED
    BY <2>2, <2>3, <2>4
<1>18. QED
  BY <1>11, <1>12, <1>13, <1>15, <1>16, <1>17

(* The names of the next feature are looked up.                            *)
LEMMA ResolveStep ==
    ASSUME IInv, resolve_feature
    PROVE  IInv'
<1> USE DEF IInv
<1>1. /\ stage = "resolve" /\ stage' = "resolve" /\ next \in Feature /\ next' = next + 1
      /\ stack = <<>> /\ stack' = <<>> /\ started = <<>> /\ started' = <<>>
      /\ table' = table /\ table \in Tables /\ result' = result
  BY FeaturesAreNumbers DEF resolve_feature, Types, ResolveInv
<1> DEFINE names == table.required[next] \o table.load_after[next]
           looked == [n \in DOMAIN names |-> find_feature(names[n])]
<1>2. DOMAIN names = 1 .. Count(next) /\ Count(next) \in Nat
  BY <1>1, ListTypes
<1>3. feature' = [feature EXCEPT ![next] = looked]
  BY DEF resolve_feature
<1>4. looked \in Seq(Link) /\ Len(looked) = Count(next)
  <2>1. \A name : find_feature(name) \in Link
    BY FindFeatureType, FeaturesAreNumbers
  <2>2. looked \in [1 .. Count(next) -> Link]
    BY <1>2, <2>1
  <2> HIDE DEF looked
  <2>3. QED
    BY <1>2, <2>2
<1> HIDE DEF looked
<1>5. /\ feature \in [Feature -> Seq(Link)] /\ feature' \in [Feature -> Seq(Link)]
      /\ feature'[next] = looked
      /\ \A f \in Feature : f # next => feature'[f] = feature[f]
  BY <1>1, <1>3, <1>4 DEF Types
<1>6. state' = [state EXCEPT ![next] = RESOLVED] /\ state \in [Feature -> {UNINIT, RESOLVED, INIT}]
  BY DEF resolve_feature, Types
<1>7. /\ state' \in [Feature -> {UNINIT, RESOLVED, INIT}]
      /\ \A f \in Feature : state[f] # INIT /\ state'[f] # INIT
  BY <1>1, <1>6 DEF ResolveInv, RESOLVED, INIT
<1>8. \A f : Count(f)' = Count(f)
  BY <1>1 DEF Count
<1>9. Types'
  <2>1. next' \in 1 .. (N + 1)
    BY <1>1, FeaturesAreNumbers
  <2>2. QED
    BY <1>1, <1>5, <1>7, <2>1 DEF Types
<1>10. ResolveInv'
  <2>1. \A f \in Feature : f < next' => f = next \/ f < next
    BY <1>1, FeaturesAreNumbers
  <2>2. \A f \in Feature : f < next' => Len(feature'[f]) = Count(f)
    BY <1>1, <1>4, <1>5, <2>1 DEF ResolveInv
  <2>3. QED
    BY <1>1, <1>7, <1>8, <2>2 DEF ResolveInv
<1>11. MarkInv'
  BY <1>1, <1>7 DEF MarkInv, IsStarted, OnStack
<1>12. FrameInv' /\ OrderInv' /\ SortedInv'
  BY <1>1 DEF FrameInv, OrderInv, SortedInv
<1>13. DoneInv'
  BY <1>1 DEF DoneInv
<1>14. QED
  BY <1>9, <1>10, <1>11, <1>12, <1>13

(* The platform comes up, the machine stops, or the loops change over: the *)
(* calls and what is started stay as they are.                             *)
LEMMA StageStep ==
    ASSUME IInv,
           \/ Resolved
           \/ Platform_up
           \/ stage = "init" /\ panic /\ result' \in [Feature -> Results \cup {0}]
    PROVE  IInv'
<1> USE DEF IInv
<1>1. /\ table' = table /\ state' = state /\ feature' = feature
      /\ stack' = stack /\ started' = started
      /\ stage' # "resolve" /\ stage' \in {"init", "up", "panic"}
      /\ result' \in [Feature -> Results \cup {0}]
  BY DEF Resolved, Platform_up, panic, Types
<1>2. next' \in 1 .. (N + 1)
  BY FeaturesAreNumbers DEF Resolved, Platform_up, panic, Types
<1>3. \A h : /\ Count(h)' = Count(h) /\ Prereqs(h)' = Prereqs(h) /\ After(h)' = After(h)
             /\ (OnStack(h)' <=> OnStack(h)) /\ (IsStarted(h)' <=> IsStarted(h))
  BY <1>1 DEF Count, Prereqs, After, OnStack, IsStarted
<1>4. Types'
  BY <1>1, <1>2 DEF Types
<1>5. ResolveInv'
  <2>1. \A f \in Feature : Len(feature[f]) = Count(f)
    <3>1. CASE Resolved
      <4>1. \A f \in Feature : f < next
        BY <3>1, FeaturesAreNumbers DEF Resolved, Types
      <4>2. QED
        BY <4>1 DEF ResolveInv
    <3>2. CASE stage # "resolve"
      BY <3>2 DEF ResolveInv
    <3>3. QED
      BY <3>1, <3>2 DEF Platform_up, panic
  <2>2. QED
    BY <1>1, <1>3, <2>1 DEF ResolveInv
<1>6. MarkInv' /\ FrameInv'
  BY <1>1, <1>3 DEF MarkInv, FrameInv, Passed
<1>7. OrderInv' /\ SortedInv'
  BY <1>1, <1>3 DEF OrderInv, SortedInv, Ranks, Passed
<1>8. DoneInv'
  <2>1. \A n \in DOMAIN started' : \A i \in 1 .. Len(table'.required[started'[n]]) :
          feature'[started'[n]][i] # 0
    BY <1>1 DEF DoneInv
  <2>2. CASE Resolved
    <3>1. next' = 1 /\ stage' = "init"
      BY <2>2 DEF Resolved
    <3>2. \A f \in Feature : ~(f < next')
      BY <3>1, FeaturesAreNumbers
    <3>3. QED
      BY <2>1, <3>1, <3>2 DEF DoneInv
  <2>3. CASE Platform_up
    <3>1. next = N + 1
      BY <2>3, FeaturesAreNumbers DEF Platform_up, Types
    <3>2. QED
      BY <1>1, <2>1, <2>3, <3>1 DEF DoneInv, Platform_up
  <2>4. CASE panic
    BY <2>1, <2>4 DEF DoneInv, panic
  <2>5. QED
    BY <2>2, <2>3, <2>4
<1>9. QED
  BY <1>4, <1>5, <1>6, <1>7, <1>8

(* The loop of init_features goes on.                                      *)
LEMMA LoopStep ==
    ASSUME IInv, init_features
    PROVE  IInv'
<1> USE DEF IInv
<1>1. /\ stage = "init" /\ stack = <<>> /\ next \in Feature /\ next' = next + 1
      /\ Call(next, <<>>)
      /\ UNCHANGED <<table, stage, feature, started, result>>
  <2>1. next \in Feature
    <3>1. next <= N /\ next \in 1 .. (N + 1)
      BY DEF init_features, Types
    <3>2. QED
      BY <3>1, FeaturesAreNumbers
  <2>2. QED
    BY <2>1, Zenon DEF init_features
<1>2. next' \in 1 .. (N + 1) /\ \A f \in Feature : f < next' => f < next \/ f = next
  BY <1>1, FeaturesAreNumbers
<1>3. CASE state[next] >= INIT
  <2>1. stack' = stack /\ state' = state
    BY <1>1, <1>3 DEF Call
  <2>2. state[next] = INIT
    BY <1>1, <1>3 DEF Types, UNINIT, RESOLVED, INIT
  <2>3. \A h : /\ Count(h)' = Count(h) /\ Prereqs(h)' = Prereqs(h) /\ After(h)' = After(h)
               /\ (OnStack(h)' <=> OnStack(h)) /\ (IsStarted(h)' <=> IsStarted(h))
    BY <1>1, <2>1 DEF Count, Prereqs, After, OnStack, IsStarted
  <2>4. Types' /\ ResolveInv'
    BY <1>1, <1>2, <2>1, <2>3 DEF Types, ResolveInv
  <2>5. MarkInv' /\ FrameInv'
    BY <1>1, <2>1, <2>3 DEF MarkInv, FrameInv, Passed
  <2>6. OrderInv' /\ SortedInv'
    BY <1>1, <2>1, <2>3 DEF OrderInv, SortedInv, Ranks, Passed
  <2>7. DoneInv'
    BY <1>1, <1>2, <2>1, <2>2 DEF DoneInv
  <2>8. QED
    BY <2>4, <2>5, <2>6, <2>7
<1>4. CASE ~(state[next] >= INIT)
  <2>1. /\ state' = [state EXCEPT ![next] = INIT]
        /\ stack' = <<[feature |-> next, todo |-> Prereqs(next)]>> \o <<>>
    BY <1>1, <1>4 DEF Call
  <2>2. state[next] # INIT
    BY <1>4 DEF INIT
  <2>3. PICK g \in Feature : g = next
    BY <1>1
  <2>4. Caller(<<>>, g)
    BY <1>1 DEF Caller
  <2>5. /\ state[g] # INIT /\ state' = [state EXCEPT ![g] = INIT]
        /\ stack' = <<[feature |-> g, todo |-> Prereqs(g)]>> \o <<>>
        /\ \A f \in Feature : f < next' => f < next \/ f = g
    BY <1>2, <2>1, <2>2, <2>3
  <2>6. QED
    BY <1>1, <1>2, <2>4, <2>5, PushStep
<1>5. QED
  BY <1>3, <1>4

(* The innermost call looks at its next prerequisite.                      *)
LEMMA PrereqStep ==
    ASSUME IInv, NextPrereq
    PROVE  IInv'
<1> DEFINE p == Head(Head(stack).todo)
           f == Innermost
<1>1. stage = "init" /\ stack # <<>> /\ Head(stack).todo # <<>>
  BY DEF NextPrereq
<1>2. /\ Advanced \in Seq(Frames) /\ Len(Advanced) = Len(stack)
      /\ Len(stack) \in Nat \ {0}
      /\ f \in Feature /\ Advanced[1].feature = f
      /\ Current \in 1 .. Count(f)
      /\ Count(f) - Len(Advanced[1].todo) = Current
      /\ Len(Advanced[1].todo) \in Nat
      /\ \A i \in 1 .. Len(Advanced[1].todo) :
            Advanced[1].todo[i] = Prereqs(f)[Current + i]
      /\ p = Prereqs(f)[Current]
      /\ \A n \in 2 .. Len(stack) : Advanced[n] = stack[n]
  BY <1>1, AdvancedFacts
<1>3. /\ p.feature = feature[f][Current] /\ p.feature \in Link
      /\ p.hard = (Current <= Len(table.required[f]))
      /\ Count(f) \in Nat /\ Len(table.required[f]) \in Nat
  <2>1. Types /\ ResolveInv /\ stage # "resolve"
    BY <1>1 DEF IInv
  <2>2. QED
    BY <1>2, <2>1, PrereqsType, ListTypes
<1>4. \/ p.feature = 0 /\ p.hard /\ panic /\ UNCHANGED result
      \/ /\ p.feature = 0 /\ ~p.hard /\ stack' = Advanced
         /\ UNCHANGED <<table, stage, next, state, feature, started, result>>
      \/ /\ p.feature # 0 /\ Call(p.feature, Advanced)
         /\ UNCHANGED <<table, stage, next, feature, started, result>>
  BY DEF NextPrereq, Advanced
<1>5. CASE p.feature = 0 /\ p.hard /\ panic /\ UNCHANGED result
  <2>1. result' \in [Feature -> Results \cup {0}]
    BY <1>5 DEF IInv, Types
  <2>2. QED
    BY <1>1, <1>5, <2>1, StageStep
<1>6. CASE /\ p.feature = 0 /\ ~p.hard /\ stack' = Advanced
           /\ UNCHANGED <<table, stage, next, state, feature, started, result>>
  <2>1. Current > Len(table.required[f])
    <3>1. ~(Current <= Len(table.required[f]))
      BY <1>3, <1>6
    <3>2. Current \in Nat
      BY <1>2, <1>3
    <3>3. QED
      BY <1>3, <3>1, <3>2
  <2>2. QED
    BY <1>1, <1>3, <1>6, <2>1, SkipStep
<1>7. CASE /\ p.feature # 0 /\ Call(p.feature, Advanced)
           /\ UNCHANGED <<table, stage, next, feature, started, result>>
  <2>1. p.feature \in Feature
    BY <1>3, <1>7 DEF Link
  <2>2. CASE state[p.feature] >= INIT
    <3>1. stack' = Advanced /\ state' = state
      BY <1>7, <2>2 DEF Call
    <3>2. state[p.feature] = INIT
      <4>1. state[p.feature] \in {UNINIT, RESOLVED, INIT}
        BY <2>1 DEF IInv, Types
      <4>2. QED
        BY <2>2, <4>1 DEF UNINIT, RESOLVED, INIT
    <3>3. QED
      BY <1>1, <1>3, <1>7, <2>1, <3>1, <3>2, SkipStep
  <2>3. CASE ~(state[p.feature] >= INIT)
    <3>1. PICK g \in Feature : g = p.feature
      BY <2>1
    <3>2. /\ state' = [state EXCEPT ![g] = INIT]
          /\ stack' = <<[feature |-> g, todo |-> Prereqs(g)]>> \o Advanced
          /\ state[g] # INIT
      BY <1>7, <2>3, <3>1 DEF Call, INIT
    <3>3. Caller(Advanced, g)
      <4>1. Len(Advanced[1].todo) <= Count(f)
        BY <1>2, <1>3
      <4>2. \A n \in 1 .. Len(stack) : Advanced[n].feature = stack[n].feature
        <5>1. \A n \in 1 .. Len(stack) : n = 1 \/ n \in 2 .. Len(stack)
          BY <1>2
        <5>2. QED
          BY <1>2, <5>1 DEF Innermost
      <4>3. \A i \in 1 .. (Current - 1) : i \in Passed(stack[1])
        <5>1. Count(f) - Len(stack[1].todo) = Current - 1
          <6>1. stack[1].todo \in Seq(Items)
            <7>1. stack \in Seq(Frames) /\ 1 \in 1 .. Len(stack)
              BY <1>2 DEF IInv, Types
            <7>2. stack[1] \in Frames
              BY <7>1, ElementOfSeq
            <7>3. QED
              BY <7>2 DEF Frames
          <6>2. QED
            BY <1>3, <6>1 DEF Current
        <5>2. QED
          BY <5>1 DEF Passed, Innermost
      <4>4. f = stack[1].feature
        BY DEF Innermost
      <4>5. Len(Advanced[1].todo) <= Count(stack[1].feature)
        BY <4>1, <4>4
      <4>6. feature[f][Current] = g
        BY <1>3, <3>1
      <4>7. QED
        BY <1>2, <4>2, <4>3, <4>4, <4>5, <4>6, Zenon DEF Caller
    <3>4. next' \in 1 .. (N + 1) /\ \A h \in Feature : h < next' => h < next \/ h = g
      BY <1>7 DEF IInv, Types
    <3>5. QED
      BY <1>1, <1>7, <3>2, <3>3, <3>4, PushStep
  <2>4. QED
    BY <2>2, <2>3
<1>8. QED
  BY <1>4, <1>5, <1>6, <1>7

LEMMA InitIInv == Init => IInv
<1> SUFFICES ASSUME Init PROVE IInv
  OBVIOUS
<1>1. Types
  BY FeaturesAreNumbers DEF Init, Types
<1>2. ResolveInv
  BY FeaturesAreNumbers DEF Init, ResolveInv, UNINIT, INIT
<1>3. MarkInv
  BY DEF Init, MarkInv, IsStarted, OnStack, UNINIT, INIT
<1>4. FrameInv /\ DoneInv /\ OrderInv /\ SortedInv
  BY DEF Init, FrameInv, DoneInv, OrderInv, SortedInv
<1>5. QED
  BY <1>1, <1>2, <1>3, <1>4 DEF IInv

LEMMA NextIInv == IInv /\ [Next]_vars => IInv'
<1> SUFFICES ASSUME IInv, [Next]_vars PROVE IInv'
  OBVIOUS
<1>1. CASE resolve_feature
  BY <1>1, ResolveStep
<1>2. CASE Resolved
  BY <1>2, StageStep
<1>3. CASE init_features
  BY <1>3, LoopStep
<1>4. CASE NextPrereq
  BY <1>4, PrereqStep
<1>5. ASSUME NEW r \in Results, RunInit(r) PROVE IInv'
  <2>1. result' \in [Feature -> Results \cup {0}]
    BY <1>5 DEF IInv, Types, RunInit
  <2>2. CASE r # 0
    BY <1>5, <2>1, <2>2, PopStep DEF RunInit
  <2>3. CASE r = 0
    BY <1>5, <2>1, <2>3, StageStep DEF RunInit
  <2>4. QED
    BY <2>2, <2>3
<1>6. CASE NoInit
  <2>1. result' \in [Feature -> Results \cup {0}]
    BY <1>6 DEF IInv, Types, NoInit
  <2>2. QED
    BY <1>6, <2>1, PopStep DEF NoInit
<1>7. CASE Platform_up
  BY <1>7, StageStep
<1>8. CASE UNCHANGED vars
  <2>1. /\ table' = table /\ stage' = stage /\ next' = next /\ state' = state
        /\ feature' = feature /\ stack' = stack /\ started' = started /\ result' = result
    BY <1>8 DEF vars
  <2>2. \A h : /\ Count(h)' = Count(h) /\ Prereqs(h)' = Prereqs(h) /\ After(h)' = After(h)
               /\ (OnStack(h)' <=> OnStack(h)) /\ (IsStarted(h)' <=> IsStarted(h))
    BY <2>1 DEF Count, Prereqs, After, OnStack, IsStarted
  <2>3. Types' /\ ResolveInv' /\ MarkInv' /\ DoneInv'
    BY <2>1, <2>2 DEF IInv, Types, ResolveInv, MarkInv, DoneInv
  <2>4. FrameInv' /\ OrderInv' /\ SortedInv'
    BY <2>1, <2>2 DEF IInv, FrameInv, OrderInv, SortedInv, Ranks, Passed
  <2>5. QED
    BY <2>3, <2>4 DEF IInv
<1>9. QED
  BY <1>1, <1>2, <1>3, <1>4, <1>5, <1>6, <1>7, <1>8 DEF Next, Stopped

LEMMA Invariance == Spec => []IInv
BY InitIInv, NextIInv, PTL DEF Spec

-----------------------------------------------------------------------------
(* What follows                                                            *)

(* A sequence without repetition is no longer than there are features, and *)
(* as long as that if it has them all.                                     *)
LEMMA Distinct ==
    ASSUME NEW s \in Seq(Feature),
           \A m, n \in DOMAIN s : s[m] = s[n] => m = n
    PROVE  /\ Len(s) <= N
           /\ (\A f \in Feature : \E n \in DOMAIN s : s[n] = f) => Len(s) = N
<1>1. N \in Nat /\ Len(s) \in Nat /\ DOMAIN s = 1 .. Len(s) /\ Feature = 1 .. N
  BY FeaturesAreNumbers DEF Feature
<1>2. IsFiniteSet(Feature) /\ Cardinality(Feature) = N
  BY <1>1, FS_Interval
<1>3. IsFiniteSet(DOMAIN s) /\ Cardinality(DOMAIN s) = Len(s)
  <2> DEFINE L == Len(s)
  <2>1. L \in Nat /\ DOMAIN s = 1 .. L
    BY <1>1
  <2> HIDE DEF L
  <2>2. IsFiniteSet(1 .. L) /\ Cardinality(1 .. L) = L
    BY <2>1, FS_Interval
  <2>3. QED
    BY <2>1, <2>2, Zenon DEF L
<1>4. s \in Injection(DOMAIN s, Feature)
  BY <1>1 DEF Injection, IsInjective
<1>5. Cardinality(DOMAIN s) <= Cardinality(Feature)
  BY <1>2, <1>4, FS_Injection, Zenon
<1>6. ASSUME \A f \in Feature : \E n \in DOMAIN s : s[n] = f
      PROVE  Cardinality(DOMAIN s) = Cardinality(Feature)
  <2>1. s \in Bijection(DOMAIN s, Feature)
    BY <1>1, <1>4, <1>6 DEF Bijection, Surjection
  <2>2. QED
    BY <1>3, <2>1, FS_Bijection DEF ExistsBijection
<1>7. QED
  BY <1>2, <1>3, <1>5, <1>6

LEMMA IInvStartedOnce == IInv => StartedOnce
<1> SUFFICES ASSUME IInv PROVE StartedOnce
  OBVIOUS
<1> USE DEF IInv
<1>1. /\ stack \in Seq(Frames) /\ Len(stack) \in Nat /\ DOMAIN stack = 1 .. Len(stack)
      /\ started \in Seq(Feature) /\ feature \in [Feature -> Seq(Link)]
  BY DEF Types
<1>2. \A n \in DOMAIN stack : stack[n].feature \in Feature
  <2> TAKE n \in DOMAIN stack
  <2>1. stack[n] \in Frames
    BY <1>1, ElementOfSeq
  <2>2. QED
    BY <2>1 DEF Frames
<1>3. TypeOK
  <2>1. \A n \in DOMAIN started : started[n] \in Feature
    BY <1>1, ElementOfSeq
  <2>2. \A f \in Feature : \A n \in DOMAIN feature[f] : feature[f][n] \in Link
    BY <1>1, ElementOfSeq
  <2>3. QED
    BY <1>2, <2>1, <2>2 DEF Types, TypeOK
<1>4. Len(stack) <= N
  <2> DEFINE s == [n \in 1 .. Len(stack) |-> stack[n].feature]
  <2>1. s \in [1 .. Len(stack) -> Feature]
    BY <1>1, <1>2
  <2>2. s \in Seq(Feature) /\ Len(s) = Len(stack) /\ DOMAIN s = 1 .. Len(stack)
    BY <1>1, <2>1
  <2>3. \A m, n \in DOMAIN s : s[m] = s[n] => m = n
    BY <1>1, <2>2 DEF MarkInv
  <2> HIDE DEF s
  <2>4. Len(s) <= N
    BY <2>2, <2>3, Distinct
  <2>5. QED
    BY <2>2, <2>4
<1>5. \A m, n \in DOMAIN started : started[m] = started[n] => m = n
  BY DEF MarkInv
<1>6. ASSUME stage = "up"
      PROVE  /\ Len(started) = N
             /\ \A f \in Feature : \A n \in 1 .. Len(table.required[f]) : feature[f][n] # 0
  <2>1. next = N + 1 /\ stack = <<>>
    BY <1>6 DEF DoneInv
  <2>2. \A f \in Feature : f < next
    BY <2>1, FeaturesAreNumbers
  <2>3. \A f \in Feature : IsStarted(f)
    BY <1>6, <2>1, <2>2 DEF DoneInv, MarkInv, OnStack
  <2>4. Len(started) = N
    BY <1>1, <1>5, <2>3, Distinct DEF IsStarted
  <2>5. \A f \in Feature : \A n \in 1 .. Len(table.required[f]) : feature[f][n] # 0
    BY <2>3 DEF DoneInv, IsStarted
  <2>6. QED
    BY <2>4, <2>5
<1>7. QED
  BY <1>3, <1>4, <1>5, <1>6 DEF StartedOnce

LEMMA IInvInOrder == IInv => InOrder
<1> SUFFICES ASSUME IInv, Acyclic, NEW n \in DOMAIN started, NEW g \in After(started[n])
             PROVE  StartedBefore(g, started[n])
  BY DEF InOrder
<1>1. PICK rank \in [Feature -> Feature] : Ranks(rank)
  BY DEF Acyclic, Ranks
<1>2. PICK i \in DOMAIN feature[started[n]] : g = feature[started[n]][i] /\ g # 0
  BY DEF After
<1>3. PICK k \in DOMAIN started : k < n /\ started[k] = feature[started[n]][i]
  BY <1>1, <1>2 DEF IInv, SortedInv
<1>4. QED
  BY <1>2, <1>3 DEF StartedBefore

(* For every table of features: no init function runs twice, the nesting   *)
(* of init_feature is bounded by the number of features, even with a       *)
(* cycle, and a platform that is up has run all of them (kmain.c).         *)
THEOREM StartedOnceAlways == Spec => []StartedOnce
<1>1. IInv => StartedOnce
  BY IInvStartedOnce
<1>2. QED
  BY <1>1, Invariance, PTL

(* For every table without a cycle, every feature starts after all that it *)
(* names, hard or soft.                                                    *)
THEOREM InOrderAlways == Spec => []InOrder
<1>1. IInv => InOrder
  BY IInvInOrder
<1>2. QED
  BY <1>1, Invariance, PTL

-----------------------------------------------------------------------------
(* Features are started as in Features                                     *)

LEMMA StuttersIInv ==
    ASSUME IInv, UNCHANGED vars
    PROVE  IInv'
BY NextIInv DEF vars

LEMMA BootIInv == BootSpec => []IInv
<1>1. BootInit => IInv
  BY InitIInv DEF BootInit
<1>2. IInv /\ [BootNext]_allVars => IInv'
  <2> SUFFICES ASSUME IInv, [BootNext]_allVars PROVE IInv'
    OBVIOUS
  <2>1. CASE UNCHANGED vars
    BY <2>1, StuttersIInv
  <2>2. CASE Kmain
    BY <2>2, NextIInv DEF Kmain
  <2>3. CASE init_memory
    <3>1. CASE panic /\ UNCHANGED <<result, at>>
      <4>1. stage = "init"
        BY <2>3 DEF init_memory, InInit
      <4>2. result' \in [Feature -> Results \cup {0}]
        BY <3>1 DEF IInv, Types
      <4>3. QED
        BY <3>1, <4>1, <4>2, StageStep
    <3>2. CASE UNCHANGED vars
      BY <3>2, StuttersIInv
    <3>3. QED
      BY <2>3, <3>1, <3>2 DEF init_memory
  <2>4. CASE WalkDone
    <3>1. \E r \in Results : RunInit(r)
      BY <2>4, BootAssumption DEF WalkDone
    <3>2. Next
      BY <3>1 DEF Next
    <3>3. QED
      BY <3>2, NextIInv
  <2>5. CASE CheckMagic \/ CopyCmdline \/ CopyMods \/ CopyElf \/ CopyMemory \/ Args \/ Walk
    <3>1. UNCHANGED vars
      BY <2>5, Zenon DEF CheckMagic, CopyCmdline, CopyMods, CopyElf, CopyMemory, Args, Walk, vars
    <3>2. QED
      BY <3>1, StuttersIInv
  <2>6. CASE LoaderStopped
    BY <2>6, StuttersIInv DEF LoaderStopped, allVars
  <2>7. CASE UNCHANGED allVars
    BY <2>7, StuttersIInv DEF allVars
  <2>8. QED
    BY <2>2, <2>3, <2>4, <2>5, <2>6, <2>7 DEF BootNext
<1>3. QED
  BY <1>1, <1>2, PTL DEF BootSpec

(* In the whole start-up, with the loader's and x86/mem's steps between    *)
(* those of kmain: no init function runs twice, init_feature is nested no  *)
(* deeper than there are features, and a platform that is up has run all.  *)
THEOREM BootStartedOnce == BootSpec => []StartedOnce
<1>1. IInv => StartedOnce
  BY IInvStartedOnce
<1>2. QED
  BY <1>1, BootIInv, PTL

(* In the whole start-up, every feature of a table without a cycle starts  *)
(* after all that it names.                                                *)
THEOREM BootInOrder == BootSpec => []InOrder
<1>1. IInv => InOrder
  BY IInvInOrder
<1>2. QED
  BY <1>1, BootIInv, PTL

-----------------------------------------------------------------------------
(* The early allocator                                                     *)

(* The steps before which nothing has been copied for p.                   *)
Before(p) ==
    CASE p = "cmdline" -> {"magic", "cmdline"}
      [] p = "mods" -> {"magic", "cmdline", "mods"}
      [] p = "elf" -> {"magic", "cmdline", "mods", "elf"}

Copies == {"cmdline", "mods", "elf"}

Fields == Copies \cup {"mmap"}

(* The blocks are below idx and in the order in which they were copied.    *)
(* idx matters only as long as a copy is still to come.                    *)
EarlyInv ==
    /\ info \in {m.info : m \in Machines}
    /\ mboot \in [Fields -> Int]
    /\ at \in {"magic", "cmdline", "mods", "elf"} => idx \in Nat /\ idx < EARLYALLOC_SZ
    /\ \A p \in Copies : at \in Before(p) => mboot[p] < 0
    /\ \A p \in Copies : mboot[p] >= 0 =>
          /\ mboot[p] + Lengths[p] < EARLYALLOC_SZ
          /\ at \in {"magic", "cmdline", "mods", "elf"} => mboot[p] + Lengths[p] <= idx
    /\ mboot["cmdline"] >= 0 /\ mboot["mods"] >= 0 =>
          mboot["cmdline"] + Lengths["cmdline"] <= mboot["mods"]
    /\ mboot["cmdline"] >= 0 /\ mboot["elf"] >= 0 =>
          mboot["cmdline"] + Lengths["cmdline"] <= mboot["elf"]
    /\ mboot["mods"] >= 0 /\ mboot["elf"] >= 0 =>
          mboot["mods"] + Lengths["mods"] <= mboot["elf"]

LEMMA LengthsType ==
    ASSUME info \in {m.info : m \in Machines}
    PROVE  Lengths \in [Copies -> Nat]
<1>1. PICK m \in Machines : info = m.info
  OBVIOUS
<1>2. /\ info.cmdline \in Seq(Range(info.cmdline))
      /\ info.sections \in Seq(Range(info.sections))
      /\ info.mods_count \in Nat
  BY <1>1, BootAssumption
<1>3. Len(info.cmdline) \in Nat /\ Len(info.sections) \in Nat
  BY <1>2
<1>4. /\ Len(info.cmdline) + 1 \in Nat /\ info.mods_count * SIZEOF_MODULE \in Nat
      /\ Len(info.sections) * SIZEOF_SECTION \in Nat
  BY <1>2, <1>3 DEF SIZEOF_MODULE, SIZEOF_SECTION
<1>5. QED
  BY <1>4 DEF Lengths, Copies

(* The sums of the early allocator are within an unsigned.                 *)
LEMMA SumFits ==
    ASSUME NEW n \in Nat, n < AddrSpace
    PROVE  unsigned(n) = n
<1>1. AddrSpace \in Nat /\ AddrSpace > 0
  BY BootAssumption
<1>2. QED
  BY <1>1 DEF unsigned

LEMMA LengthsFit ==
    ASSUME info \in {m.info : m \in Machines}, NEW p \in Copies
    PROVE  Lengths[p] + EARLYALLOC_SZ <= AddrSpace
<1>1. PICK m \in Machines : info = m.info
  OBVIOUS
<1>2. InMemory(info)
  BY <1>1, BootAssumption
<1>3. QED
  BY <1>2 DEF InMemory, Lengths, Copies

(* What a copy does: nothing, a null pointer, or the next block.           *)
LEMMA CopyFacts ==
    ASSUME EarlyInv, idx \in Nat, idx < EARLYALLOC_SZ, NEW p \in Copies,
           NEW len, len = Lengths[p], Copy(p, len), mboot[p] < 0
    PROVE  /\ mboot' \in [Fields -> Int]
           /\ \A q \in Fields : q # p => mboot'[q] = mboot[q]
           /\ idx' \in Nat /\ idx <= idx' /\ idx' < EARLYALLOC_SZ
           /\ mboot'[p] >= 0 => mboot'[p] = idx /\ idx' = idx + len /\ idx + len < EARLYALLOC_SZ
<1>1. mboot \in [Fields -> Int] /\ p \in Fields /\ EARLYALLOC_SZ \in Nat \ {0} /\ AddrSpace \in Nat
  BY BootAssumption DEF EarlyInv, Fields
<1>2. len \in Nat /\ len + EARLYALLOC_SZ <= AddrSpace
  BY LengthsType, LengthsFit DEF EarlyInv
<1>3. unsigned(len) = len /\ unsigned(idx + len) = idx + len
  BY <1>1, <1>2, SumFits
<1>4. CASE UNCHANGED <<mboot, idx>>
  BY <1>1, <1>4
<1>5. CASE idx + len >= EARLYALLOC_SZ /\ mboot' = [mboot EXCEPT ![p] = Null] /\ UNCHANGED idx
  BY <1>1, <1>5 DEF Null
<1>6. CASE /\ ~(idx + len >= EARLYALLOC_SZ)
           /\ mboot' = [mboot EXCEPT ![p] = idx] /\ idx' = idx + len
  BY <1>1, <1>2, <1>6
<1>7. QED
  BY <1>3, <1>4, <1>5, <1>6 DEF Copy, earlyalloc

LEMMA NextEarlyInv == EarlyInv /\ [BootNext]_allVars => EarlyInv'
<1> SUFFICES ASSUME EarlyInv, [BootNext]_allVars PROVE EarlyInv'
  OBVIOUS
<1>1. info' = info
  BY Zenon DEF BootNext, CheckMagic, CopyCmdline, CopyMods, CopyElf, CopyMemory, Args, Kmain,
         init_memory, Walk, WalkDone, LoaderStopped, bootVars, allVars
<1>2. Lengths' = Lengths /\ Lengths \in [Copies -> Nat]
  BY <1>1, LengthsType DEF Lengths, EarlyInv
<1>3. /\ "cmdline" \in Copies /\ "mods" \in Copies /\ "elf" \in Copies /\ "mmap" \notin Copies
      /\ Copies \subseteq Fields /\ "mmap" \in Fields
      /\ \A p \in Copies : p = "cmdline" \/ p = "mods" \/ p = "elf"
  BY DEF Copies, Fields
<1>4. CASE CopyCmdline
  <2>1. at = "cmdline" /\ at' = "mods" /\ Copy("cmdline", Lengths["cmdline"])
    BY <1>4 DEF CopyCmdline, Lengths
  <2>2. idx \in Nat /\ idx < EARLYALLOC_SZ /\ mboot["cmdline"] < 0 /\ mboot["mods"] < 0 /\ mboot["elf"] < 0
    BY <1>3, <2>1 DEF EarlyInv, Before
  <2>3. /\ mboot' \in [Fields -> Int]
        /\ \A q \in Fields : q # "cmdline" => mboot'[q] = mboot[q]
        /\ idx' \in Nat /\ idx <= idx' /\ idx' < EARLYALLOC_SZ
        /\ mboot'["cmdline"] >= 0 =>
              /\ mboot'["cmdline"] = idx /\ idx' = idx + Lengths["cmdline"]
              /\ idx + Lengths["cmdline"] < EARLYALLOC_SZ
    BY <1>2, <1>3, <2>1, <2>2, CopyFacts
  <2>4. mboot'["mods"] < 0 /\ mboot'["elf"] < 0
    BY <1>3, <2>2, <2>3
  <2>5. \A p \in Copies : at' \in Before(p) => mboot'[p] < 0
    BY <1>3, <2>1, <2>4 DEF Before
  <2>6. \A p \in Copies : mboot'[p] >= 0 =>
          mboot'[p] + Lengths[p] < EARLYALLOC_SZ /\ mboot'[p] + Lengths[p] <= idx'
    BY <1>2, <1>3, <2>2, <2>3, <2>4
  <2>7. QED
    BY <1>1, <1>2, <1>3, <2>3, <2>4, <2>5, <2>6 DEF EarlyInv
<1>5. CASE CopyMods
  <2>1. at = "mods" /\ at' = "elf" /\ Copy("mods", Lengths["mods"])
    BY <1>5 DEF CopyMods, Lengths
  <2>2. idx \in Nat /\ idx < EARLYALLOC_SZ /\ mboot["mods"] < 0 /\ mboot["elf"] < 0
    BY <1>3, <2>1 DEF EarlyInv, Before
  <2>3. /\ mboot' \in [Fields -> Int]
        /\ \A q \in Fields : q # "mods" => mboot'[q] = mboot[q]
        /\ idx' \in Nat /\ idx <= idx' /\ idx' < EARLYALLOC_SZ
        /\ mboot'["mods"] >= 0 =>
              /\ mboot'["mods"] = idx /\ idx' = idx + Lengths["mods"]
              /\ idx + Lengths["mods"] < EARLYALLOC_SZ
    BY <1>2, <1>3, <2>1, <2>2, CopyFacts
  <2>4. mboot'["elf"] < 0 /\ mboot'["cmdline"] = mboot["cmdline"]
    BY <1>3, <2>2, <2>3
  <2>5. \A p \in Copies : at' \in Before(p) => mboot'[p] < 0
    BY <1>3, <2>1, <2>4 DEF Before
  <2>6. mboot["cmdline"] >= 0 =>
          /\ mboot["cmdline"] + Lengths["cmdline"] < EARLYALLOC_SZ
          /\ mboot["cmdline"] + Lengths["cmdline"] <= idx
    BY <1>3, <2>1 DEF EarlyInv
  <2>7. Lengths["cmdline"] \in Nat /\ Lengths["mods"] \in Nat /\ mboot["cmdline"] \in Int
    BY <1>2, <1>3 DEF EarlyInv
  <2>8. \A p \in Copies : mboot'[p] >= 0 =>
          mboot'[p] + Lengths[p] < EARLYALLOC_SZ /\ mboot'[p] + Lengths[p] <= idx'
    BY <1>3, <2>2, <2>3, <2>4, <2>6, <2>7
  <2>9. mboot'["cmdline"] >= 0 /\ mboot'["mods"] >= 0 =>
          mboot'["cmdline"] + Lengths["cmdline"] <= mboot'["mods"]
    BY <2>3, <2>4, <2>6
  <2>10. QED
    BY <1>1, <1>2, <1>3, <2>3, <2>4, <2>5, <2>8, <2>9 DEF EarlyInv
<1>6. CASE CopyElf
  <2>1. at = "elf" /\ at' = "memory" /\ Copy("elf", Lengths["elf"])
    BY <1>6 DEF CopyElf, Lengths
  <2>2. idx \in Nat /\ idx < EARLYALLOC_SZ /\ mboot["elf"] < 0
    BY <1>3, <2>1 DEF EarlyInv, Before
  <2>3. /\ mboot' \in [Fields -> Int]
        /\ \A q \in Fields : q # "elf" => mboot'[q] = mboot[q]
        /\ mboot'["elf"] >= 0 =>
              mboot'["elf"] = idx /\ idx + Lengths["elf"] < EARLYALLOC_SZ
    BY <1>2, <1>3, <2>1, <2>2, CopyFacts
  <2>4. mboot'["mods"] = mboot["mods"] /\ mboot'["cmdline"] = mboot["cmdline"]
    BY <1>3, <2>3
  <2>5. \A p \in Copies : ~(at' \in Before(p))
    BY <1>3, <2>1 DEF Before
  <2>6. \A p \in Copies : mboot[p] >= 0 =>
          mboot[p] + Lengths[p] < EARLYALLOC_SZ /\ mboot[p] + Lengths[p] <= idx
    BY <1>3, <2>1 DEF EarlyInv
  <2>7. \A p \in Copies : mboot'[p] >= 0 => mboot'[p] + Lengths[p] < EARLYALLOC_SZ
    BY <1>3, <2>3, <2>4, <2>6
  <2>8. /\ mboot'["cmdline"] >= 0 /\ mboot'["elf"] >= 0 =>
              mboot'["cmdline"] + Lengths["cmdline"] <= mboot'["elf"]
        /\ mboot'["mods"] >= 0 /\ mboot'["elf"] >= 0 =>
              mboot'["mods"] + Lengths["mods"] <= mboot'["elf"]
    BY <1>3, <2>3, <2>4, <2>6
  <2>9. at' \notin {"magic", "cmdline", "mods", "elf"}
    BY <2>1
  <2>10. /\ mboot'["cmdline"] >= 0 /\ mboot'["mods"] >= 0 =>
               mboot'["cmdline"] + Lengths["cmdline"] <= mboot'["mods"]
    BY <2>4 DEF EarlyInv
  <2>11. QED
    BY <1>1, <1>2, <2>3, <2>5, <2>7, <2>8, <2>9, <2>10 DEF EarlyInv
<1>7. CASE /\ \A p \in Copies : mboot'[p] = mboot[p]
           /\ mboot' \in [Fields -> Int]
           /\ \/ at' \notin {"magic", "cmdline", "mods", "elf"}
              \/ at = "magic" /\ at' = "cmdline" /\ idx' = idx
              \/ at' = at /\ idx' = idx
  <2>1. \A p \in Copies : at' \in Before(p) => at \in Before(p)
    BY <1>3, <1>7 DEF Before
  <2>2. at' \in {"magic", "cmdline", "mods", "elf"} =>
          idx' = idx /\ at \in {"magic", "cmdline", "mods", "elf"}
    BY <1>7
  <2>3. QED
    BY <1>1, <1>2, <1>3, <1>7, <2>1, <2>2 DEF EarlyInv
<1>8. CASE CheckMagic
  BY <1>3, <1>7, <1>8 DEF CheckMagic, EarlyInv
<1>9. CASE CopyMemory
  BY <1>3, <1>7, <1>9 DEF CopyMemory, EarlyInv, Left, Null
<1>10. CASE Args
  BY <1>3, <1>7, <1>10 DEF Args, EarlyInv
<1>11. CASE Kmain \/ init_memory \/ Walk \/ WalkDone
  BY <1>3, <1>7, <1>11 DEF Kmain, init_memory, Walk, WalkDone, EarlyInv, bootVars
<1>12. CASE UNCHANGED allVars
  BY <1>3, <1>7, <1>12 DEF allVars, bootVars, EarlyInv
<1>13. QED
  BY <1>4, <1>5, <1>6, <1>8, <1>9, <1>10, <1>11, <1>12 DEF BootNext, LoaderStopped

LEMMA EarlyInvApart == EarlyInv => EarlyApart
<1> SUFFICES ASSUME EarlyInv PROVE EarlyApart
  OBVIOUS
<1> DEFINE bytes(p) == mboot[p] .. (mboot[p] + Lengths[p] - 1)
<1>1. Lengths \in [Copies -> Nat] /\ mboot \in [Fields -> Int] /\ Copies \subseteq Fields
  BY LengthsType DEF EarlyInv, Fields
<1>2. \A p \in Copies : /\ mboot[p] \in Int /\ Lengths[p] \in Nat
                        /\ p = "cmdline" \/ p = "mods" \/ p = "elf"
  BY <1>1 DEF Copies
<1>3. DOMAIN Lengths = Copies /\ EARLYALLOC_SZ \in Nat
  BY <1>1, BootAssumption
<1>4. ASSUME NEW p \in Copies, mboot[p] >= 0
      PROVE  bytes(p) \subseteq 0 .. (EARLYALLOC_SZ - 1)
  <2>1. mboot[p] + Lengths[p] < EARLYALLOC_SZ
    BY <1>4 DEF EarlyInv
  <2>2. QED
    BY <1>2, <1>3, <1>4, <2>1
<1>5. ASSUME NEW p \in Copies, NEW q \in Copies, mboot[p] >= 0, mboot[q] >= 0, p # q
      PROVE  bytes(p) \cap bytes(q) = {}
  <2>1. \/ mboot[p] + Lengths[p] <= mboot[q]
        \/ mboot[q] + Lengths[q] <= mboot[p]
    BY <1>2, <1>5 DEF EarlyInv
  <2>2. QED
    BY <1>2, <2>1
<1>6. QED
  BY <1>3, <1>4, <1>5 DEF EarlyApart

LEMMA EarlyInvInit == BootInit => EarlyInv
<1> SUFFICES ASSUME BootInit PROVE EarlyInv
  OBVIOUS
<1>1. mboot = [p \in {"cmdline", "mods", "elf", "mmap"} |-> Left] /\ idx = 0
  BY DEF BootInit
<1>2. mboot \in [Fields -> Int] /\ \A p \in Fields : mboot[p] < 0
  BY <1>1 DEF Left, Fields, Copies
<1>3. info \in {m.info : m \in Machines}
  BY DEF BootInit
<1>4. idx \in Nat /\ idx < EARLYALLOC_SZ
  BY <1>1, BootAssumption
<1>5. QED
  BY <1>1, <1>2, <1>3, <1>4 DEF EarlyInv, Fields, Copies

(* For every size of the early allocator's buffer and everything that the  *)
(* boot loader may leave in memory: the copies that loader() makes are     *)
(* inside the buffer and do not overlap, whichever of the requests fail    *)
(* (earlyalloc of arch/x86/loader2.c).                                     *)
THEOREM EarlyApartAlways == BootSpec => []EarlyApart
BY EarlyInvInit, NextEarlyInv, EarlyInvApart, PTL DEF BootSpec

-----------------------------------------------------------------------------
(* What is taken over from the boot loader                                 *)

Entry == [size : Nat, available : BOOLEAN, addr : Nat, len : Nat]

(* The space that the copy of p takes, if there is one.                    *)
Size(p) == IF p \in info.flags THEN Lengths[p] ELSE 0

(* From reliable data every copy is made, so that idx is the sum of their  *)
(* sizes, and nothing is missing when it is used.                          *)
LoaderInv ==
    /\ at # "wild"
    /\ at \in {"magic", "cmdline"} => idx = 0
    /\ at = "mods" => idx = Size("cmdline")
    /\ at = "elf" => idx = Size("cmdline") + Size("mods")
    /\ at = "memory" => idx = Size("cmdline") + Size("mods") + Size("elf")
    /\ at \in {"mods", "elf", "memory", "args"} => mboot["cmdline"] >= 0
    /\ at \in {"memory", "args", "kmain", "walk"} /\ "elf" \in info.flags =>
          /\ info.sections[kernel_elf.strtab] = ".strtab"
          /\ info.sections[kernel_elf.symtab] = ".symtab"
    /\ at \in {"args", "kmain", "walk"} => mboot["mmap"] = Left
    /\ at \in {"kmain", "walk"} => argv = tokenize(" ", info.cmdline, MaxArgs)

(* The first k entries of the memory map are taken over.                   *)
Took(k) ==
    /\ Len(ranges) = Cardinality(Available(k))
    /\ \A n \in Available(k) :
          /\ ranges[Cardinality(Available(n))] =
                [start |-> info.mmap[n].addr, extent |-> info.mmap[n].len]
          /\ info.mmap[n].addr + info.mmap[n].len <= extent

(* The loop of init_memory runs once, inside the init function of x86/mem, *)
(* and is always between two entries.                                      *)
WalkInv ==
    /\ ranges \in Seq([start : Nat, extent : Nat]) /\ extent \in Nat
    /\ at # "walk" /\ ~IsStarted(MemFeature) => entry = 0 /\ Took(0)
    /\ at = "walk" =>
          /\ InInit(MemFeature)
          /\ \E k \in 0 .. Len(info.mmap) : entry = Ends(info.mmap)[k] /\ Took(k)
    /\ IsStarted(MemFeature) => Took(Len(info.mmap))

TakenInv == Reliable => LoaderInv /\ WalkInv

-----------------------------------------------------------------------------
(* Where the entries end                                                   *)

LEMMA EntryTypes ==
    ASSUME NEW mmap \in Seq(Entry)
    PROVE  /\ Len(mmap) \in Nat
           /\ \A n \in 1 .. Len(mmap) :
                 /\ mmap[n].size \in Nat /\ mmap[n].available \in BOOLEAN
                 /\ mmap[n].addr \in Nat /\ mmap[n].len \in Nat
<1>1. Len(mmap) \in Nat /\ \A n \in 1 .. Len(mmap) : mmap[n] \in Entry
  OBVIOUS
<1>2. \A e \in Entry : /\ e.size \in Nat /\ e.available \in BOOLEAN
                       /\ e.addr \in Nat /\ e.len \in Nat
  BY DEF Entry
<1>3. QED
  BY <1>1, <1>2

(* f says where the first k entries end.                                   *)
Adds(f, mmap, k) ==
    /\ f \in [0 .. k -> Nat]
    /\ f[0] = 0
    /\ \A n \in 1 .. k : f[n] = f[n - 1] + mmap[n].size + 4

LEMMA AddsExists ==
    ASSUME NEW mmap \in Seq(Entry), NEW k \in 0 .. Len(mmap)
    PROVE  \E f : Adds(f, mmap, k)
<1> DEFINE T == {n \in 0 .. Len(mmap) : ~\E f : Adds(f, mmap, n)}
<1>1. Len(mmap) \in Nat /\ \A n \in 1 .. Len(mmap) : mmap[n].size \in Nat
  BY EntryTypes
<1>2. \E f : Adds(f, mmap, 0)
  <2> DEFINE f == [n \in 0 .. 0 |-> 0]
  <2>1. f \in [0 .. 0 -> Nat] /\ f[0] = 0
    OBVIOUS
  <2> HIDE DEF f
  <2>2. Adds(f, mmap, 0)
    BY <2>1 DEF Adds
  <2>3. QED
    BY <2>2
<1>3. ASSUME NEW n \in 0 .. Len(mmap), n + 1 <= Len(mmap), \E f : Adds(f, mmap, n)
      PROVE  \E f : Adds(f, mmap, n + 1)
  <2>1. PICK f : Adds(f, mmap, n)
    BY <1>3
  <2> DEFINE last == f[n] + mmap[n + 1].size + 4
             g == [i \in 0 .. (n + 1) |-> IF i <= n THEN f[i] ELSE last]
  <2>2. f \in [0 .. n -> Nat] /\ n \in Nat /\ last \in Nat
    <3>1. n \in Nat /\ n + 1 \in 1 .. Len(mmap) /\ n \in 0 .. n
      BY <1>1, <1>3
    <3>2. mmap[n + 1].size \in Nat
      BY <1>1, <3>1
    <3>3. f \in [0 .. n -> Nat]
      BY <2>1 DEF Adds
    <3>4. f[n] \in Nat
      BY <3>1, <3>3
    <3>5. QED
      BY <3>1, <3>2, <3>3, <3>4, SMTT(30)
  <2> HIDE DEF last
  <2>3. /\ g \in [0 .. (n + 1) -> Nat]
        /\ \A i \in 0 .. n : g[i] = f[i]
        /\ g[n + 1] = last
    BY <2>2
  <2> HIDE DEF g
  <2>4. g[0] = 0
    BY <2>1, <2>2, <2>3 DEF Adds
  <2>5. \A i \in 1 .. (n + 1) : g[i] = g[i - 1] + mmap[i].size + 4
    <3> TAKE i \in 1 .. (n + 1)
    <3>1. CASE i = n + 1
      BY <2>2, <2>3, <3>1 DEF last
    <3>2. CASE i # n + 1
      <4>1. i \in 1 .. n /\ i \in 0 .. n /\ i - 1 \in 0 .. n
        BY <2>2, <3>2
      <4>2. QED
        BY <2>1, <2>3, <4>1 DEF Adds
    <3>3. QED
      BY <3>1, <3>2
  <2>6. Adds(g, mmap, n + 1)
    BY <2>3, <2>4, <2>5 DEF Adds
  <2>7. QED
    BY <2>6
<1>4. T = {}
  <2> SUFFICES ASSUME T # {} PROVE FALSE
    OBVIOUS
  <2>1. T \subseteq Nat
    OBVIOUS
  <2>2. PICK n \in T : \A l \in T : n <= l
    BY <2>1, LeastOf
  <2>3. n # 0
    BY <1>2
  <2>4. PICK j \in 0 .. Len(mmap) : j + 1 = n
    <3>1. n - 1 \in 0 .. Len(mmap) /\ (n - 1) + 1 = n
      BY <1>1, <2>2, <2>3
    <3>2. QED
      BY <3>1
  <2>5. j \notin T
    BY <2>2, <2>4
  <2>6. QED
    BY <1>1, <1>3, <2>2, <2>4, <2>5
<1>5. QED
  BY <1>4

LEMMA EndsAre ==
    ASSUME NEW mmap \in Seq(Entry)
    PROVE  Adds(Ends(mmap), mmap, Len(mmap))
<1> DEFINE R(f) == f = [n \in 0 .. Len(mmap) |->
                          IF n = 0 THEN 0 ELSE f[n - 1] + mmap[n].size + 4]
<1>1. Ends(mmap) = CHOOSE f : R(f)
  BY DEF Ends
<1>2. Len(mmap) \in Nat /\ \A n \in 1 .. Len(mmap) : mmap[n].size \in Nat
  BY EntryTypes
<1>3. PICK g : Adds(g, mmap, Len(mmap))
  <2>1. Len(mmap) \in 0 .. Len(mmap)
    BY <1>2
  <2>2. QED
    BY <2>1, AddsExists
<1>4. R(g)
  <2>1. g = [n \in 0 .. Len(mmap) |-> g[n]]
    BY <1>3 DEF Adds
  <2>2. \A n \in 0 .. Len(mmap) :
          g[n] = IF n = 0 THEN 0 ELSE g[n - 1] + mmap[n].size + 4
    BY <1>2, <1>3 DEF Adds
  <2>3. QED
    BY <2>1, <2>2
<1> DEFINE f == Ends(mmap)
<1>5. R(f)
  BY <1>1, <1>4
<1> HIDE DEF f
<1>6. \A n \in 0 .. Len(mmap) : f[n] = IF n = 0 THEN 0 ELSE f[n - 1] + mmap[n].size + 4
  BY <1>5
<1>7. DOMAIN f = 0 .. Len(mmap) /\ f = [n \in 0 .. Len(mmap) |-> f[n]]
  BY <1>5
<1> DEFINE T == {n \in 0 .. Len(mmap) : f[n] # g[n]}
<1>8. T = {}
  <2> SUFFICES ASSUME T # {} PROVE FALSE
    OBVIOUS
  <2>1. T \subseteq Nat
    OBVIOUS
  <2>2. PICK n \in T : \A l \in T : n <= l
    BY <2>1, LeastOf
  <2>3. n # 0
    BY <1>2, <1>3, <1>6 DEF Adds
  <2>4. n \in 1 .. Len(mmap) /\ n - 1 \in 0 .. Len(mmap) /\ n - 1 \notin T
    BY <1>2, <2>2, <2>3
  <2>5. f[n - 1] = g[n - 1]
    BY <2>4
  <2>6. f[n] = f[n - 1] + mmap[n].size + 4
    BY <1>6, <2>3, <2>2
  <2>7. g[n] = g[n - 1] + mmap[n].size + 4
    BY <1>3, <2>4 DEF Adds
  <2>8. QED
    BY <2>2, <2>5, <2>6, <2>7
<1>9. f = g
  <2>1. g = [n \in 0 .. Len(mmap) |-> g[n]]
    BY <1>3 DEF Adds
  <2>2. \A n \in 0 .. Len(mmap) : f[n] = g[n]
    BY <1>8
  <2>3. QED
    BY <1>7, <2>1, <2>2
<1>10. QED
  BY <1>3, <1>9 DEF f

(* No two entries end at the same place.                                   *)
LEMMA EndsGrow ==
    ASSUME NEW mmap \in Seq(Entry), NEW m \in 0 .. Len(mmap), NEW n \in 0 .. Len(mmap), m < n
    PROVE  Ends(mmap)[m] < Ends(mmap)[n]
<1> DEFINE f == Ends(mmap)
           T == {k \in 0 .. Len(mmap) : m < k /\ ~(f[m] < f[k])}
<1>1. Len(mmap) \in Nat /\ \A k \in 1 .. Len(mmap) : mmap[k].size \in Nat
  BY EntryTypes
<1>2. f \in [0 .. Len(mmap) -> Nat] /\ \A k \in 1 .. Len(mmap) : f[k] = f[k - 1] + mmap[k].size + 4
  BY EndsAre DEF Adds
<1> HIDE DEF f
<1>3. T = {}
  <2> SUFFICES ASSUME T # {} PROVE FALSE
    OBVIOUS
  <2>1. T \subseteq Nat
    OBVIOUS
  <2>2. PICK k \in T : \A l \in T : k <= l
    BY <2>1, LeastOf
  <2>3. k \in 1 .. Len(mmap) /\ k - 1 \in 0 .. Len(mmap) /\ k - 1 \notin T /\ m <= k - 1
    BY <1>1, <2>2
  <2>4. f[m] <= f[k - 1]
    <3>1. f[m] \in Nat
      BY <1>2
    <3>2. m < k - 1 => f[m] < f[k - 1]
      BY <2>3
    <3>3. f[k - 1] \in Nat
      BY <1>2, <2>3
    <3>4. m = k - 1 \/ m < k - 1
      BY <1>1, <2>3
    <3>5. QED
      BY <3>1, <3>2, <3>3, <3>4
  <2>5. f[m] < f[k]
    <3>1. f[k] = f[k - 1] + mmap[k].size + 4 /\ mmap[k].size \in Nat
      BY <1>1, <1>2, <2>3
    <3>2. f[m] \in Nat /\ f[k - 1] \in Nat
      BY <1>2, <2>3
    <3>3. QED
      BY <2>4, <3>1, <3>2
  <2>6. QED
    BY <2>2, <2>5
<1>4. QED
  BY <1>3 DEF f

-----------------------------------------------------------------------------
(* The available entries                                                   *)

LEMMA InfoTypes ==
    ASSUME info \in {m.info : m \in Machines}
    PROVE  /\ info.mmap \in Seq(Entry)
           /\ info.sections \in Seq(Range(info.sections))
<1>1. PICK m \in Machines : info = m.info
  OBVIOUS
<1>2. QED
  BY <1>1, BootAssumption DEF Entry

LEMMA AvailableFacts ==
    /\ \A k \in Nat : IsFiniteSet(Available(k)) /\ Cardinality(Available(k)) \in Nat
    /\ Available(0) = {} /\ Cardinality(Available(0)) = 0
    /\ \A m, n \in Nat : m <= n => /\ Available(m) \subseteq Available(n)
                                   /\ Cardinality(Available(m)) <= Cardinality(Available(n))
    /\ \A n \in Nat : n \in Available(n) => Cardinality(Available(n)) >= 1
<1>1. ASSUME NEW k \in Nat
      PROVE  IsFiniteSet(Available(k)) /\ Cardinality(Available(k)) \in Nat
  <2>1. IsFiniteSet(1 .. k)
    BY FS_Interval
  <2>2. Available(k) \subseteq 1 .. k
    BY DEF Available
  <2>3. IsFiniteSet(Available(k))
    BY <2>1, <2>2, FS_Subset, Zenon
  <2>4. QED
    BY <2>3, FS_CardinalityType
<1>2. Available(0) = {}
  BY DEF Available
<1>3. Cardinality(Available(0)) = 0
  BY <1>2, FS_EmptySet
<1>4. ASSUME NEW m \in Nat, NEW n \in Nat, m <= n
      PROVE  /\ Available(m) \subseteq Available(n)
             /\ Cardinality(Available(m)) <= Cardinality(Available(n))
  <2>1. Available(m) \subseteq Available(n)
    BY <1>4 DEF Available
  <2>2. QED
    BY <1>1, <2>1, FS_Subset, Zenon
<1>5. ASSUME NEW n \in Nat, n \in Available(n)
      PROVE  Cardinality(Available(n)) >= 1
  <2>1. Cardinality(Available(n)) # 0
    BY <1>1, <1>5, FS_EmptySet
  <2>2. QED
    BY <1>1, <2>1
<1>6. QED
  BY <1>1, <1>2, <1>3, <1>4, <1>5

LEMMA AvailableNext ==
    ASSUME NEW k \in Nat
    PROVE  /\ info.mmap[k + 1].available =>
                 /\ Available(k + 1) = Available(k) \cup {k + 1}
                 /\ Cardinality(Available(k + 1)) = Cardinality(Available(k)) + 1
           /\ ~info.mmap[k + 1].available => Available(k + 1) = Available(k)
<1>1. 1 .. (k + 1) = (1 .. k) \cup {k + 1} /\ k + 1 \notin 1 .. k
  OBVIOUS
<1>2. ~info.mmap[k + 1].available => Available(k + 1) = Available(k)
  BY <1>1 DEF Available
<1>3. ASSUME info.mmap[k + 1].available
      PROVE  Available(k + 1) = Available(k) \cup {k + 1} /\ k + 1 \notin Available(k)
  BY <1>1, <1>3 DEF Available
<1>4. ASSUME info.mmap[k + 1].available
      PROVE  Cardinality(Available(k + 1)) = Cardinality(Available(k)) + 1
  BY <1>3, <1>4, AvailableFacts, FS_AddElement
<1>5. QED
  BY <1>2, <1>3, <1>4

LEMMA MaxOfTwo ==
    ASSUME NEW a \in Nat, NEW b \in Nat
    PROVE  Max({a, b}) \in Nat /\ Max({a, b}) >= a /\ Max({a, b}) >= b
<1>1. \E x \in {a, b} : \A y \in {a, b} : x >= y
  OBVIOUS
<1>2. Max({a, b}) \in {a, b} /\ \A y \in {a, b} : Max({a, b}) >= y
  BY <1>1 DEF Max
<1>3. QED
  BY <1>2

LEMMA MaxOfOne == ASSUME NEW a \in Nat PROVE Max({a}) = a
<1>1. \E x \in {a} : \A y \in {a} : x >= y
  OBVIOUS
<1>2. Max({a}) \in {a}
  BY <1>1 DEF Max
<1>3. QED
  BY <1>2

(* The last section of a name that is there has that name.                 *)
LEMMA SectionIs ==
    ASSUME info \in {m.info : m \in Machines}, NEW name \in Range(info.sections)
    PROVE  info.sections[SectionNamed(name)] = name
<1> DEFINE L == Len(info.sections)
           found == {n \in DOMAIN info.sections : info.sections[n] = name}
           T == {L - n : n \in found}
<1>1. L \in Nat /\ DOMAIN info.sections = 1 .. L
  BY InfoTypes
<1>2. PICK d \in DOMAIN info.sections : info.sections[d] = name
  BY DEF Range
<1>3. found # {} /\ found \subseteq 1 .. L
  BY <1>1, <1>2
<1> HIDE DEF L
<1>4. T \subseteq Nat /\ T # {}
  BY <1>1, <1>3
<1>5. PICK x \in T : \A y \in T : x <= y
  BY <1>4, LeastOf
<1>6. PICK n \in found : x = L - n
  BY <1>5
<1>7. \A m \in found : n >= m
  <2> TAKE m \in found
  <2>1. L - m \in T
    OBVIOUS
  <2>2. L - n <= L - m
    BY <1>5, <1>6, <2>1
  <2>3. QED
    BY <1>1, <1>3, <2>2
<1>8. Max(found) \in found
  BY <1>7 DEF Max
<1>9. SectionNamed(name) = Max(found)
  BY <1>3 DEF SectionNamed
<1>10. QED
  BY <1>8, <1>9

-----------------------------------------------------------------------------
(* The loader                                                              *)

LEMMA InfoStays == ASSUME [BootNext]_allVars PROVE info' = info
BY Zenon DEF BootNext, CheckMagic, CopyCmdline, CopyMods, CopyElf, CopyMemory, Args, Kmain,
       init_memory, Walk, WalkDone, LoaderStopped, bootVars, allVars

(* The sizes of reliable data.                                             *)
LEMMA SizeFacts ==
    ASSUME EarlyInv, Reliable
    PROVE  /\ mmap_length \in Nat /\ EARLYALLOC_SZ \in Nat
           /\ \A p \in Copies : Size(p) \in Nat
           /\ "cmdline" \in info.flags /\ "memory" \in info.flags /\ "mmap" \in info.flags
           /\ Size("cmdline") + Size("mods") + Size("elf") + mmap_length + 4 < EARLYALLOC_SZ
<1>1. Lengths \in [Copies -> Nat] /\ info.mmap \in Seq(Entry)
  BY LengthsType, InfoTypes DEF EarlyInv
<1>2. mmap_length \in Nat
  <2>1. Len(info.mmap) \in 0 .. Len(info.mmap)
    BY <1>1, EntryTypes
  <2>2. Ends(info.mmap) \in [0 .. Len(info.mmap) -> Nat]
    BY <1>1, EndsAre DEF Adds
  <2>3. QED
    BY <2>1, <2>2 DEF mmap_length
<1>3. "cmdline" \in Copies /\ "mods" \in Copies /\ "elf" \in Copies
  BY DEF Copies
<1>4. \A p \in Copies : Lengths[p] \in Nat /\ Size(p) \in Nat
  BY <1>1 DEF Size
<1>5. "cmdline" \in info.flags /\ "memory" \in info.flags /\ "mmap" \in info.flags
  BY DEF Reliable
<1>6. Size("cmdline") = Lengths["cmdline"]
  BY <1>5 DEF Size
<1>7. Lengths["cmdline"] + mmap_length + 4 + Size("mods") + Size("elf") < EARLYALLOC_SZ
  BY DEF Reliable, Size
<1>8. QED
  BY <1>2, <1>3, <1>4, <1>5, <1>6, <1>7, BootAssumption

(* A copy that fits is made.                                               *)
LEMMA CopyMade ==
    ASSUME EarlyInv, NEW p \in Copies, idx \in Nat, Size(p) \in Nat,
           idx + Size(p) < EARLYALLOC_SZ, Copy(p, Lengths[p])
    PROVE  /\ idx' = idx + Size(p)
           /\ p \in info.flags => mboot'[p] = idx
           /\ \A q \in Fields : q # p => mboot'[q] = mboot[q]
<1>1. /\ mboot \in [Fields -> Int] /\ p \in Fields /\ EARLYALLOC_SZ \in Nat
      /\ AddrSpace \in Nat /\ EARLYALLOC_SZ <= AddrSpace
  BY BootAssumption DEF EarlyInv, Fields
<1>2. CASE p \notin info.flags
  BY <1>1, <1>2 DEF Copy, Size
<1>3. CASE p \in info.flags
  <2>1. Size(p) = Lengths[p]
    BY <1>3 DEF Size
  <2>2. mboot' = [mboot EXCEPT ![p] = idx] /\ idx' = idx + Lengths[p]
    <3>1. unsigned(Lengths[p]) = Lengths[p] /\ unsigned(idx + Lengths[p]) = idx + Lengths[p]
      BY <1>1, <2>1, SumFits
    <3>2. QED
      BY <1>1, <1>3, <2>1, <3>1 DEF Copy, earlyalloc
  <2>3. QED
    BY <1>1, <2>1, <2>2
<1>4. QED
  BY <1>2, <1>3

LEMMA LoaderStep ==
    ASSUME EarlyInv, Reliable, LoaderInv, WalkInv, [BootNext]_allVars, at' # "wild"
    PROVE  LoaderInv'
<1>1. info' = info
  BY InfoStays
<1>2. \A p : Size(p)' = Size(p)
  BY <1>1 DEF Size, Lengths
<1>3. /\ "cmdline" \in Copies /\ "mods" \in Copies /\ "elf" \in Copies /\ "mmap" \in Fields
      /\ Copies \subseteq Fields
  BY DEF Copies, Fields
<1>4. /\ mmap_length \in Nat /\ EARLYALLOC_SZ \in Nat
      /\ Size("cmdline") \in Nat /\ Size("mods") \in Nat /\ Size("elf") \in Nat
      /\ "cmdline" \in info.flags /\ "memory" \in info.flags
      /\ Size("cmdline") + Size("mods") + Size("elf") + mmap_length + 4 < EARLYALLOC_SZ
  BY <1>3, SizeFacts
<1>5. mboot \in [Fields -> Int]
  BY DEF EarlyInv
<1>6. CASE CheckMagic
  <2>1. at = "magic" /\ at' \in {"cmdline", "halt"} /\ idx' = idx
    BY <1>6 DEF CheckMagic
  <2>2. QED
    BY <2>1 DEF LoaderInv
<1>7. CASE CopyCmdline
  <2>1. at = "cmdline" /\ at' = "mods" /\ Copy("cmdline", Lengths["cmdline"])
    BY <1>7 DEF CopyCmdline, Lengths
  <2>2. idx = 0
    BY <2>1 DEF LoaderInv
  <2>3. idx' = Size("cmdline") /\ mboot'["cmdline"] >= 0
    BY <1>3, <1>4, <2>1, <2>2, CopyMade
  <2>4. QED
    BY <1>2, <2>1, <2>3 DEF LoaderInv
<1>8. CASE CopyMods
  <2>1. at = "mods" /\ at' = "elf" /\ Copy("mods", Lengths["mods"])
    BY <1>8 DEF CopyMods, Lengths
  <2>2. idx = Size("cmdline") /\ mboot["cmdline"] >= 0
    BY <2>1 DEF LoaderInv
  <2>3. idx + Size("mods") < EARLYALLOC_SZ /\ idx \in Nat
    BY <1>4, <2>2
  <2>4. idx' = idx + Size("mods") /\ mboot'["cmdline"] = mboot["cmdline"]
    BY <1>3, <1>4, <2>1, <2>3, CopyMade
  <2>5. QED
    BY <1>2, <2>1, <2>2, <2>4 DEF LoaderInv
<1>9. CASE CopyElf
  <2>1. at = "elf" /\ at' = "memory" /\ Copy("elf", Lengths["elf"])
    BY <1>9 DEF CopyElf, Lengths
  <2>2. idx = Size("cmdline") + Size("mods") /\ mboot["cmdline"] >= 0
    BY <2>1 DEF LoaderInv
  <2>3. idx + Size("elf") < EARLYALLOC_SZ /\ idx \in Nat
    BY <1>4, <2>2
  <2>4. /\ idx' = idx + Size("elf") /\ mboot'["cmdline"] = mboot["cmdline"]
        /\ "elf" \in info.flags => mboot'["elf"] = idx
    BY <1>3, <1>4, <2>1, <2>3, CopyMade
  <2>5. ASSUME "elf" \in info.flags
        PROVE  /\ info.sections[kernel_elf'.strtab] = ".strtab"
               /\ info.sections[kernel_elf'.symtab] = ".symtab"
    <3>1. mboot'["elf"] # Null
      BY <2>3, <2>4, <2>5 DEF Null
    <3>2. kernel_elf' = elf_from_multiboot
      BY <1>9, <2>5, <3>1 DEF CopyElf
    <3>3. ".strtab" \in Range(info.sections) /\ ".symtab" \in Range(info.sections)
      BY <2>5 DEF Reliable
    <3>4. /\ info.sections[SectionNamed(".strtab")] = ".strtab"
          /\ info.sections[SectionNamed(".symtab")] = ".symtab"
      BY <3>3, SectionIs DEF EarlyInv
    <3>5. QED
      BY <3>2, <3>4 DEF elf_from_multiboot
  <2>6. QED
    BY <1>1, <1>2, <2>1, <2>2, <2>4, <2>5 DEF LoaderInv
<1>10. CASE CopyMemory
  <2>1. at = "memory" /\ at' = "args" /\ kernel_elf' = kernel_elf
    BY <1>10 DEF CopyMemory
  <2>2. idx = Size("cmdline") + Size("mods") + Size("elf") /\ mboot["cmdline"] >= 0
    BY <2>1 DEF LoaderInv
  <2>3. idx + mmap_length + 4 < EARLYALLOC_SZ
    BY <1>4, <2>2
  <2>4. mboot' = [mboot EXCEPT !["mmap"] = Left]
    <3>1. idx + (mmap_length + 4) \in Nat /\ mmap_length + 4 \in Nat
      BY <1>4, <2>2
    <3>2. unsigned(mmap_length + 4) = mmap_length + 4
      BY <1>4, <2>2, <2>3, <3>1, SumFits, BootAssumption
    <3>3. unsigned(idx + (mmap_length + 4)) = idx + (mmap_length + 4)
      BY <1>4, <2>2, <2>3, <3>1, SumFits, BootAssumption
    <3>4. QED
      BY <1>4, <1>10, <2>2, <2>3, <3>2, <3>3 DEF CopyMemory
  <2>5. mboot'["mmap"] = Left /\ mboot'["cmdline"] = mboot["cmdline"]
    BY <1>3, <1>5, <2>4
  <2>6. QED
    BY <1>1, <2>1, <2>2, <2>5 DEF LoaderInv
<1>11. CASE Args
  <2>1. at = "args" /\ at' = "kmain" /\ UNCHANGED <<mboot, kernel_elf>>
    BY <1>11 DEF Args
  <2>2. mboot["cmdline"] \notin {Null, Left}
    BY <2>1 DEF LoaderInv, Null, Left
  <2>3. argv' = tokenize(" ", info.cmdline, MaxArgs)
    BY <1>11, <2>2 DEF Args
  <2>4. QED
    BY <1>1, <2>1, <2>3 DEF LoaderInv
<1>12. CASE /\ UNCHANGED <<idx, mboot, argv, kernel_elf>>
            /\ at' = at \/ (at \in {"kmain", "walk"} /\ at' \in {"kmain", "walk"})
  BY <1>1, <1>2, <1>12 DEF LoaderInv
<1>13. CASE Kmain \/ LoaderStopped \/ UNCHANGED allVars
  <2>1. UNCHANGED <<idx, mboot, argv, kernel_elf>> /\ at' = at
    BY <1>13 DEF Kmain, LoaderStopped, allVars, bootVars
  <2>2. QED
    BY <1>12, <2>1
<1>14. CASE init_memory \/ Walk \/ WalkDone
  <2>1. UNCHANGED <<idx, mboot, argv, kernel_elf>>
    BY <1>14, Zenon DEF init_memory, Walk, WalkDone
  <2>2. init_memory => at = "kmain" /\ at' \in {"kmain", "walk"}
    BY DEF init_memory
  <2>3. Walk => at = "walk" /\ at' = "walk"
    BY DEF Walk
  <2>4. WalkDone => at = "walk" /\ at' = "kmain"
    BY DEF WalkDone
  <2>5. QED
    BY <1>12, <1>14, <2>1, <2>2, <2>3, <2>4
<1>15. QED
  BY <1>6, <1>7, <1>8, <1>9, <1>10, <1>11, <1>13, <1>14 DEF BootNext

-----------------------------------------------------------------------------
(* The loop over the memory map                                            *)

(* The next entry is where the loop is.                                    *)
LEMMA EntryHere ==
    ASSUME NEW mmap \in Seq(Entry), NEW k \in 0 .. Len(mmap),
           Ends(mmap)[k] < Ends(mmap)[Len(mmap)]
    PROVE  /\ k + 1 \in 1 .. Len(mmap)
           /\ {n \in DOMAIN mmap : Ends(mmap)[n - 1] = Ends(mmap)[k]} = {k + 1}
           /\ Ends(mmap)[k + 1] = Ends(mmap)[k] + mmap[k + 1].size + 4
<1> DEFINE f == Ends(mmap)
<1>1. Len(mmap) \in Nat /\ DOMAIN mmap = 1 .. Len(mmap)
  BY EntryTypes
<1>2. /\ f \in [0 .. Len(mmap) -> Nat]
      /\ \A n \in 1 .. Len(mmap) : f[n] = f[n - 1] + mmap[n].size + 4
  BY EndsAre DEF Adds
<1>3. \A m, n \in 0 .. Len(mmap) : m < n => f[m] < f[n]
  BY EndsGrow
<1> HIDE DEF f
<1>4. k # Len(mmap)
  <2> SUFFICES ASSUME k = Len(mmap) PROVE FALSE
    OBVIOUS
  <2>1. f[k] \in Nat /\ f[k] < f[k]
    BY <1>2, SMTT(30) DEF f
  <2>2. QED
    BY <2>1
<1>5. k + 1 \in 1 .. Len(mmap) /\ (k + 1) - 1 = k
  <2>1. PICK l \in Nat : l = Len(mmap)
    BY <1>1
  <2>2. k \in 0 .. l /\ k # l
    BY <1>4, <2>1
  <2>3. k + 1 \in 1 .. l /\ (k + 1) - 1 = k
    BY <2>2
  <2>4. QED
    BY <2>1, <2>3
<1>6. \A n \in 1 .. Len(mmap) : f[n - 1] = f[k] => n = k + 1
  <2> SUFFICES ASSUME NEW n \in 1 .. Len(mmap), f[n - 1] = f[k], n # k + 1 PROVE FALSE
    OBVIOUS
  <2>1. n - 1 \in 0 .. Len(mmap) /\ (n - 1 < k \/ k < n - 1)
    BY <1>1
  <2>2. f[n - 1] < f[k] \/ f[k] < f[n - 1]
    BY <1>3, <2>1
  <2>3. f[k] \in Nat
    BY <1>2
  <2>4. QED
    BY <2>2, <2>3
<1>7. f[k + 1] = f[k] + mmap[k + 1].size + 4
  BY <1>2, <1>5
<1>8. {n \in DOMAIN mmap : f[n - 1] = f[k]} = {k + 1}
  BY <1>1, <1>5, <1>6
<1>9. QED
  BY <1>5, <1>7, <1>8 DEF f

(* An entry that is available is taken over after the ones before it.      *)
LEMMA TakeEntry ==
    ASSUME EarlyInv, WalkInv, info' = info, NEW k \in Nat, Took(k),
           k + 1 \in 1 .. Len(info.mmap), info.mmap[k + 1].available,
           ranges' = Append(ranges, [start |-> info.mmap[k + 1].addr,
                                     extent |-> info.mmap[k + 1].len]),
           extent' = Max({extent, info.mmap[k + 1].addr + info.mmap[k + 1].len})
    PROVE  /\ Took(k + 1)'
           /\ ranges' \in Seq([start : Nat, extent : Nat]) /\ extent' \in Nat
<1> DEFINE e == info.mmap[k + 1]
           r == [start |-> e.addr, extent |-> e.len]
<1>1. info.mmap \in Seq(Entry)
  BY InfoTypes DEF EarlyInv
<1>2. \A n \in 1 .. Len(info.mmap) : info.mmap[n].addr \in Nat /\ info.mmap[n].len \in Nat
  BY <1>1, EntryTypes
<1>3. e.addr \in Nat /\ e.len \in Nat /\ Len(info.mmap) \in Nat
  BY <1>1, <1>2, EntryTypes
<1>4. r \in [start : Nat, extent : Nat]
  BY <1>3
<1>5. ranges \in Seq([start : Nat, extent : Nat]) /\ extent \in Nat
  BY DEF WalkInv
<1>6. /\ Available(k + 1) = Available(k) \cup {k + 1}
      /\ Cardinality(Available(k + 1)) = Cardinality(Available(k)) + 1
  BY AvailableNext
<1>7. /\ Len(ranges) = Cardinality(Available(k))
      /\ \A n \in Available(k) :
            /\ ranges[Cardinality(Available(n))] =
                  [start |-> info.mmap[n].addr, extent |-> info.mmap[n].len]
            /\ info.mmap[n].addr + info.mmap[n].len <= extent
  BY DEF Took
<1>8. extent' \in Nat /\ extent' >= extent /\ extent' >= e.addr + e.len
  <2>1. e.addr + e.len \in Nat
    BY <1>3
  <2>2. QED
    BY <1>5, <2>1, MaxOfTwo
<1> DEFINE L == Len(ranges)
<1>9. ranges' = Append(ranges, r)
  OBVIOUS
<1> HIDE DEF r
<1>10. /\ ranges' \in Seq([start : Nat, extent : Nat]) /\ Len(ranges') = L + 1
       /\ ranges'[L + 1] = r /\ L \in Nat
       /\ \A i \in 1 .. L : ranges'[i] = ranges[i]
  BY <1>4, <1>5, <1>9
<1> HIDE DEF L
<1>11. Len(ranges') = Cardinality(Available(k + 1))
  BY <1>6, <1>7, <1>10 DEF L
<1>12. ASSUME NEW n \in Available(k + 1)
       PROVE  /\ ranges'[Cardinality(Available(n))] =
                    [start |-> info.mmap[n].addr, extent |-> info.mmap[n].len]
              /\ info.mmap[n].addr + info.mmap[n].len <= extent'
  <2>1. CASE n = k + 1
    <3>1. Cardinality(Available(n)) = L + 1
      BY <1>6, <1>7, <2>1 DEF L
    <3>2. r = [start |-> info.mmap[n].addr, extent |-> info.mmap[n].len]
      BY <2>1 DEF r
    <3>3. info.mmap[n].addr + info.mmap[n].len <= extent'
      BY <1>3, <1>8, <2>1
    <3>4. QED
      BY <1>10, <3>1, <3>2, <3>3
  <2>2. CASE n # k + 1
    <3>1. n \in Available(k)
      BY <1>6, <2>2
    <3>2. n \in 1 .. k /\ n \in Available(n) /\ n \in Nat /\ n <= k
      BY <3>1 DEF Available
    <3>3. /\ Cardinality(Available(n)) \in Nat /\ Cardinality(Available(n)) >= 1
          /\ Cardinality(Available(n)) <= Cardinality(Available(k))
      BY <3>2, AvailableFacts
    <3>4. Cardinality(Available(n)) \in 1 .. L
      BY <1>7, <1>10, <3>3 DEF L
    <3>5. ranges'[Cardinality(Available(n))] = ranges[Cardinality(Available(n))]
      BY <1>10, <3>4
    <3>6. info.mmap[n].addr \in Nat /\ info.mmap[n].len \in Nat
      <4>1. n \in 1 .. Len(info.mmap)
        BY <1>3, <3>2
      <4>2. QED
        BY <1>2, <4>1
    <3>7. info.mmap[n].addr + info.mmap[n].len <= extent'
      <4>1. info.mmap[n].addr + info.mmap[n].len <= extent
        BY <1>7, <3>1
      <4>2. PICK x \in Nat : x = info.mmap[n].addr + info.mmap[n].len
        BY <3>6
      <4>3. x <= extent'
        BY <1>5, <1>8, <4>1, <4>2
      <4>4. QED
        BY <4>2, <4>3
    <3>8. QED
      BY <1>7, <3>1, <3>5, <3>7
  <2>3. QED
    BY <2>1, <2>2
<1>13. \A n : Available(n)' = Available(n)
  BY DEF Available
<1>14. Took(k + 1)'
  BY <1>11, <1>12, <1>13 DEF Took
<1>15. QED
  BY <1>8, <1>10, <1>14

LEMMA TookStays ==
    ASSUME UNCHANGED <<info, ranges, extent>>, NEW k
    PROVE  Took(k)' <=> Took(k)
<1>1. \A n : Available(n)' = Available(n)
  BY DEF Available
<1>2. QED
  BY <1>1 DEF Took

LEMMA NotStarted ==
    ASSUME IInv, InInit(MemFeature)
    PROVE  ~IsStarted(MemFeature)
<1>1. stack \in Seq(Frames) /\ stack # <<>>
  BY DEF IInv, Types, InInit
<1>2. 1 \in DOMAIN stack /\ Head(stack) = stack[1]
  BY <1>1
<1>3. OnStack(MemFeature)
  BY <1>2 DEF InInit, OnStack
<1>4. MemFeature \in Feature
  BY BootAssumption
<1>5. QED
  BY <1>3, <1>4 DEF IInv, MarkInv

(* kmain starts x86/mem in no other way than by WalkDone.                  *)
LEMMA KmainStarts ==
    ASSUME IInv, Kmain
    PROVE  IsStarted(MemFeature)' <=> IsStarted(MemFeature)
<1>1. stack \in Seq(Frames) /\ started \in Seq(Feature)
  BY DEF IInv, Types
<1>2. CASE started' = started
  BY <1>2 DEF IsStarted
<1>3. CASE /\ stage = "init" /\ stack # <<>> /\ Head(stack).todo = <<>>
           /\ started' = Append(started, Head(stack).feature)
  <2> DEFINE f == Head(stack).feature
             L == Len(started)
  <2>1. f # MemFeature
    BY <1>3 DEF Kmain, InInit
  <2>2. f \in Feature
    <3>1. Head(stack) \in Frames
      BY <1>1, <1>3
    <3>2. QED
      BY <3>1 DEF Frames
  <2> HIDE DEF f
  <2>3. started' = Append(started, f)
    BY <1>3 DEF f
  <2>4. /\ DOMAIN started = 1 .. L /\ DOMAIN started' = 1 .. (L + 1) /\ L \in Nat
        /\ started'[L + 1] = f /\ \A n \in 1 .. L : started'[n] = started[n]
    BY <1>1, <2>2, <2>3
  <2> HIDE DEF L
  <2>5. \A n \in 1 .. (L + 1) : n \in 1 .. L \/ n = L + 1
    BY <2>4
  <2>6. 1 .. L \subseteq 1 .. (L + 1)
    BY <2>4
  <2>7. QED
    BY <2>1, <2>4, <2>5, <2>6 DEF IsStarted
<1>4. CASE \E r \in Results : RunInit(r)
  <2>1. PICK r \in Results : RunInit(r)
    BY <1>4
  <2>2. CASE r # 0 /\ started' = Append(started, Head(stack).feature)
    BY <1>3, <2>1, <2>2 DEF RunInit
  <2>3. CASE r = 0 /\ panic
    BY <1>2, <2>3 DEF panic
  <2>4. QED
    BY <2>1, <2>2, <2>3 DEF RunInit
<1>5. CASE NoInit
  BY <1>3, <1>5 DEF NoInit
<1>6. CASE resolve_feature \/ Resolved \/ init_features \/ NextPrereq \/ Platform_up \/ Stopped
  <2>1. started' = started
    BY <1>6 DEF resolve_feature, Resolved, init_features, NextPrereq, panic, Platform_up,
                Stopped, vars
  <2>2. QED
    BY <1>2, <2>1
<1>7. QED
  BY <1>4, <1>5, <1>6 DEF Kmain, Next

LEMMA WalkStep ==
    ASSUME EarlyInv, IInv, Reliable, LoaderInv, WalkInv, [BootNext]_allVars
    PROVE  WalkInv' /\ at' # "wild"
<1>1. info' = info
  BY InfoStays
<1>2. /\ info.mmap \in Seq(Entry) /\ Len(info.mmap) \in Nat
      /\ DOMAIN info.mmap = 1 .. Len(info.mmap)
  BY InfoTypes, EntryTypes DEF EarlyInv
<1>3. /\ ranges \in Seq([start : Nat, extent : Nat]) /\ extent \in Nat
      /\ at # "walk" /\ ~IsStarted(MemFeature) => entry = 0 /\ Took(0)
      /\ at = "walk" =>
            /\ InInit(MemFeature)
            /\ \E k \in 0 .. Len(info.mmap) : entry = Ends(info.mmap)[k] /\ Took(k)
      /\ IsStarted(MemFeature) => Took(Len(info.mmap))
      /\ at # "wild"
  BY DEF WalkInv, LoaderInv
<1>4. Ends(info.mmap)[0] = 0 /\ 0 \in 0 .. Len(info.mmap)
  BY <1>2, EndsAre DEF Adds
<1>5. CASE /\ UNCHANGED <<entry, ranges, extent>>
           /\ IsStarted(MemFeature)' <=> IsStarted(MemFeature)
           /\ at # "walk" /\ at' \notin {"walk", "wild"}
  <2>1. \A k : Took(k)' <=> Took(k)
    BY <1>1, <1>5, TookStays
  <2>2. QED
    BY <1>1, <1>3, <1>5, <2>1 DEF WalkInv
<1>6. CASE CheckMagic \/ CopyCmdline \/ CopyMods \/ CopyElf \/ CopyMemory \/ Args
  <2>1. UNCHANGED <<entry, ranges, extent, started>>
    BY <1>6, Zenon DEF CheckMagic, CopyCmdline, CopyMods, CopyElf, CopyMemory, Args, vars
  <2>2. at # "walk" /\ at' \notin {"walk", "wild"}
    BY <1>6 DEF CheckMagic, CopyCmdline, CopyMods, CopyElf, CopyMemory, Args
  <2>3. QED
    BY <1>5, <2>1, <2>2 DEF IsStarted
<1>7. CASE Kmain
  <2>1. UNCHANGED <<entry, ranges, extent>> /\ at = "kmain" /\ at' = "kmain"
    BY <1>7 DEF Kmain, bootVars
  <2>2. QED
    BY <1>5, <1>7, <2>1, KmainStarts
<1>8. CASE init_memory
  <2>1. at = "kmain" /\ InInit(MemFeature) /\ UNCHANGED <<entry, ranges, extent>>
    BY <1>8 DEF init_memory
  <2>2. ~IsStarted(MemFeature)
    BY <2>1, NotStarted
  <2>3. mboot["mmap"] # Null /\ "mmap" \in info.flags /\ "memory" \in info.flags
    <3>1. mboot["mmap"] = Left
      BY <2>1 DEF LoaderInv
    <3>2. Left # Null
      BY DEF Left, Null
    <3>3. QED
      BY <3>1, <3>2, SizeFacts
  <2>4. at' = "walk" /\ UNCHANGED vars
    BY <1>8, <2>3 DEF init_memory
  <2>5. InInit(MemFeature)' /\ ~IsStarted(MemFeature)'
    BY <2>1, <2>2, <2>4 DEF vars, InInit, IsStarted
  <2>6. entry = 0 /\ Took(0) /\ Took(0)'
    BY <1>1, <1>3, <2>1, <2>2, TookStays
  <2>7. \E k \in 0 .. Len(info.mmap) : entry' = Ends(info.mmap)[k] /\ Took(k)'
    BY <1>4, <2>1, <2>6
  <2>8. QED
    BY <1>1, <1>3, <2>1, <2>4, <2>5, <2>7 DEF WalkInv
<1>9. CASE Walk
  <2>1. at = "walk" /\ entry < mmap_length /\ UNCHANGED vars
    BY <1>9 DEF Walk
  <2>2. InInit(MemFeature) /\ ~IsStarted(MemFeature)
    BY <1>3, <2>1, NotStarted
  <2>3. InInit(MemFeature)' /\ ~IsStarted(MemFeature)'
    BY <2>1, <2>2 DEF vars, InInit, IsStarted
  <2>4. PICK k \in 0 .. Len(info.mmap) : entry = Ends(info.mmap)[k] /\ Took(k)
    BY <1>3, <2>1
  <2> DEFINE here == {n \in DOMAIN info.mmap : Offset(n) = entry}
             e == info.mmap[k + 1]
  <2>5. /\ k + 1 \in 1 .. Len(info.mmap) /\ here = {k + 1}
        /\ Ends(info.mmap)[k + 1] = Ends(info.mmap)[k] + e.size + 4
    <3>1. Ends(info.mmap)[k] < Ends(info.mmap)[Len(info.mmap)]
      BY <2>1, <2>4 DEF mmap_length
    <3>2. QED
      BY <1>2, <2>4, <3>1, EntryHere DEF Offset
  <2>6. k \in Nat /\ k + 1 \in Nat /\ k + 1 \in 0 .. Len(info.mmap)
    BY <1>2, <2>5
  <2>7. Max(here) = k + 1
    BY <2>5, <2>6, MaxOfOne
  <2>8. Len(ranges) = Cardinality(Available(k))
    BY <2>4 DEF Took
  <2>9. entry + Stride(e) = Ends(info.mmap)[k + 1]
    <3>1. e.size \in Nat
      BY <1>2, <2>5, EntryTypes
    <3>2. Ends(info.mmap)[k] \in Nat
      BY <1>2, EndsAre DEF Adds
    <3>3. QED
      BY <2>4, <2>5, <3>1, <3>2 DEF Stride
  <2>10. CASE ~e.available
    <3>1. entry' = entry + Stride(e) /\ UNCHANGED <<at, ranges, extent>>
      BY <1>9, <2>5, <2>7, <2>10 DEF Walk
    <3>2. Available(k + 1) = Available(k)
      BY <2>6, <2>10, AvailableNext
    <3>3. Took(k + 1)
      BY <2>4, <3>2 DEF Took
    <3>4. Took(k + 1)'
      BY <1>1, <3>1, <3>3, TookStays
    <3>5. \E j \in 0 .. Len(info.mmap) : entry' = Ends(info.mmap)[j] /\ Took(j)'
      BY <2>6, <2>9, <3>1, <3>4
    <3>6. QED
      BY <1>1, <1>3, <2>1, <2>3, <3>1, <3>5 DEF WalkInv
  <2>11. CASE e.available
    <3>1. ~(Len(ranges) >= MaxRanges)
      <4>1. Cardinality(Available(k + 1)) = Cardinality(Available(k)) + 1
        BY <2>6, <2>11, AvailableNext
      <4>2. Cardinality(Available(k + 1)) <= Cardinality(Available(Len(info.mmap)))
        <5>1. PICK l \in Nat : l = Len(info.mmap)
          BY <1>2
        <5>2. k + 1 <= l
          BY <2>5, <2>6, <5>1
        <5>3. Cardinality(Available(k + 1)) <= Cardinality(Available(l))
          BY <2>6, <5>2, AvailableFacts, Zenon
        <5>4. QED
          BY <5>1, <5>3
      <4>3. Cardinality(Available(Len(info.mmap))) <= MaxRanges
        BY DEF Reliable
      <4>4. /\ Cardinality(Available(k)) \in Nat /\ MaxRanges \in Nat
            /\ Cardinality(Available(Len(info.mmap))) \in Nat
        BY <1>2, <2>6, AvailableFacts, BootAssumption
      <4>5. QED
        BY <2>8, <4>1, <4>2, <4>3, <4>4
    <3>2. /\ ranges' = Append(ranges, [start |-> e.addr, extent |-> e.len])
          /\ extent' = Max({extent, e.addr + e.len})
          /\ entry' = entry + Stride(e) /\ at' = at
      BY <1>9, <2>5, <2>7, <2>11, <3>1 DEF Walk
    <3>3. /\ Took(k + 1)'
          /\ ranges' \in Seq([start : Nat, extent : Nat]) /\ extent' \in Nat
      BY <1>1, <2>4, <2>5, <2>6, <2>11, <3>2, TakeEntry
    <3>4. \E j \in 0 .. Len(info.mmap) : entry' = Ends(info.mmap)[j] /\ Took(j)'
      BY <2>6, <2>9, <3>2, <3>3
    <3>5. QED
      BY <1>1, <2>1, <2>3, <3>2, <3>3, <3>4 DEF WalkInv
  <2>12. QED
    BY <2>10, <2>11
<1>10. CASE WalkDone
  <2>1. /\ at = "walk" /\ at' = "kmain" /\ UNCHANGED <<entry, ranges, extent>>
        /\ entry >= mmap_length \/ Len(ranges) >= MaxEntries
        /\ RunInit(1)
    BY <1>10 DEF WalkDone
  <2>2. PICK k \in 0 .. Len(info.mmap) : entry = Ends(info.mmap)[k] /\ Took(k)
    BY <1>3, <2>1
  <2>3. Took(Len(info.mmap))
    <3>1. CASE entry >= mmap_length
      <4>1. k = Len(info.mmap)
        <5> SUFFICES ASSUME k # Len(info.mmap) PROVE FALSE
          OBVIOUS
        <5>1. k < Len(info.mmap) /\ Len(info.mmap) \in 0 .. Len(info.mmap)
          BY <1>2
        <5>2. Ends(info.mmap)[k] < Ends(info.mmap)[Len(info.mmap)]
          BY <1>2, <5>1, EndsGrow
        <5>3. Ends(info.mmap)[k] \in Nat /\ Ends(info.mmap)[Len(info.mmap)] \in Nat
          BY <1>2, <5>1, EndsAre DEF Adds
        <5>4. QED
          BY <2>2, <3>1, <5>2, <5>3 DEF mmap_length
      <4>2. QED
        BY <2>2, <4>1
    <3>2. CASE Len(ranges) >= MaxEntries
      <4>1. k \in Nat /\ k <= Len(info.mmap)
        BY <1>2
      <4>2. /\ Available(k) \subseteq Available(Len(info.mmap))
            /\ Cardinality(Available(k)) <= Cardinality(Available(Len(info.mmap)))
            /\ Cardinality(Available(k)) \in Nat
            /\ Cardinality(Available(Len(info.mmap))) \in Nat
            /\ IsFiniteSet(Available(Len(info.mmap)))
        BY <1>2, <4>1, AvailableFacts
      <4>3. /\ Cardinality(Available(Len(info.mmap))) <= MaxRanges
            /\ MaxRanges <= MaxEntries /\ MaxRanges \in Nat /\ MaxEntries \in Nat
        BY BootAssumption DEF Reliable
      <4>4. Cardinality(Available(k)) = Cardinality(Available(Len(info.mmap)))
        BY <2>2, <3>2, <4>2, <4>3 DEF Took
      <4>5. Available(k) = Available(Len(info.mmap))
        BY <4>2, <4>4, FS_Subset
      <4>6. QED
        BY <2>2, <4>5 DEF Took
    <3>3. QED
      BY <2>1, <3>1, <3>2
  <2>4. Took(Len(info.mmap))'
    BY <1>1, <2>1, <2>3, TookStays
  <2>5. IsStarted(MemFeature)'
    <3>1. started' = Append(started, MemFeature)
      BY <1>3, <2>1 DEF RunInit, InInit
    <3>2. started \in Seq(Feature) /\ MemFeature \in Feature
      BY BootAssumption DEF IInv, Types
    <3>3. Len(started) + 1 \in DOMAIN started' /\ started'[Len(started) + 1] = MemFeature
      BY <3>1, <3>2
    <3>4. QED
      BY <3>3 DEF IsStarted
  <2>6. QED
    BY <1>1, <1>3, <2>1, <2>4, <2>5 DEF WalkInv
<1>11. CASE UNCHANGED allVars
  <2>1. UNCHANGED <<at, entry, ranges, extent, started, stack, stage>>
    BY <1>11 DEF allVars, bootVars, vars
  <2>2. \A k : Took(k)' <=> Took(k)
    BY <1>1, <2>1, TookStays
  <2>3. /\ IsStarted(MemFeature)' <=> IsStarted(MemFeature)
        /\ InInit(MemFeature)' <=> InInit(MemFeature)
    BY <2>1 DEF IsStarted, InInit
  <2>4. QED
    BY <1>1, <1>3, <2>1, <2>2, <2>3 DEF WalkInv
<1>12. QED
  BY <1>6, <1>7, <1>8, <1>9, <1>10, <1>11 DEF BootNext, LoaderStopped

LEMMA NextTakenInv ==
    EarlyInv /\ IInv /\ TakenInv /\ [BootNext]_allVars => TakenInv'
<1> SUFFICES ASSUME EarlyInv, IInv, TakenInv, [BootNext]_allVars, Reliable'
             PROVE  LoaderInv' /\ WalkInv'
  BY DEF TakenInv
<1>1. info' = info
  BY InfoStays
<1>2. Reliable
  BY <1>1 DEF Reliable, Lengths, mmap_length, Available
<1>3. LoaderInv /\ WalkInv
  BY <1>2 DEF TakenInv
<1>4. WalkInv' /\ at' # "wild"
  BY <1>2, <1>3, WalkStep
<1>5. QED
  BY <1>2, <1>3, <1>4, LoaderStep

(* For everything that the boot loader may report and every table of       *)
(* features: from reliable data the kernel never runs wild, takes over     *)
(* exactly the memory that is available, in order, and finds the words of  *)
(* its command line and its symbols.                                       *)
THEOREM TakenOverAlways == BootSpec => []TakenOver
<1>1. BootInit => EarlyInv
  BY EarlyInvInit
<1>2. BootInit => TakenInv
  <2> SUFFICES ASSUME BootInit PROVE LoaderInv /\ WalkInv
    BY DEF TakenInv
  <2>1. at = "magic" /\ idx = 0 /\ entry = 0 /\ ranges = <<>> /\ extent = 0 /\ started = <<>>
    BY DEF BootInit, Init
  <2>2. ~IsStarted(MemFeature)
    BY <2>1 DEF IsStarted
  <2>3. Took(0)
    <3>1. Available(0) = {} /\ Cardinality(Available(0)) = 0
      BY AvailableFacts
    <3>2. QED
      BY <2>1, <3>1 DEF Took
  <2>4. QED
    BY <2>1, <2>2, <2>3 DEF LoaderInv, WalkInv
<1>3. TakenInv => TakenOver
  <2> SUFFICES ASSUME TakenInv, Reliable PROVE TakenOver
    BY DEF TakenOver
  <2>1. LoaderInv /\ WalkInv
    BY DEF TakenInv
  <2>2. MemFeature \in Range(started) => Took(Len(info.mmap))
    BY <2>1 DEF WalkInv, IsStarted, Range
  <2>3. QED
    BY <2>1, <2>2 DEF TakenOver, LoaderInv, Took
<1>4. QED
  BY <1>1, <1>2, <1>3, NextEarlyInv, NextTakenInv, BootIInv, PTL DEF BootSpec
=============================================================================
