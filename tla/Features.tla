------------------------------ MODULE Features ------------------------------
(***************************************************************************)
(* Start-up of the kernel's features (kmain.c): resolving the names of the *)
(* prerequisites, and the depth-first recursion of init_feature.           *)
(*                                                                         *)
(* Features are 1 .. N in the order of the linker's section `features'.    *)
(* The recursion is a stack of calls of init_feature; one step handles one *)
(* prerequisite or runs one init function.                                 *)
(***************************************************************************)
EXTENDS Integers, Sequences, FiniteSetsExt

CONSTANTS
    N,              \* the number of features
    Tables,         \* the feature tables that may be linked in
    Results         \* what an init function may return

Feature == 1 .. N

(* The feature of a prerequisite; 0 is NULL.                               *)
Link == Feature \cup {0}

ASSUME TableAssumption ==
    /\ N \in Nat
    /\ \A t \in Tables :
          /\ DOMAIN t.name = Feature
          /\ DOMAIN t.required = Feature
          /\ DOMAIN t.load_after = Feature
          /\ \A f \in Feature : /\ t.required[f] \in Seq(Range(t.required[f]))
                                /\ t.load_after[f] \in Seq(Range(t.load_after[f]))
          /\ t.init \in [Feature -> BOOLEAN]
    /\ Results \subseteq Int

VARIABLES
    table,          \* name, required, load_after, and whether init is set
    stage,          \* "resolve", "init", "up" or "panic"
    next,           \* m of the loop in init_features
    state,          \* m->state
    feature,        \* p->feature for the prerequisites, hard ones first
    stack,          \* calls of init_feature: the feature and the rest of its loops
    started,        \* ghost: the features that are done, in order
    result          \* ghost: what it returned

vars == <<table, stage, next, state, feature, stack, started, result>>

UNINIT == 0
RESOLVED == 1
INIT == 2

(* The first feature of that name.                                         *)
find_feature(name) ==
    LET found == {f \in Feature : table.name[f] = name}
    IN  IF found = {} THEN 0 ELSE Min(found)

(* Mutant: only the hard prerequisites.                                    *)
PrereqsHard(f) ==
    [n \in 1 .. Len(table.required[f]) |->
        [feature |-> feature[f][n], hard |-> TRUE]]

(* The loops of init_feature(f) over both lists.                           *)
Prereqs(f) ==
    [n \in 1 .. (Len(table.required[f]) + Len(table.load_after[f])) |->
        [feature |-> feature[f][n], hard |-> n <= Len(table.required[f])]]

Init ==
    /\ table \in Tables
    /\ stage = "resolve"
    /\ next = 1
    /\ state = [f \in Feature |-> UNINIT]
    /\ feature = [f \in Feature |-> <<>>]
    /\ stack = <<>>
    /\ started = <<>>
    /\ result = [f \in Feature |-> 0]

(* The second loop of init_features.                                       *)
resolve_feature ==
    /\ stage = "resolve"
    /\ next <= N
    /\ LET names == table.required[next] \o table.load_after[next]
       IN  feature' = [feature EXCEPT ![next] =
                          [n \in DOMAIN names |-> find_feature(names[n])]]
    /\ state' = [state EXCEPT ![next] = RESOLVED]
    /\ next' = next + 1
    /\ UNCHANGED <<table, stage, stack, started, result>>

Resolved ==
    /\ stage = "resolve"
    /\ next > N
    /\ stage' = "init"
    /\ next' = 1
    /\ UNCHANGED <<table, state, feature, stack, started, result>>

(* A call of init_feature(f) from a stack of calls st: it returns at once, *)
(* or the feature is marked and its loops begin.                           *)
Call(f, st) ==
    IF state[f] >= INIT
    THEN stack' = st /\ UNCHANGED state
    ELSE /\ state' = [state EXCEPT ![f] = INIT]
         /\ stack' = <<[feature |-> f, todo |-> Prereqs(f)]>> \o st

(* The third loop of init_features.                                        *)
init_features ==
    /\ stage = "init"
    /\ stack = <<>>
    /\ next <= N
    /\ Call(next, <<>>)
    /\ next' = next + 1
    /\ UNCHANGED <<table, stage, feature, started, result>>

Platform_up ==
    /\ stage = "init"
    /\ stack = <<>>
    /\ next > N
    /\ stage' = "up"
    /\ UNCHANGED <<table, next, state, feature, stack, started, result>>

panic ==
    /\ stage' = "panic"
    /\ UNCHANGED <<table, next, state, feature, stack, started>>

(* Mutant: a missing hard prerequisite is passed over.                     *)
NextPrereqLenient ==
    /\ stage = "init"
    /\ stack # <<>> /\ Head(stack).todo # <<>>
    /\ LET p == Head(Head(stack).todo)
           st == [stack EXCEPT ![1].todo = Tail(@)]
       IN  /\ IF p.feature = 0 THEN stack' = st /\ UNCHANGED state ELSE Call(p.feature, st)
           /\ UNCHANGED <<table, stage, next, feature, started, result>>

(* Mutant: the loops start over after each call.                           *)
NextPrereqAgain ==
    /\ stage = "init"
    /\ stack # <<>> /\ Head(stack).todo # <<>>
    /\ LET p == Head(Head(stack).todo)
       IN  /\ IF p.feature = 0 THEN UNCHANGED <<stack, state>> ELSE Call(p.feature, stack)
           /\ UNCHANGED <<table, stage, next, feature, started, result>>

(* The next prerequisite of the innermost call.                            *)
NextPrereq ==
    /\ stage = "init"
    /\ stack # <<>> /\ Head(stack).todo # <<>>
    /\ LET p == Head(Head(stack).todo)
           st == [stack EXCEPT ![1].todo = Tail(@)]
       IN  \/ /\ p.feature = 0 /\ p.hard
              /\ panic /\ UNCHANGED result
           \/ /\ p.feature = 0 /\ ~p.hard
              /\ stack' = st
              /\ UNCHANGED <<table, stage, next, state, feature, started, result>>
           \/ /\ p.feature # 0
              /\ Call(p.feature, st)
              /\ UNCHANGED <<table, stage, next, feature, started, result>>

(* The prerequisites are done: m->init().                                  *)
RunInit(r) ==
    /\ stage = "init"
    /\ stack # <<>> /\ Head(stack).todo = <<>>
    /\ table.init[Head(stack).feature]
    /\ LET f == Head(stack).feature
       IN  /\ result' = [result EXCEPT ![f] = r]
           /\ \/ /\ r # 0
                 /\ started' = Append(started, f)
                 /\ stack' = Tail(stack)
                 /\ UNCHANGED <<table, stage, next, state, feature>>
              \/ r = 0 /\ panic

NoInit ==
    /\ stage = "init"
    /\ stack # <<>> /\ Head(stack).todo = <<>>
    /\ ~table.init[Head(stack).feature]
    /\ started' = Append(started, Head(stack).feature)
    /\ stack' = Tail(stack)
    /\ UNCHANGED <<table, stage, next, state, feature, result>>

(* kmain goes idle, or the machine has stopped.                            *)
Stopped == stage \in {"up", "panic"} /\ UNCHANGED vars

Next ==
    \/ resolve_feature
    \/ Resolved
    \/ init_features
    \/ NextPrereq
    \/ \E r \in Results : RunInit(r)
    \/ NoInit
    \/ Platform_up
    \/ Stopped

Spec == Init /\ [][Next]_vars

-----------------------------------------------------------------------------
(* Properties                                                              *)

StartedBefore(f, g) ==
    \E m, n \in DOMAIN started : m < n /\ started[m] = f /\ started[n] = g

(* The features that f names and that are there.                           *)
After(f) == {feature[f][n] : n \in DOMAIN feature[f]} \ {0}

(* No feature has to come before itself.                                   *)
Acyclic ==
    \E rank \in [Feature -> Feature] : \A f \in Feature : \A g \in After(f) : rank[g] < rank[f]

TypeOK ==
    /\ table \in Tables
    /\ stage \in {"resolve", "init", "up", "panic"}
    /\ next \in 1 .. (N + 1)
    /\ state \in [Feature -> {UNINIT, RESOLVED, INIT}]
    /\ \A f \in Feature : \A n \in DOMAIN feature[f] : feature[f][n] \in Link
    /\ \A n \in DOMAIN stack : stack[n].feature \in Feature
    /\ \A n \in DOMAIN started : started[n] \in Feature
    /\ result \in [Feature -> Results \cup {0}]

(* No init function runs twice, and when the platform is up all have run,  *)
(* with every hard prerequisite there; the calls of init_feature are never *)
(* nested deeper than there are features, even if the table has a cycle.   *)
StartedOnce ==
    /\ TypeOK
    /\ Len(stack) <= N
    /\ \A m, n \in DOMAIN started : started[m] = started[n] => m = n
    /\ stage = "up" =>
          /\ Len(started) = N
          /\ \A f \in Feature : \A n \in 1 .. Len(table.required[f]) : feature[f][n] # 0

(* "if available then this module must be loaded after them" (hal.h), and  *)
(* so for the hard prerequisites: unless the table has a cycle, a feature  *)
(* starts after all features that it names.                                *)
InOrder ==
    Acyclic => \A n \in DOMAIN started : \A g \in After(started[n]) :
                   StartedBefore(g, started[n])
=============================================================================
