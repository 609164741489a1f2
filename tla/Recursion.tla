----------------------------- MODULE Recursion ------------------------------
(***************************************************************************)
(* Recursion over trees, for proofs about functions that are defined by    *)
(* it.  The trees are ranked, so that what is below a tree has a smaller   *)
(* rank.  Then what holds of a tree whenever it holds of what is below it  *)
(* holds of them all, and an equation that gives the value for a tree from *)
(* the values for what is below it has a solution.                         *)
(***************************************************************************)
EXTENDS Naturals, WellFoundedInduction, NaturalsInduction, TLAPS

CONSTANTS
    Trees,        \* the trees
    Rank(_),      \* a number for each tree
    Below(_),     \* the trees that a tree is made of
    Value(_, _, _)   \* Value(x, f, t): the value for the tree t, with the
                     \* argument x, if f has the values for what is below t

Ranked ==
    \A t \in Trees :
        /\ Rank(t) \in Nat
        /\ Below(t) \subseteq Trees
        /\ \A u \in Below(t) : Rank(u) < Rank(t)

\* Of f nothing but its values below t makes a difference.
Local ==
    \A x, f, g : \A t \in Trees :
        (\A u \in Below(t) : f[u] = g[u]) => Value(x, f, t) = Value(x, g, t)

Solves(x, f, trees) == f = [t \in trees |-> Value(x, f, t)]

\* The trees whose ranks are below n.
Level(n) == {t \in Trees : Rank(t) < n}

-----------------------------------------------------------------------------

\* A set of natural numbers has a least one.
LEMMA LeastNumber ==
  ASSUME NEW N \in SUBSET Nat, N # {}
  PROVE  \E n \in N : \A m \in N : n <= m
<1> DEFINE less == {ss \in Nat \X Nat : ss[1] < ss[2]}
<1>1. IsWellFoundedOn(less, Nat)
  BY NatLessThanWellFounded, Zenon DEF OpToRel
<1> HIDE DEF less
<1>2. PICK n \in N : \A m \in N : ~(<<m, n>> \in less)
  BY <1>1, WFMin
<1>3. ASSUME NEW m \in N PROVE n <= m
  <2>1. m \in Nat /\ n \in Nat /\ ~(<<m, n>> \in less)
    BY <1>2
  <2> QED
    BY <2>1 DEF less
<1> QED
  BY <1>3

\* Induction over the trees.
THEOREM Induction ==
  ASSUME Ranked, NEW T,
         \A t \in Trees : (\A u \in Below(t) : u \in T) => t \in T
  PROVE  Trees \subseteq T
<1> SUFFICES ASSUME NEW x \in Trees, x \notin T PROVE FALSE
  OBVIOUS
<1> DEFINE N == {Rank(t) : t \in Trees \ T}
<1>1. N \in SUBSET Nat /\ N # {}
  BY DEF Ranked
<1>2. PICK n \in N : \A m \in N : n <= m
  BY <1>1, LeastNumber
<1>3. PICK t \in Trees \ T : n = Rank(t)
  OBVIOUS
<1>4. PICK u \in Below(t) : u \notin T
  BY <1>3
<1>5. u \in Trees /\ Rank(u) < Rank(t) /\ Rank(u) \in N
  BY <1>3, <1>4 DEF Ranked
<1> QED
  BY <1>1, <1>2, <1>3, <1>5

\* Two solutions have the same value for a tree they both have one for.
LEMMA Agreement ==
  ASSUME Ranked, Local, NEW x, NEW m \in Nat, NEW n \in Nat, NEW f, NEW g,
         Solves(x, f, Level(m)), Solves(x, g, Level(n)),
         NEW t \in Level(m) \cap Level(n)
  PROVE  f[t] = g[t]
<1> DEFINE T == {u \in Trees : u \in Level(m) \cap Level(n) => f[u] = g[u]}
<1>1. ASSUME NEW u \in Trees, \A v \in Below(u) : v \in T PROVE u \in T
  <2> SUFFICES ASSUME u \in Level(m) \cap Level(n) PROVE f[u] = g[u]
    OBVIOUS
  <2>1. ASSUME NEW v \in Below(u) PROVE v \in Level(m) \cap Level(n)
    BY DEF Ranked, Level
  <2>2. \A v \in Below(u) : f[v] = g[v]
    BY <1>1, <2>1
  <2>3. Value(x, f, u) = Value(x, g, u)
    BY <2>2 DEF Local
  <2>4. f[u] = Value(x, f, u) /\ g[u] = Value(x, g, u)
    BY Zenon DEF Solves
  <2> QED
    BY <2>3, <2>4
<1> HIDE DEF T
<1>2. Trees \subseteq T
  BY <1>1, Induction
<1> QED
  BY <1>2 DEF T, Level

\* From a solution for a level one for the next is made.
LEMMA NextLevel ==
  ASSUME Ranked, Local, NEW x, NEW n \in Nat, NEW f, Solves(x, f, Level(n))
  PROVE  \E g : Solves(x, g, Level(n + 1))
<1> DEFINE g == [t \in Level(n + 1) |-> Value(x, f, t)]
<1>1. ASSUME NEW t \in Level(n + 1) PROVE Value(x, f, t) = Value(x, g, t)
  <2>1. ASSUME NEW u \in Below(t) PROVE f[u] = g[u]
    <3>1. u \in Level(n) /\ u \in Level(n + 1)
      BY DEF Ranked, Level
    <3>2. f[u] = Value(x, f, u)
      BY <3>1, Zenon DEF Solves
    <3> QED
      BY <3>1, <3>2
  <2>2. t \in Trees
    BY DEF Level
  <2> HIDE DEF g
  <2> QED
    BY <2>1, <2>2 DEF Local
<1>2. g = [t \in Level(n + 1) |-> Value(x, g, t)]
  <2> [t \in Level(n + 1) |-> Value(x, f, t)] = [t \in Level(n + 1) |-> Value(x, g, t)]
    <3> HIDE DEF g
    <3> QED
      BY <1>1
  <2> QED
    OBVIOUS
<1> QED
  BY <1>2 DEF Solves

\* So every level has a solution.
LEMMA EveryLevel ==
  ASSUME Ranked, Local, NEW x
  PROVE  \A n \in Nat : \E f : Solves(x, f, Level(n))
<1> DEFINE N == {n \in Nat : ~\E f : Solves(x, f, Level(n))}
<1> SUFFICES ASSUME N # {} PROVE FALSE
  OBVIOUS
<1>1. PICK n \in N : \A m \in N : n <= m
  BY LeastNumber
<1>2. n # 0
  <2> DEFINE f == [t \in {} |-> Value(x, t, t)]
  <2>1. Level(0) = {}
    BY DEF Ranked, Level
  <2>2. f = [t \in Level(0) |-> Value(x, f, t)]
    BY <2>1
  <2> QED
    BY <2>2 DEF Solves
<1>3. n - 1 \in Nat /\ n - 1 \notin N /\ (n - 1) + 1 = n
  BY <1>1, <1>2
<1>4. PICK f : Solves(x, f, Level(n - 1))
  BY <1>3
<1>5. \E g : Solves(x, g, Level((n - 1) + 1))
  BY <1>3, <1>4, NextLevel
<1> QED
  BY <1>3, <1>5

\* The equation has a solution for all the trees.
THEOREM Existence ==
  ASSUME Ranked, Local, NEW x
  PROVE  \E f : Solves(x, f, Trees)
<1> DEFINE G(n) == CHOOSE f : Solves(x, f, Level(n))
           f == [t \in Trees |-> G(Rank(t) + 1)[t]]
<1>1. \A n \in Nat : Solves(x, G(n), Level(n))
  BY EveryLevel
<1> HIDE DEF G
<1>2. ASSUME NEW t \in Trees PROVE G(Rank(t) + 1)[t] = Value(x, f, t)
  <2>1. Rank(t) + 1 \in Nat /\ t \in Level(Rank(t) + 1)
    BY DEF Ranked, Level
  <2>2. G(Rank(t) + 1)[t] = Value(x, G(Rank(t) + 1), t)
    <3> DEFINE g == G(Rank(t) + 1)
    <3>1. Solves(x, g, Level(Rank(t) + 1))
      BY <1>1, <2>1
    <3> HIDE DEF g
    <3> g[t] = Value(x, g, t)
      BY <3>1, <2>1, Zenon DEF Solves
    <3> QED
      BY DEF g
  <2>3. ASSUME NEW u \in Below(t) PROVE f[u] = G(Rank(t) + 1)[u]
    <3>1. /\ u \in Trees
          /\ Rank(u) + 1 \in Nat
          /\ u \in Level(Rank(u) + 1) \cap Level(Rank(t) + 1)
      BY DEF Ranked, Level
    <3>2. G(Rank(u) + 1)[u] = G(Rank(t) + 1)[u]
      BY <1>1, <2>1, <3>1, Agreement
    <3> QED
      BY <3>1, <3>2
  <2> HIDE DEF f
  <2> QED
    BY <2>2, <2>3 DEF Local
<1>3. f = [t \in Trees |-> Value(x, f, t)]
  <2> [t \in Trees |-> G(Rank(t) + 1)[t]] = [t \in Trees |-> Value(x, f, t)]
    <3> HIDE DEF f
    <3> QED
      BY <1>2
  <2> QED
    OBVIOUS
<1> QED
  BY <1>3 DEF Solves
=============================================================================
