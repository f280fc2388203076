--------------------------------- MODULE Sums ---------------------------------
(***************************************************************************)
(* Lemmas about SumFunction of module Functions, over a finite domain: the *)
(* balances of this project are such sums.  The induction they rest on is  *)
(* that of FiniteSetTheorems, in the form of a least counterexample, which *)
(* is about a set and not about an operator.                               *)
(***************************************************************************)
EXTENDS Integers, FiniteSets, Functions, FiniteSetTheorems, TLAPS

\* The element a sum over s takes first.
Pick(s) == CHOOSE x \in s : TRUE

\* g is the function that the sums of f over the subsets of S define recursively.
SumsOf(g, f, S) ==
  g = [s \in SUBSET S |-> IF s = {} THEN 0 ELSE f[Pick(s)] + g[s \ {Pick(s)}]]

------------------------------------------------------------------------------
(* Induction                                                               *)

\* A set of subsets of S holds all of them if it holds one whenever it holds those
\* that lie strictly in it.
LEMMA SubsetInduction ==
  ASSUME NEW S, IsFiniteSet(S), NEW T,
         ASSUME NEW s \in SUBSET S, \A u \in SUBSET s : u # s => u \in T
         PROVE  s \in T
  PROVE  SUBSET S \subseteq T
<1> DEFINE Left == (SUBSET S) \ T
<1> SUFFICES ASSUME Left # {} PROVE FALSE
  OBVIOUS
<1>1. IsWellFoundedOn(StrictSubsetOrdering(S), FiniteSubsetsOf(S))
  BY FS_StrictSubsetOrderingWellFounded
<1>2. Left \subseteq FiniteSubsetsOf(S)
  BY FS_FiniteSubsetsOfFinite
<1> HIDE DEF Left
<1>3. PICK s \in Left : \A u \in Left : ~(<<u, s>> \in StrictSubsetOrdering(S))
  BY <1>1, <1>2, WFMin
<1> USE DEF Left
<1>4. \A u \in SUBSET s : u # s => u \in T
  BY <1>3 DEF StrictSubsetOrdering
<1> QED BY <1>3, <1>4

\* It is enough to go from a set without its first element to the set.
LEMMA PickInduction ==
  ASSUME NEW S, IsFiniteSet(S), NEW T, {} \in T,
         ASSUME NEW s \in SUBSET S, s # {}, Pick(s) \in s, s \ {Pick(s)} \in T
         PROVE  s \in T
  PROVE  SUBSET S \subseteq T
<1>1. ASSUME NEW s \in SUBSET S, \A u \in SUBSET s : u # s => u \in T PROVE s \in T
  <2>1. CASE s = {}
    BY <2>1
  <2>2. CASE s # {}
    <3>1. Pick(s) \in s
      BY <2>2 DEF Pick
    <3>2. s \ {Pick(s)} \in T
      BY <1>1, <3>1
    <3> QED BY <2>2, <3>1, <3>2
  <2> QED BY <2>1, <2>2
<1> QED BY <1>1, SubsetInduction

------------------------------------------------------------------------------
(* The recursive definition defines one function                           *)

LEMMA SumsAreUnique ==
  ASSUME NEW S, IsFiniteSet(S), NEW R, NEW Q, S \subseteq R, S \subseteq Q,
         NEW f, NEW f2, \A x \in S : f[x] = f2[x],
         NEW g, SumsOf(g, f, R), NEW h, SumsOf(h, f2, Q)
  PROVE  g[S] = h[S]
<1> DEFINE T == {s \in SUBSET S : g[s] = h[s]}
<1>1. {} \in T
  BY DEF SumsOf
<1>2. ASSUME NEW s \in SUBSET S, s # {}, Pick(s) \in s, s \ {Pick(s)} \in T PROVE s \in T
  <2>1. g[s] = f[Pick(s)] + g[s \ {Pick(s)}]
    BY <1>2 DEF SumsOf
  <2>2. h[s] = f2[Pick(s)] + h[s \ {Pick(s)}]
    BY <1>2 DEF SumsOf
  <2> QED BY <1>2, <2>1, <2>2
<1> HIDE DEF T
<1>3. SUBSET S \subseteq T
  BY <1>1, <1>2, PickInduction
<1> QED BY <1>3 DEF T

LEMMA SumsExist ==
  ASSUME NEW S, IsFiniteSet(S), NEW f
  PROVE  \E g : SumsOf(g, f, S)
<1> DEFINE T == {s \in SUBSET S : \E g : SumsOf(g, f, s)}
<1>1. ASSUME NEW s \in SUBSET S, \A u \in SUBSET s : u # s => u \in T PROVE s \in T
  <2> DEFINE G(u) == CHOOSE g : SumsOf(g, f, u)
             g == [u \in SUBSET s |->
                     IF u = {} THEN 0 ELSE f[Pick(u)] + G(u \ {Pick(u)})[u \ {Pick(u)}]]
  <2>1. \A u \in SUBSET s : u # s => SumsOf(G(u), f, u)
    BY <1>1
  <2>2. \A u \in SUBSET s : IsFiniteSet(u)
    BY FS_Subset
  <2> HIDE DEF G
  <2>3. ASSUME NEW u \in SUBSET s, u # {} PROVE g[u \ {Pick(u)}] = G(u \ {Pick(u)})[u \ {Pick(u)}]
    <3> DEFINE r == u \ {Pick(u)}
               q == r \ {Pick(r)}
    <3>1. Pick(u) \in u /\ r \in SUBSET s /\ r # s
      BY <2>3 DEF Pick
    <3>2. SumsOf(G(r), f, r)
      BY <2>1, <3>1
    <3>3. CASE r = {}
      <4>1. G(r)[r] = 0
        BY <3>2, <3>3 DEF SumsOf
      <4> QED BY <3>1, <3>3, <4>1
    <3>4. CASE r # {}
      <4>1. q \in SUBSET s /\ q # s /\ q \subseteq r
        BY <3>1
      <4>2. SumsOf(G(q), f, q) /\ IsFiniteSet(q)
        BY <2>1, <2>2, <4>1
      <4> HIDE DEF q
      <4>3. G(q)[q] = G(r)[q]
        BY <3>2, <4>1, <4>2, SumsAreUnique
      <4> USE DEF q
      <4>4. G(r)[r] = f[Pick(r)] + G(r)[q]
        BY <3>2, <3>4 DEF SumsOf
      <4>5. g[r] = f[Pick(r)] + G(q)[q]
        BY <3>1, <3>4
      <4> QED BY <4>3, <4>4, <4>5
    <3> QED BY <3>3, <3>4
  <2>4. SumsOf(g, f, s)
    <3>1. \A u \in SUBSET s :
            g[u] = IF u = {} THEN 0 ELSE f[Pick(u)] + g[u \ {Pick(u)}]
      BY <2>3
    <3> HIDE DEF g
    <3>2. g = [u \in SUBSET s |-> g[u]]
      BY DEF g
    <3> QED BY <3>1, <3>2 DEF SumsOf
  <2> QED BY <2>4
<1> HIDE DEF T
<1>2. SUBSET S \subseteq T
  BY <1>1, SubsetInduction
<1> QED BY <1>2 DEF T

LEMMA SumIsRecursive ==
  ASSUME NEW f, IsFiniteSet(DOMAIN f)
  PROVE  \E g : SumsOf(g, f, DOMAIN f) /\ SumFunction(f) = g[DOMAIN f]
<1> DEFINE S == DOMAIN f
           G == CHOOSE g : SumsOf(g, f, S)
<1>1. SumFunctionOnSet(f, S) = G[S]
  BY DEF SumFunctionOnSet, FoldFunctionOnSet, MapThenFoldSet, SumsOf, Pick
<1>2. SumsOf(G, f, S)
  BY SumsExist
<1> QED BY <1>1, <1>2 DEF SumFunction

------------------------------------------------------------------------------
(* What a sum is                                                           *)

\* A sum of natural numbers is one.
LEMMA SumType ==
  ASSUME NEW S, IsFiniteSet(S), NEW f \in [S -> Nat]
  PROVE  SumFunction(f) \in Nat
<1>1. PICK g : SumsOf(g, f, S) /\ SumFunction(f) = g[S]
  BY SumIsRecursive
<1> DEFINE T == {s \in SUBSET S : g[s] \in Nat}
<1>2. {} \in T
  BY <1>1 DEF SumsOf
<1>3. ASSUME NEW s \in SUBSET S, s # {}, Pick(s) \in s, s \ {Pick(s)} \in T PROVE s \in T
  <2>1. g[s] = f[Pick(s)] + g[s \ {Pick(s)}]
    BY <1>1, <1>3 DEF SumsOf
  <2> QED BY <1>3, <2>1
<1> HIDE DEF T
<1>4. SUBSET S \subseteq T
  BY <1>2, <1>3, PickInduction
<1> QED BY <1>1, <1>4 DEF T

\* A sum of zeros is zero.
LEMMA SumOfZeros ==
  ASSUME NEW S, IsFiniteSet(S), NEW f, f = [x \in S |-> 0]
  PROVE  SumFunction(f) = 0
<1>1. PICK g : SumsOf(g, f, S) /\ SumFunction(f) = g[S]
  BY SumIsRecursive
<1> DEFINE T == {s \in SUBSET S : g[s] = 0}
<1>2. {} \in T
  BY <1>1 DEF SumsOf
<1>3. ASSUME NEW s \in SUBSET S, s # {}, Pick(s) \in s, s \ {Pick(s)} \in T PROVE s \in T
  <2>1. g[s] = f[Pick(s)] + g[s \ {Pick(s)}]
    BY <1>1, <1>3 DEF SumsOf
  <2> QED BY <1>3, <2>1
<1> HIDE DEF T
<1>4. SUBSET S \subseteq T
  BY <1>2, <1>3, PickInduction
<1> QED BY <1>1, <1>4 DEF T

\* A sum changes as the one summand does that changes.
LEMMA SumOfChange ==
  ASSUME NEW S, IsFiniteSet(S), NEW f \in [S -> Nat], NEW f2 \in [S -> Nat], NEW x \in S,
         \A y \in S \ {x} : f2[y] = f[y]
  PROVE  SumFunction(f2) - f2[x] = SumFunction(f) - f[x]
<1>1. PICK g : SumsOf(g, f, S) /\ SumFunction(f) = g[S]
  BY SumIsRecursive
<1>2. PICK h : SumsOf(h, f2, S) /\ SumFunction(f2) = h[S]
  BY SumIsRecursive
<1> DEFINE Part(s, e) == IF x \in s THEN e[x] ELSE 0
           T == {s \in SUBSET S : /\ g[s] \in Nat /\ h[s] \in Nat
                                  /\ h[s] - Part(s, f2) = g[s] - Part(s, f)}
<1>3. {} \in T
  BY <1>1, <1>2 DEF SumsOf
<1>4. ASSUME NEW s \in SUBSET S, s # {}, Pick(s) \in s, s \ {Pick(s)} \in T PROVE s \in T
  <2> DEFINE p == Pick(s)
             r == s \ {p}
  <2>1. g[s] = f[p] + g[r] /\ h[s] = f2[p] + h[r]
    BY <1>1, <1>2, <1>4 DEF SumsOf
  <2>2. p \in S /\ f[p] \in Nat /\ f2[p] \in Nat /\ f[x] \in Nat /\ f2[x] \in Nat
    BY <1>4
  <2>3. g[r] \in Nat /\ h[r] \in Nat /\ h[r] - Part(r, f2) = g[r] - Part(r, f)
    BY <1>4
  <2>4. CASE p = x
    <3>1. x \in s /\ x \notin r
      BY <1>4, <2>4
    <3> QED BY <2>1, <2>2, <2>3, <2>4, <3>1
  <2>5. CASE p # x
    <3>1. f2[p] = f[p] /\ (x \in s <=> x \in r)
      BY <2>2, <2>5
    <3> QED BY <2>1, <2>2, <2>3, <3>1
  <2> QED BY <2>4, <2>5
<1> HIDE DEF T
<1>5. SUBSET S \subseteq T
  BY <1>3, <1>4, PickInduction
<1> QED BY <1>1, <1>2, <1>5 DEF T

===============================================================================
