---------------------------- MODULE SumTheorems -----------------------------
(* Sums over finite sets, as the models use them for tokens, amounts and   *)
(* movements: what SumFunctionOnSet is for any set and any integers.       *)
(*                                                                         *)
(* The induction theorems of the library take the property as an operator; *)
(* here it is the set of those that have it.                               *)
EXTENDS Functions, FiniteSetTheorems, TLAPS

(* A set of naturals that is not empty has a least element.                *)
LEMMA LeastNat ==
    ASSUME NEW T \in SUBSET Nat, T # {}
    PROVE  \E n \in T : \A m \in T : n <= m
<1>1. PICK n \in T : \A m \in T : <<m, n>> \notin OpToRel(<, Nat)
  BY WFMin, NatLessThanWellFounded
<1>2. ASSUME NEW m \in T PROVE n <= m
  <2>1. n \in Nat /\ m \in Nat
    OBVIOUS
  <2>2. ~(m < n)
    BY <2>1, <1>1 DEF OpToRel
  <2> QED
    BY <2>1, <2>2
<1> QED
  BY <1>2

(* Induction over the subsets of a finite set: a subset is in P if all are *)
(* that have one element less.                                             *)
LEMMA SubsetRule ==
    ASSUME NEW S, IsFiniteSet(S), NEW P,
           \A T \in SUBSET S : (\A x \in T : T \ {x} \in P) => T \in P
    PROVE  \A T \in SUBSET S : T \in P
<1> DEFINE Missed == {U \in SUBSET S : U \notin P}
           Sizes == {Cardinality(T) : T \in Missed}
<1> SUFFICES ASSUME Missed # {} PROVE FALSE
  OBVIOUS
<1>1. Sizes \in SUBSET Nat /\ Sizes # {}
  <2>1. \A T \in SUBSET S : Cardinality(T) \in Nat
    BY FS_Subset, FS_CardinalityType
  <2> QED
    BY <2>1
<1>2. PICK n \in Sizes : \A m \in Sizes : n <= m
  BY <1>1, LeastNat
<1>3. PICK T \in Missed : n = Cardinality(T)
  BY <1>2
<1>4. ASSUME NEW x \in T PROVE T \ {x} \in P
  <2> SUFFICES ASSUME T \ {x} \notin P PROVE FALSE
    OBVIOUS
  <2>1. T \ {x} \in Missed
    OBVIOUS
  <2>2. n <= Cardinality(T \ {x})
    BY <1>2, <2>1
  <2>3. IsFiniteSet(T)
    BY FS_Subset
  <2>4. Cardinality(T \ {x}) = Cardinality(T) - 1 /\ Cardinality(T) \in Nat
    BY <2>3, FS_RemoveElement, FS_CardinalityType
  <2> QED
    BY <2>2, <2>4, <1>3
<1> QED
  BY <1>4

Picked(s) == CHOOSE x \in s : TRUE
Plus(f, s, g) == IF s = {} THEN 0 ELSE f[Picked(s)] + g[s \ {Picked(s)}]
Adds(f, S, g) == g = [s \in SUBSET S |-> Plus(f, s, g)]

LEMMA PickedIn == ASSUME NEW s, s # {} PROVE Picked(s) \in s
BY DEF Picked

LEMMA SumIs ==
    ASSUME NEW f, NEW S
    PROVE  SumFunctionOnSet(f, S) = (CHOOSE g : Adds(f, S, g))[S]
BY DEF SumFunctionOnSet, FoldFunctionOnSet, MapThenFoldSet, Adds, Plus, Picked

(* The recursion has a solution: one that is right for the sets of up to n *)
(* elements can be made right for those of n + 1.                          *)
LEMMA SumExists ==
    ASSUME NEW f, NEW S, IsFiniteSet(S)
    PROVE  \E g : Adds(f, S, g)
<1> DEFINE RightUpTo(n, g) ==
               \A s \in SUBSET S : Cardinality(s) <= n => g[s] = Plus(f, s, g)
           Reached == {n \in Nat : \E g : RightUpTo(n, g)}
<1>0. \A s \in SUBSET S : IsFiniteSet(s) /\ Cardinality(s) \in Nat
  BY FS_Subset, FS_CardinalityType
<1>1. 0 \in Reached
  <2> DEFINE g == [s \in SUBSET S |-> 0]
  <2>1. ASSUME NEW s \in SUBSET S, Cardinality(s) <= 0 PROVE g[s] = Plus(f, s, g)
    <3>1. s = {}
      BY <1>0, <2>1, FS_EmptySet
    <3> QED
      BY <3>1 DEF Plus
  <2>2. RightUpTo(0, g)
    BY <2>1
  <2> HIDE DEF RightUpTo, g
  <2> QED
    BY <2>2
<1>2. ASSUME NEW n \in Nat, n \in Reached PROVE n + 1 \in Reached
  <2>1. PICK g : RightUpTo(n, g)
    BY <1>2
  <2> DEFINE h == [s \in SUBSET S |-> IF Cardinality(s) <= n THEN g[s] ELSE Plus(f, s, g)]
  <2>2. ASSUME NEW s \in SUBSET S, Cardinality(s) <= n + 1 PROVE h[s] = Plus(f, s, h)
    <3>1. h[s] = Plus(f, s, g)
      BY <2>1
    <3>2. CASE s = {}
      BY <3>1, <3>2 DEF Plus
    <3>3. CASE s # {}
      <4> DEFINE t == s \ {Picked(s)}
      <4>1. t \in SUBSET S /\ Picked(s) \in s
        BY <3>3, PickedIn
      <4>2. Cardinality(t) <= n
        BY <1>0, <2>2, <4>1, FS_RemoveElement
      <4>3. h[t] = g[t]
        BY <4>1, <4>2
      <4> QED
        BY <3>1, <3>3, <4>3 DEF Plus
    <3> QED
      BY <3>2, <3>3
  <2>3. RightUpTo(n + 1, h)
    BY <2>2
  <2> HIDE DEF RightUpTo, h
  <2> QED
    BY <2>3
<1>3. Nat \subseteq Reached
  <2> DEFINE Missed == Nat \ Reached
  <2> SUFFICES ASSUME Missed # {} PROVE FALSE
    OBVIOUS
  <2>1. PICK n \in Missed : \A m \in Missed : n <= m
    <3> HIDE DEF Reached
    <3> QED
      BY LeastNat
  <2>2. n # 0
    BY <1>1
  <2>3. n - 1 \in Nat /\ n \in Nat /\ n = (n - 1) + 1
    BY <2>2
  <2>4. n - 1 \in Reached
    <3> HIDE DEF Reached
    <3> QED
      BY <2>1, <2>3
  <2>5. n \in Reached
    <3> HIDE DEF Reached
    <3> QED
      BY <1>2, <2>3, <2>4
  <2> QED
    BY <2>5
<1>4. PICK g : RightUpTo(Cardinality(S), g)
  <2> Cardinality(S) \in Reached
    <3> HIDE DEF Reached
    <3> QED
      BY <1>0, <1>3
  <2> QED
    OBVIOUS
<1> DEFINE h == [s \in SUBSET S |-> g[s]]
<1>5. ASSUME NEW s \in SUBSET S PROVE h[s] = Plus(f, s, h)
  <2>1. Cardinality(s) <= Cardinality(S)
    BY FS_Subset
  <2>2. g[s] = Plus(f, s, g)
    BY <1>4, <2>1
  <2>3. s \ {Picked(s)} \in SUBSET S
    OBVIOUS
  <2> QED
    BY <2>2, <2>3 DEF Plus
<1>6. Adds(f, S, h)
  BY <1>5 DEF Adds
<1> HIDE DEF h
<1> QED
  BY <1>6

(* And only one, whatever set it is taken over.                            *)
LEMMA SumUnique ==
    ASSUME NEW f, NEW T, IsFiniteSet(T), NEW S \in SUBSET T,
           NEW g, NEW h, Adds(f, S, g), Adds(f, T, h), NEW t \in SUBSET S
    PROVE  g[t] = h[t]
<1> DEFINE Same == {s \in SUBSET S : g[s] = h[s]}
<1>1. ASSUME NEW s \in SUBSET S, \A x \in s : s \ {x} \in Same
      PROVE  s \in Same
  <2>1. g[s] = Plus(f, s, g) /\ h[s] = Plus(f, s, h)
    BY DEF Adds
  <2>2. s # {} => g[s \ {Picked(s)}] = h[s \ {Picked(s)}]
    BY <1>1, PickedIn
  <2> QED
    BY <2>1, <2>2 DEF Plus
<1>2. IsFiniteSet(S)
  BY FS_Subset
<1>3. \A s \in SUBSET S : s \in Same
  <2> HIDE DEF Same
  <2> QED
    BY <1>1, <1>2, SubsetRule
<1> QED
  BY <1>3

Sum(f, S) == SumFunctionOnSet(f, S)

LEMMA SumEmpty == \A f : Sum(f, {}) = 0
<1> SUFFICES ASSUME NEW f PROVE Sum(f, {}) = 0
  OBVIOUS
<1>1. PICK g : Adds(f, {}, g)
  BY SumExists, FS_EmptySet
<1> DEFINE c == CHOOSE g1 : Adds(f, {}, g1)
<1>2. Adds(f, {}, c)
  BY <1>1
<1>3. Sum(f, {}) = c[{}]
  BY SumIs DEF Sum
<1> HIDE DEF c
<1>4. {} \in SUBSET {}
  OBVIOUS
<1>5. c[{}] = 0
  BY <1>2, <1>4 DEF Adds, Plus
<1> QED
  BY <1>3, <1>5

LEMMA SumSolves ==
    ASSUME NEW f, NEW S, IsFiniteSet(S)
    PROVE  \E g : Adds(f, S, g) /\ Sum(f, S) = g[S]
<1> DEFINE g == CHOOSE g1 : Adds(f, S, g1)
<1>1. Adds(f, S, g)
  BY SumExists
<1>2. Sum(f, S) = g[S]
  BY SumIs DEF Sum
<1> HIDE DEF g
<1> QED
  BY <1>1, <1>2

LEMMA SumPicked ==
    ASSUME NEW f, NEW S, IsFiniteSet(S), S # {}
    PROVE  Sum(f, S) = f[Picked(S)] + Sum(f, S \ {Picked(S)})
<1>1. PICK R : R = S \ {Picked(S)}
  OBVIOUS
<1>2. IsFiniteSet(R) /\ R \subseteq S
  BY <1>1, FS_Subset
<1>3. PICK g : Adds(f, S, g) /\ Sum(f, S) = g[S]
  BY SumSolves
<1>4. PICK h : Adds(f, R, h) /\ Sum(f, R) = h[R]
  BY <1>2, SumSolves
<1>5. h[R] = g[R]
  <2>1. R \in SUBSET S /\ R \in SUBSET R
    BY <1>2
  <2>2. Adds(f, S, g)
    BY <1>3
  <2>3. Adds(f, R, h)
    BY <1>4
  <2> QED
    BY <2>1, <2>2, <2>3, SumUnique
<1>6. g[S] = f[Picked(S)] + g[R]
  BY <1>1, <1>3 DEF Adds, Plus
<1> QED
  BY <1>1, <1>3, <1>4, <1>5, <1>6

LEMMA SumInt ==
    ASSUME NEW S, IsFiniteSet(S), NEW f, \A x \in S : f[x] \in Int
    PROVE  \A T \in SUBSET S : Sum(f, T) \in Int
<1> DEFINE P == {T \in SUBSET S : Sum(f, T) \in Int}
<1>1. ASSUME NEW T \in SUBSET S, \A x \in T : T \ {x} \in P PROVE T \in P
  <2>1. CASE T = {}
    BY <2>1, SumEmpty
  <2>2. CASE T # {}
    <3>1. Picked(T) \in T /\ IsFiniteSet(T)
      BY <2>2, PickedIn, FS_Subset
    <3>2. Sum(f, T) = f[Picked(T)] + Sum(f, T \ {Picked(T)})
      BY <2>2, <3>1, SumPicked
    <3> QED
      BY <1>1, <3>1, <3>2
  <2> QED
    BY <2>1, <2>2
<1>2. \A T \in SUBSET S : T \in P
  <2> HIDE DEF P
  <2> QED
    BY <1>1, SubsetRule
<1> QED
  BY <1>2

(* The order does not matter: any element may be added last.               *)
LEMMA SumRemove ==
    ASSUME NEW S, IsFiniteSet(S), NEW f, \A x \in S : f[x] \in Int
    PROVE  \A T \in SUBSET S : \A x \in T : Sum(f, T) = f[x] + Sum(f, T \ {x})
<1> DEFINE P == {T \in SUBSET S : \A x \in T : Sum(f, T) = f[x] + Sum(f, T \ {x})}
<1>1. ASSUME NEW T \in SUBSET S, \A x \in T : T \ {x} \in P PROVE T \in P
  <2> SUFFICES ASSUME NEW x \in T PROVE Sum(f, T) = f[x] + Sum(f, T \ {x})
    OBVIOUS
  <2> DEFINE p == Picked(T)
  <2>1. p \in T /\ IsFiniteSet(T)
    BY PickedIn, FS_Subset
  <2>2. Sum(f, T) = f[p] + Sum(f, T \ {p})
    BY <2>1, SumPicked
  <2>3. CASE x = p
    BY <2>2, <2>3
  <2>4. CASE x # p
    <3>1. x \in T \ {p} /\ p \in T \ {x}
      BY <2>1, <2>4
    <3>2. Sum(f, T \ {p}) = f[x] + Sum(f, (T \ {p}) \ {x})
      BY <1>1, <2>1, <3>1
    <3>3. Sum(f, T \ {x}) = f[p] + Sum(f, (T \ {x}) \ {p})
      BY <1>1, <2>1, <3>1
    <3>4. (T \ {x}) \ {p} = (T \ {p}) \ {x}
      OBVIOUS
    <3>5. Sum(f, (T \ {p}) \ {x}) \in Int /\ f[x] \in Int /\ f[p] \in Int
      BY <2>1, SumInt
    <3>6. Sum(f, T \ {x}) = f[p] + Sum(f, (T \ {p}) \ {x})
      BY <3>3, <3>4
    <3> HIDE DEF p
    <3> QED
      BY <2>2, <3>2, <3>5, <3>6
  <2> QED
    BY <2>3, <2>4
<1>2. \A T \in SUBSET S : T \in P
  <2> HIDE DEF P
  <2> QED
    BY <1>1, SubsetRule
<1> QED
  BY <1>2

(* A sum over one element more.                                            *)
THEOREM SumAdd ==
    ASSUME NEW S, IsFiniteSet(S), NEW f, NEW e, e \notin S, \A x \in S \cup {e} : f[x] \in Int
    PROVE  SumFunctionOnSet(f, S \cup {e}) = f[e] + SumFunctionOnSet(f, S)
<1>1. IsFiniteSet(S \cup {e})
  BY FS_AddElement
<1>2. Sum(f, S \cup {e}) = f[e] + Sum(f, (S \cup {e}) \ {e})
  <2> DEFINE T == S \cup {e}
  <2>1. T \in SUBSET T /\ e \in T
    OBVIOUS
  <2> HIDE DEF T
  <2>2. IsFiniteSet(T) /\ \A x \in T : f[x] \in Int
    BY <1>1 DEF T
  <2>3. Sum(f, T) = f[e] + Sum(f, T \ {e})
    BY <2>1, <2>2, SumRemove
  <2> QED
    BY <2>3 DEF T
<1>3. (S \cup {e}) \ {e} = S
  OBVIOUS
<1> QED
  BY <1>2, <1>3 DEF Sum

(* A sum depends on what the function is on the set, and on nothing else.  *)
THEOREM SumSame ==
    ASSUME NEW S, IsFiniteSet(S), NEW f, NEW g, \A x \in S : f[x] = g[x]
    PROVE  SumFunctionOnSet(f, S) = SumFunctionOnSet(g, S)
<1> DEFINE P == {T \in SUBSET S : Sum(f, T) = Sum(g, T)}
<1>1. ASSUME NEW T \in SUBSET S, \A x \in T : T \ {x} \in P PROVE T \in P
  <2>1. CASE T = {}
    BY <2>1, SumEmpty
  <2>2. CASE T # {}
    <3>1. Picked(T) \in T /\ IsFiniteSet(T)
      BY <2>2, PickedIn, FS_Subset
    <3>2. /\ Sum(f, T) = f[Picked(T)] + Sum(f, T \ {Picked(T)})
          /\ Sum(g, T) = g[Picked(T)] + Sum(g, T \ {Picked(T)})
      BY <2>2, <3>1, SumPicked
    <3> QED
      BY <1>1, <3>1, <3>2
  <2> QED
    BY <2>1, <2>2
<1>2. \A T \in SUBSET S : T \in P
  <2> HIDE DEF P
  <2> QED
    BY <1>1, SubsetRule
<1> QED
  BY <1>2 DEF Sum

(* The sum over nothing.                                                   *)
THEOREM SumNothing == \A f : SumFunctionOnSet(f, {}) = 0
BY SumEmpty DEF Sum

(* A sum of integers is one.                                               *)
THEOREM SumTyped ==
    ASSUME NEW S, IsFiniteSet(S), NEW f, \A x \in S : f[x] \in Int
    PROVE  SumFunctionOnSet(f, S) \in Int
BY SumInt DEF Sum

(* Naturals added to a sum do not make it less.                            *)
THEOREM SumMonotone ==
    ASSUME NEW S, IsFiniteSet(S), NEW R \in SUBSET S, NEW f, \A x \in S : f[x] \in Nat
    PROVE  SumFunctionOnSet(f, R) <= SumFunctionOnSet(f, S)
<1> DEFINE P == {D \in SUBSET (S \ R) : Sum(f, R) <= Sum(f, R \cup D)}
<1>0. IsFiniteSet(S \ R) /\ \A x \in S : f[x] \in Int
  BY FS_Subset
<1>1. ASSUME NEW D \in SUBSET (S \ R), \A x \in D : D \ {x} \in P PROVE D \in P
  <2>1. CASE D = {}
    <3>1. R \cup D = R /\ Sum(f, R) \in Int
      BY <1>0, <2>1, SumInt
    <3> QED
      BY <3>1
  <2>2. CASE D # {}
    <3>1. PICK x \in D : TRUE
      BY <2>2
    <3>2. R \cup D \in SUBSET S /\ x \in R \cup D /\ (R \cup D) \ {x} = R \cup (D \ {x})
      BY <3>1
    <3>3. Sum(f, R \cup D) = f[x] + Sum(f, R \cup (D \ {x}))
      BY <1>0, <3>2, SumRemove
    <3>4. Sum(f, R) <= Sum(f, R \cup (D \ {x}))
      BY <1>1, <3>1
    <3>5. Sum(f, R) \in Int /\ Sum(f, R \cup (D \ {x})) \in Int /\ f[x] \in Nat
      BY <1>0, <3>1, SumInt
    <3> QED
      BY <3>3, <3>4, <3>5
  <2> QED
    BY <2>1, <2>2
<1>2. \A D \in SUBSET (S \ R) : D \in P
  <2> HIDE DEF P
  <2> QED
    BY <1>0, <1>1, SubsetRule
<1>3. Sum(f, R) <= Sum(f, R \cup (S \ R)) /\ R \cup (S \ R) = S
  BY <1>2
<1> QED
  BY <1>3 DEF Sum
=============================================================================
