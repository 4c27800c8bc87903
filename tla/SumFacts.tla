------------------------------ MODULE SumFacts ------------------------------
(***************************************************************************)
(* What SumFunctionOnSet of module Functions computes on finite sets. It   *)
(* is a recursive function over subsets that takes out an element chosen   *)
(* once and for all; the proofs need that any element will do.             *)
(*                                                                         *)
(* Induction is over sets of sets: a family of subsets of a finite set     *)
(* that has each T whose strict subsets it has, has the set itself         *)
(* (FiniteInduction).                                                      *)
(***************************************************************************)
EXTENDS FiniteSetTheorems, TLAPS

LEMMA FiniteInduction ==
  ASSUME NEW S, IsFiniteSet(S), NEW Good,
         \A T \in SUBSET S : (\A U \in SUBSET T : U # T => U \in Good) => T \in Good
  PROVE  S \in Good
<1> DEFINE R == StrictSubsetOrdering(S)
           Bad == (SUBSET S) \ Good
<1>1. IsWellFoundedOn(R, SUBSET S)
  <2>1. IsWellFoundedOn(StrictSubsetOrdering(S), FiniteSubsetsOf(S))
    BY FS_StrictSubsetOrderingWellFounded
  <2>2. FiniteSubsetsOf(S) = SUBSET S
    BY FS_FiniteSubsetsOfFinite
  <2> QED
    BY <2>1, <2>2
<1>2. SUFFICES ASSUME Bad # {} PROVE FALSE
  OBVIOUS
<1>3. PICK T \in Bad : \A U \in Bad : ~(<<U, T>> \in R)
  <2>1. Bad \subseteq SUBSET S
    OBVIOUS
  <2> HIDE DEF Bad, R
  <2> QED
    BY <1>1, <1>2, <2>1, WFMin
<1>4. ASSUME NEW U \in SUBSET T, U # T PROVE U \in Good
  <2>1. U \in SUBSET S
    OBVIOUS
  <2>2. <<U, T>> \in R
    BY <1>4, <2>1 DEF StrictSubsetOrdering
  <2> QED
    BY <1>3, <2>1, <2>2
<1> QED
  BY <1>3, <1>4

-----------------------------------------------------------------------------
(* The recursive function                                                  *)

Chosen(s) == CHOOSE x \in s : TRUE

\* g is the sum of f over the subsets of S.
Sums(g, f, S) ==
  g = [s \in SUBSET S |-> IF s = {} THEN 0 ELSE f[Chosen(s)] + g[s \ {Chosen(s)}]]

LEMMA SumIsChosen ==
  ASSUME NEW f, NEW S
  PROVE  SumFunctionOnSet(f, S) = (CHOOSE g : Sums(g, f, S))[S]
BY DEF SumFunctionOnSet, FoldFunctionOnSet, MapThenFoldSet, Sums, Chosen

LEMMA ChosenIn ==
  ASSUME NEW s, s # {}
  PROVE  Chosen(s) \in s
BY DEF Chosen

LEMMA SumsAt ==
  ASSUME NEW f, NEW g, NEW S, Sums(g, f, S), NEW s \in SUBSET S
  PROVE  g[s] = IF s = {} THEN 0 ELSE f[Chosen(s)] + g[s \ {Chosen(s)}]
BY DEF Sums

\* Two sums of f agree on the finite sets that both have.
LEMMA SumsUnique ==
  ASSUME NEW f, NEW g, NEW h, NEW S, NEW T, Sums(g, f, S), Sums(h, f, T),
         NEW W \in SUBSET (S \cap T), IsFiniteSet(W)
  PROVE  g[W] = h[W]
<1> DEFINE Good == {U \in SUBSET W : g[U] = h[U]}
<1>1. ASSUME NEW X \in SUBSET W, \A U \in SUBSET X : U # X => U \in Good
      PROVE  X \in Good
  <2>1. X \in SUBSET S /\ X \in SUBSET T
    OBVIOUS
  <2>2. g[X] = IF X = {} THEN 0 ELSE f[Chosen(X)] + g[X \ {Chosen(X)}]
    BY <2>1 DEF Sums
  <2>3. h[X] = IF X = {} THEN 0 ELSE f[Chosen(X)] + h[X \ {Chosen(X)}]
    BY <2>1 DEF Sums
  <2>4. X # {} => X \ {Chosen(X)} \in Good
    <3>1. X # {} => Chosen(X) \in X
      BY ChosenIn
    <3> QED
      BY <1>1, <3>1
  <2> QED
    BY <2>2, <2>3, <2>4
<1>2. W \in Good
  <2> HIDE DEF Good
  <2> QED
    BY <1>1, FiniteInduction
<1> QED
  BY <1>2

LEMMA SumsExist ==
  ASSUME NEW f, NEW S, IsFiniteSet(S)
  PROVE  \E g : Sums(g, f, S)
<1> DEFINE Good == {T \in SUBSET S : \E g : Sums(g, f, T)}
<1>1. ASSUME NEW T \in SUBSET S, \A U \in SUBSET T : U # T => U \in Good
      PROVE  T \in Good
  <2> DEFINE of(U) == CHOOSE g : Sums(g, f, U)
             G == [s \in SUBSET T |-> IF s = {} THEN 0
                     ELSE f[Chosen(s)] + of(s \ {Chosen(s)})[s \ {Chosen(s)}]]
  <2>1. ASSUME NEW U \in SUBSET T, U # T PROVE Sums(of(U), f, U)
    <3>1. U \in Good
      BY <1>1, <2>1
    <3> QED
      BY <3>1
  <2>2. ASSUME NEW U \in SUBSET T, U # T PROVE G[U] = of(U)[U]
    <3>1. Sums(of(U), f, U)
      BY <2>1, <2>2
    <3> HIDE DEF of
    <3>2. of(U)[U] = IF U = {} THEN 0 ELSE f[Chosen(U)] + of(U)[U \ {Chosen(U)}]
      BY <3>1, SumsAt
    <3>3. CASE U = {}
      BY <3>2, <3>3
    <3>4. CASE U # {}
      <4> DEFINE V == U \ {Chosen(U)}
      <4>1. V \in SUBSET U /\ V \in SUBSET T /\ V # T
        BY <2>2, <3>4, ChosenIn
      <4>2. Sums(of(V), f, V)
        BY <2>1, <4>1
      <4>3. IsFiniteSet(V)
        <5>1. V \in SUBSET S
          BY <4>1
        <5> QED
          BY <5>1, FS_Subset
      <4>4. of(U)[V] = of(V)[V]
        <5>1. V \in SUBSET (U \cap V)
          BY <4>1
        <5> HIDE DEF V
        <5> QED
          BY <3>1, <4>2, <4>3, <5>1, SumsUnique
      <4> QED
        BY <3>2, <3>4, <4>4
    <3> QED
      BY <3>3, <3>4
  <2>3. ASSUME NEW s \in SUBSET T
        PROVE  G[s] = IF s = {} THEN 0 ELSE f[Chosen(s)] + G[s \ {Chosen(s)}]
    <3>1. CASE s = {}
      BY <3>1
    <3>2. CASE s # {}
      <4>1. s \ {Chosen(s)} \in SUBSET T /\ s \ {Chosen(s)} # T
        BY <3>2, ChosenIn
      <4>2. G[s \ {Chosen(s)}] = of(s \ {Chosen(s)})[s \ {Chosen(s)}]
        BY <2>2, <4>1
      <4> HIDE DEF of
      <4> QED
        BY <3>2, <4>2
    <3> QED
      BY <3>1, <3>2
  <2>4. Sums(G, f, T)
    <3>1. G = [s \in SUBSET T |-> G[s]]
      OBVIOUS
    <3> HIDE DEF G
    <3> QED
      BY <2>3, <3>1 DEF Sums
  <2> QED
    BY <2>4
<1>2. S \in Good
  <2> HIDE DEF Good
  <2> QED
    BY <1>1, FiniteInduction
<1> QED
  BY <1>2

\* The sum takes out the chosen element.
LEMMA SumChosen ==
  ASSUME NEW f, NEW S, IsFiniteSet(S)
  PROVE  /\ SumFunctionOnSet(f, {}) = 0
         /\ S # {} => SumFunctionOnSet(f, S)
                        = f[Chosen(S)] + SumFunctionOnSet(f, S \ {Chosen(S)})
<1> DEFINE of(U) == CHOOSE g : Sums(g, f, U)
<1>1. ASSUME NEW U, IsFiniteSet(U)
      PROVE  Sums(of(U), f, U) /\ SumFunctionOnSet(f, U) = of(U)[U]
  BY <1>1, SumsExist, SumIsChosen
<1> HIDE DEF of
<1>2. SumFunctionOnSet(f, {}) = 0
  <2>1. IsFiniteSet({})
    BY FS_EmptySet
  <2>2. Sums(of({}), f, {}) /\ SumFunctionOnSet(f, {}) = of({})[{}]
    BY <1>1, <2>1
  <2> QED
    BY <2>2, SumsAt
<1>3. ASSUME S # {}
      PROVE  SumFunctionOnSet(f, S) = f[Chosen(S)] + SumFunctionOnSet(f, S \ {Chosen(S)})
  <2> DEFINE V == S \ {Chosen(S)}
  <2>1. IsFiniteSet(V)
    BY FS_Subset
  <2>2. V \in SUBSET (S \cap V)
    OBVIOUS
  <2>3. of(S)[S] = f[Chosen(S)] + of(S)[V]
    <3>1. Sums(of(S), f, S)
      BY <1>1
    <3> QED
      BY <1>3, <3>1, SumsAt
  <2> HIDE DEF V
  <2>4. Sums(of(S), f, S) /\ Sums(of(V), f, V)
    BY <1>1, <2>1
  <2>5. of(S)[V] = of(V)[V]
    BY <2>1, <2>2, <2>4, SumsUnique
  <2>6. SumFunctionOnSet(f, S) = f[Chosen(S)] + SumFunctionOnSet(f, V)
    BY <1>1, <2>1, <2>3, <2>5
  <2> QED
    BY <2>6 DEF V
<1> QED
  BY <1>2, <1>3

-----------------------------------------------------------------------------
(* Sums of numbers                                                         *)

Total(f, S) == SumFunctionOnSet(f, S)

LEMMA SumEmpty ==
  ASSUME NEW f
  PROVE  Total(f, {}) = 0
BY FS_EmptySet, SumChosen DEF Total

\* The sum is a number, and takes out any element.
LEMMA SumRemove ==
  ASSUME NEW f, NEW S, IsFiniteSet(S), \A x \in S : f[x] \in Nat
  PROVE  /\ Total(f, S) \in Nat
         /\ \A x \in S : Total(f, S) = f[x] + Total(f, S \ {x})
<1> DEFINE Good == {T \in SUBSET S : /\ Total(f, T) \in Nat
                                     /\ \A x \in T : Total(f, T) = f[x] + Total(f, T \ {x})}
<1>1. ASSUME NEW T \in SUBSET S, \A U \in SUBSET T : U # T => U \in Good
      PROVE  T \in Good
  <2>1. CASE T = {}
    BY <2>1, SumEmpty
  <2>2. CASE T # {}
    <3> DEFINE c == Chosen(T)
               V == T \ {c}
    <3>1. c \in T
      BY <2>2, ChosenIn
    <3>2. Total(f, T) = f[c] + Total(f, V)
      <4>1. IsFiniteSet(T)
        BY FS_Subset
      <4> QED
        BY <2>2, <4>1, SumChosen DEF Total
    <3> HIDE DEF c
    <3>3. V \in Good /\ f[c] \in Nat
      BY <1>1, <3>1
    <3>4. Total(f, T) \in Nat
      BY <3>2, <3>3
    <3>5. ASSUME NEW x \in T, x # c PROVE Total(f, T) = f[x] + Total(f, T \ {x})
      <4>1. x \in V /\ f[x] \in Nat
        BY <3>5
      <4>2. Total(f, V) = f[x] + Total(f, V \ {x})
        BY <3>3, <4>1
      <4>3. T \ {x} \in Good
        BY <1>1
      <4>4. c \in T \ {x}
        BY <3>1, <3>5
      <4>5. Total(f, T \ {x}) = f[c] + Total(f, (T \ {x}) \ {c})
        BY <4>3, <4>4
      <4>6. (T \ {x}) \ {c} = V \ {x}
        OBVIOUS
      <4>7. V \ {x} \in Good
        BY <1>1, <3>1
      <4>8. Total(f, V \ {x}) \in Nat
        BY <4>7
      <4> HIDE DEF V, Good
      <4> QED
        BY <3>2, <3>3, <4>1, <4>2, <4>5, <4>6, <4>8
    <3>6. \A x \in T : Total(f, T) = f[x] + Total(f, T \ {x})
      BY <3>2, <3>5
    <3> QED
      BY <3>4, <3>6
  <2> QED
    BY <2>1, <2>2
<1>2. S \in Good
  <2> HIDE DEF Good
  <2> QED
    BY <1>1, FiniteInduction
<1> QED
  BY <1>2

\* Functions that agree on a set have the same sum there.
LEMMA SumSame ==
  ASSUME NEW f, NEW g, NEW S, IsFiniteSet(S), \A x \in S : f[x] = g[x]
  PROVE  Total(f, S) = Total(g, S)
<1> DEFINE Good == {T \in SUBSET S : Total(f, T) = Total(g, T)}
<1>1. ASSUME NEW T \in SUBSET S, \A U \in SUBSET T : U # T => U \in Good
      PROVE  T \in Good
  <2>1. CASE T = {}
    BY <2>1, SumEmpty
  <2>2. CASE T # {}
    <3> DEFINE c == Chosen(T)
    <3>1. c \in T
      BY <2>2, ChosenIn
    <3>2. IsFiniteSet(T)
      BY FS_Subset
    <3>3. Total(f, T) = f[c] + Total(f, T \ {c})
      BY <2>2, <3>2, SumChosen DEF Total
    <3>4. Total(g, T) = g[c] + Total(g, T \ {c})
      BY <2>2, <3>2, SumChosen DEF Total
    <3> HIDE DEF c
    <3>5. T \ {c} \in Good /\ f[c] = g[c]
      BY <1>1, <3>1
    <3> QED
      BY <3>3, <3>4, <3>5
  <2> QED
    BY <2>1, <2>2
<1>2. S \in Good
  <2> HIDE DEF Good
  <2> QED
    BY <1>1, FiniteInduction
<1> QED
  BY <1>2

\* Another value at one place.
LEMMA SumChange ==
  ASSUME NEW f, NEW g, NEW S, IsFiniteSet(S), \A y \in S : f[y] \in Nat,
         NEW x \in S, g[x] \in Nat, \A y \in S \ {x} : g[y] = f[y]
  PROVE  /\ Total(f, S) \in Nat /\ Total(g, S) \in Nat
         /\ Total(g, S) + f[x] = Total(f, S) + g[x]
<1>1. IsFiniteSet(S \ {x})
  BY FS_Subset
<1>2. Total(f, S \ {x}) = Total(g, S \ {x})
  BY <1>1, SumSame
<1>3. \A y \in S : g[y] \in Nat
  OBVIOUS
<1>4. Total(f, S) \in Nat /\ Total(f, S) = f[x] + Total(f, S \ {x})
  BY SumRemove
<1>5. Total(g, S) \in Nat /\ Total(g, S) = g[x] + Total(g, S \ {x})
  BY <1>3, SumRemove
<1>6. Total(f, S \ {x}) \in Nat
  BY <1>1, SumRemove
<1> QED
  BY <1>2, <1>4, <1>5, <1>6

\* A function that is nowhere larger has no larger sum, and one that is smaller
\* somewhere has a smaller one.
LEMMA SumAtMost ==
  ASSUME NEW f, NEW g, NEW S, IsFiniteSet(S), \A x \in S : f[x] \in Nat /\ g[x] \in Nat,
         \A x \in S : f[x] <= g[x]
  PROVE  /\ Total(f, S) \in Nat /\ Total(g, S) \in Nat
         /\ Total(f, S) <= Total(g, S)
         /\ (\E x \in S : f[x] < g[x]) => Total(f, S) < Total(g, S)
<1> DEFINE Good == {T \in SUBSET S : Total(f, T) <= Total(g, T)}
<1>1. ASSUME NEW T \in SUBSET S
      PROVE  /\ Total(f, T) \in Nat /\ Total(g, T) \in Nat
             /\ \A x \in T : Total(f, T) = f[x] + Total(f, T \ {x})
             /\ \A x \in T : Total(g, T) = g[x] + Total(g, T \ {x})
  <2>1. IsFiniteSet(T)
    BY FS_Subset
  <2>2. (\A x \in T : f[x] \in Nat) /\ (\A x \in T : g[x] \in Nat)
    OBVIOUS
  <2>3. Total(f, T) \in Nat /\ \A x \in T : Total(f, T) = f[x] + Total(f, T \ {x})
    BY <2>1, <2>2, SumRemove
  <2>4. Total(g, T) \in Nat /\ \A x \in T : Total(g, T) = g[x] + Total(g, T \ {x})
    BY <2>1, <2>2, SumRemove
  <2> QED
    BY <2>3, <2>4
<1>2. ASSUME NEW T \in SUBSET S, \A U \in SUBSET T : U # T => U \in Good
      PROVE  T \in Good
  <2>1. CASE T = {}
    BY <2>1, SumEmpty
  <2>2. CASE T # {}
    <3>1. PICK c \in T : TRUE
      BY <2>2
    <3>2. T \ {c} \in Good
      BY <1>2
    <3>3. Total(f, T) = f[c] + Total(f, T \ {c}) /\ Total(g, T) = g[c] + Total(g, T \ {c})
      BY <1>1
    <3>4. Total(f, T \ {c}) \in Nat /\ Total(g, T \ {c}) \in Nat
      BY <1>1, T \ {c} \in SUBSET S
    <3>5. f[c] \in Nat /\ g[c] \in Nat /\ f[c] <= g[c]
      OBVIOUS
    <3>6. Total(f, T) <= Total(g, T)
      BY <3>2, <3>3, <3>4, <3>5
    <3> QED
      BY <3>6
  <2> QED
    BY <2>1, <2>2
<1>3. \A T \in SUBSET S : T \in Good
  <2> SUFFICES ASSUME NEW T \in SUBSET S PROVE T \in Good
    OBVIOUS
  <2>1. IsFiniteSet(T)
    BY FS_Subset
  <2>2. \A W \in SUBSET T : (\A U \in SUBSET W : U # W => U \in Good) => W \in Good
    <3> SUFFICES ASSUME NEW W \in SUBSET T, \A U \in SUBSET W : U # W => U \in Good
                 PROVE  W \in Good
      OBVIOUS
    <3> HIDE DEF Good
    <3> QED
      BY <1>2, W \in SUBSET S
  <2> HIDE DEF Good
  <2> QED
    BY <2>1, <2>2, FiniteInduction
<1>4. ASSUME NEW x \in S, f[x] < g[x] PROVE Total(f, S) < Total(g, S)
  <2>1. S \ {x} \in Good
    BY <1>3
  <2>2. Total(f, S) = f[x] + Total(f, S \ {x}) /\ Total(g, S) = g[x] + Total(g, S \ {x})
    BY <1>1
  <2>3. Total(f, S \ {x}) \in Nat /\ Total(g, S \ {x}) \in Nat
    BY <1>1, S \ {x} \in SUBSET S
  <2> QED
    BY <1>4, <2>1, <2>2, <2>3
<1> QED
  BY <1>1, <1>3, <1>4

\* The sum of ones is the number of elements.
LEMMA SumOnes ==
  ASSUME NEW f, NEW S, IsFiniteSet(S), \A x \in S : f[x] = 1
  PROVE  Total(f, S) = Cardinality(S)
<1> DEFINE Good == {T \in SUBSET S : Total(f, T) = Cardinality(T)}
<1>1. ASSUME NEW T \in SUBSET S, \A U \in SUBSET T : U # T => U \in Good
      PROVE  T \in Good
  <2>1. CASE T = {}
    BY <2>1, SumEmpty, FS_EmptySet
  <2>2. CASE T # {}
    <3>1. PICK c \in T : TRUE
      BY <2>2
    <3>2. IsFiniteSet(T)
      BY FS_Subset
    <3>3. Total(f, T) = f[c] + Total(f, T \ {c})
      <4>1. \A x \in T : f[x] \in Nat
        OBVIOUS
      <4> QED
        BY <3>2, <4>1, SumRemove
    <3>4. Cardinality(T \ {c}) = Cardinality(T) - 1 /\ Cardinality(T) \in Nat
      BY <3>2, FS_RemoveElement, FS_CardinalityType
    <3>5. Total(f, T \ {c}) = Cardinality(T \ {c})
      BY <1>1
    <3>6. Total(f, T) = Cardinality(T)
      BY <3>3, <3>4, <3>5
    <3> QED
      BY <3>6
  <2> QED
    BY <2>1, <2>2
<1>2. S \in Good
  <2> HIDE DEF Good
  <2> QED
    BY <1>1, FiniteInduction
<1> QED
  BY <1>2

\* The sum of zeros.
LEMMA SumZero ==
  ASSUME NEW f, NEW S, IsFiniteSet(S), \A x \in S : f[x] = 0
  PROVE  Total(f, S) = 0
<1> DEFINE Good == {T \in SUBSET S : Total(f, T) = 0}
<1>1. ASSUME NEW T \in SUBSET S, \A U \in SUBSET T : U # T => U \in Good
      PROVE  T \in Good
  <2>1. CASE T = {}
    BY <2>1, SumEmpty
  <2>2. CASE T # {}
    <3>1. PICK c \in T : TRUE
      BY <2>2
    <3>2. IsFiniteSet(T) /\ \A x \in T : f[x] \in Nat
      BY FS_Subset
    <3>3. Total(f, T) = f[c] + Total(f, T \ {c})
      BY <3>2, SumRemove
    <3>4. Total(f, T \ {c}) = 0
      BY <1>1
    <3> QED
      BY <3>3, <3>4
  <2> QED
    BY <2>1, <2>2
<1>2. S \in Good
  <2> HIDE DEF Good
  <2> QED
    BY <1>1, FiniteInduction
<1> QED
  BY <1>2

\* The sum over two sets that have nothing in common.
LEMMA SumSplit ==
  ASSUME NEW f, NEW S, NEW T, IsFiniteSet(S), IsFiniteSet(T), S \cap T = {},
         \A x \in S \union T : f[x] \in Nat
  PROVE  Total(f, S \union T) = Total(f, S) + Total(f, T)
<1> DEFINE Good == {U \in SUBSET T : Total(f, S \union U) = Total(f, S) + Total(f, U)}
<1>1. ASSUME NEW U \in SUBSET T, \A W \in SUBSET U : W # U => W \in Good
      PROVE  U \in Good
  <2>1. Total(f, S) \in Nat
    BY SumRemove
  <2>2. CASE U = {}
    <3>1. S \union U = S
      BY <2>2
    <3> QED
      BY <2>1, <2>2, <3>1, SumEmpty
  <2>3. CASE U # {}
    <3>1. PICK c \in U : TRUE
      BY <2>3
    <3>2. IsFiniteSet(U) /\ IsFiniteSet(U \ {c})
      BY FS_Subset
    <3>3. IsFiniteSet(S \union U)
      BY <3>2, FS_Union
    <3>4. /\ \A x \in U : f[x] \in Nat
          /\ \A x \in U \ {c} : f[x] \in Nat
          /\ \A x \in S \union U : f[x] \in Nat
      OBVIOUS
    <3>5. Total(f, U) = f[c] + Total(f, U \ {c})
      BY <3>2, <3>4, SumRemove
    <3>6. Total(f, U \ {c}) \in Nat
      BY <3>2, <3>4, SumRemove
    <3>7. Total(f, S \union U) = f[c] + Total(f, (S \union U) \ {c})
      BY <3>3, <3>4, SumRemove
    <3>8. (S \union U) \ {c} = S \union (U \ {c})
      OBVIOUS
    <3>9. Total(f, S \union (U \ {c})) = Total(f, S) + Total(f, U \ {c})
      BY <1>1
    <3>10. Total(f, S \union U) = Total(f, S) + Total(f, U)
      BY <2>1, <3>4, <3>5, <3>6, <3>7, <3>8, <3>9
    <3> QED
      BY <3>10
  <2> QED
    BY <2>2, <2>3
<1>2. T \in Good
  <2> HIDE DEF Good
  <2> QED
    BY <1>1, FiniteInduction
<1> QED
  BY <1>2

\* A table is summed row by row.
LEMMA SumRows ==
  ASSUME NEW f, NEW R, NEW C, IsFiniteSet(R), IsFiniteSet(C),
         \A x \in R \X C : f[x] \in Nat
  PROVE  /\ \A r \in R : Total(f, {r} \X C) \in Nat
         /\ Total(f, R \X C) = Total([r \in R |-> Total(f, {r} \X C)], R)
<1> DEFINE g == [r \in R |-> Total(f, {r} \X C)]
           Good == {U \in SUBSET R : Total(f, U \X C) = Total(g, U)}
<1>1. ASSUME NEW U \in SUBSET R
      PROVE  IsFiniteSet(U) /\ IsFiniteSet(U \X C) /\ \A x \in U \X C : f[x] \in Nat
  BY FS_Subset, FS_Product
<1>2. ASSUME NEW r \in R PROVE g[r] \in Nat
  <2>1. IsFiniteSet({r} \X C) /\ \A x \in {r} \X C : f[x] \in Nat
    BY <1>1, {r} \in SUBSET R
  <2> QED
    BY <2>1, SumRemove
<1>3. ASSUME NEW U \in SUBSET R, \A W \in SUBSET U : W # U => W \in Good
      PROVE  U \in Good
  <2>1. CASE U = {}
    <3>1. U \X C = {}
      BY <2>1
    <3> QED
      BY <2>1, <3>1, SumEmpty
  <2>2. CASE U # {}
    <3>1. PICK c \in U : TRUE
      BY <2>2
    <3> DEFINE V == U \ {c}
    <3>2. V \in Good /\ V \in SUBSET R /\ {c} \in SUBSET R
      BY <1>3
    <3>3. Total(f, (V \X C) \union ({c} \X C)) = Total(f, V \X C) + Total(f, {c} \X C)
      <4>1. IsFiniteSet(V \X C) /\ \A x \in V \X C : f[x] \in Nat
        BY <1>1, <3>2
      <4>2. IsFiniteSet({c} \X C) /\ \A x \in {c} \X C : f[x] \in Nat
        BY <1>1, <3>2
      <4>3. (V \X C) \cap ({c} \X C) = {}
        OBVIOUS
      <4>4. \A x \in (V \X C) \union ({c} \X C) : f[x] \in Nat
        BY <4>1, <4>2
      <4> HIDE DEF V
      <4> QED
        BY <4>1, <4>2, <4>3, <4>4, SumSplit
    <3>4. (V \X C) \union ({c} \X C) = U \X C
      OBVIOUS
    <3>5. Total(g, U) = g[c] + Total(g, V)
      <4>1. IsFiniteSet(U) /\ \A x \in U : g[x] \in Nat
        BY <1>1, <1>2
      <4> HIDE DEF g
      <4> QED
        BY <4>1, SumRemove
    <3>6. g[c] = Total(f, {c} \X C) /\ g[c] \in Nat
      BY <1>2
    <3>7. Total(g, V) \in Nat
      <4>1. IsFiniteSet(V) /\ \A x \in V : g[x] \in Nat
        BY <1>1, <1>2, <3>2
      <4> HIDE DEF g, V
      <4> QED
        BY <4>1, SumRemove
    <3>8. Total(f, V \X C) = Total(g, V)
      BY <3>2
    <3>9. Total(f, U \X C) = Total(f, V \X C) + Total(f, {c} \X C)
      <4> HIDE DEF V
      <4> QED
        BY <3>3, <3>4, Zenon
    <3>10. Total(f, U \X C) = Total(g, V) + g[c]
      <4> HIDE DEF g, V
      <4> QED
        BY <3>6, <3>8, <3>9
    <3>11. Total(f, U \X C) = Total(g, U)
      <4> HIDE DEF g, V
      <4> QED
        BY <3>5, <3>6, <3>7, <3>10
    <3> QED
      BY <3>11
  <2> QED
    BY <2>1, <2>2
<1>4. R \in Good
  <2> HIDE DEF Good
  <2> QED
    BY <1>3, FiniteInduction
<1> QED
  BY <1>2, <1>4
=============================================================================
