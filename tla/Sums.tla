-------------------------------- MODULE Sums --------------------------------
(***************************************************************************)
(* Facts about MapThenSumSet, the sum over a finite set that the token     *)
(* window of a tenant, the estimate of a prompt and the score of a thread  *)
(* are defined with.  It is a recursive function on the subsets of the     *)
(* set; that there is such a function, and only one, is proved first, by   *)
(* induction: among the subsets where a claim fails there would be a       *)
(* smallest one.                                                           *)
(***************************************************************************)
EXTENDS Integers, FiniteSetsExt, FiniteSetTheorems, WellFoundedInduction, TLAPS

\* The sum of f[x] over the x in S.
SumOf(f, S) == MapThenSumSet(LAMBDA x : f[x], S)

\* The element the fold takes out of a set first.
Chosen(S) == CHOOSE x \in S : TRUE

\* g has the partial sums of f: over every subset of S.
PartialSums(g, f, S) ==
    g = [T \in SUBSET S |-> IF T = {} THEN 0 ELSE f[Chosen(T)] + g[T \ {Chosen(T)}]]

LEMMA ChosenIn == ASSUME NEW S, S # {} PROVE Chosen(S) \in S
  BY DEF Chosen

(* Induction on the subsets of a finite set, for a claim given as the set  *)
(* G of the subsets of which it holds.                                     *)
LEMMA SubsetInduction ==
  ASSUME NEW S, IsFiniteSet(S), NEW G,
         \A T \in SUBSET S : (\A U \in SUBSET T : U # T => U \in G) => T \in G
  PROVE  \A T \in SUBSET S : T \in G
<1> DEFINE Bad == (SUBSET S) \ G
<1> SUFFICES ASSUME Bad # {} PROVE FALSE
  OBVIOUS
<1>1. Bad \subseteq FiniteSubsetsOf(S) /\ Bad # {}
  BY FS_Subset DEF FiniteSubsetsOf
<1>2. \A T \in Bad : T \in SUBSET S /\ T \notin G
  OBVIOUS
<1>3. \A T \in SUBSET S : T \in G \/ T \in Bad
  OBVIOUS
<1> HIDE DEF Bad
<1>4. PICK T \in Bad : \A U \in Bad : ~(<<U, T>> \in StrictSubsetOrdering(S))
  BY <1>1, FS_StrictSubsetOrderingWellFounded, WFMin
<1>5. \A U \in SUBSET T : U # T => U \in G
  BY <1>2, <1>3, <1>4 DEF StrictSubsetOrdering
<1>6. QED
  BY <1>2, <1>4, <1>5

(* There is only one such function, also on part of the set.               *)
LEMMA PartialSumsUnique ==
  ASSUME NEW f, NEW S, NEW T, IsFiniteSet(S), T \subseteq S,
         NEW g, NEW h, PartialSums(g, f, S), PartialSums(h, f, T)
  PROVE  \A U \in SUBSET T : g[U] = h[U]
<1> DEFINE G == {U \in SUBSET T : g[U] = h[U]}
<1>1. ASSUME NEW U \in SUBSET T, \A V \in SUBSET U : V # U => V \in G
      PROVE  U \in G
  <2>1. /\ g[U] = IF U = {} THEN 0 ELSE f[Chosen(U)] + g[U \ {Chosen(U)}]
        /\ h[U] = IF U = {} THEN 0 ELSE f[Chosen(U)] + h[U \ {Chosen(U)}]
    <3>1. U \in SUBSET S /\ U \in SUBSET T
      OBVIOUS
    <3>2. QED
      BY <3>1, Zenon DEF PartialSums
  <2>2. CASE U = {}
    BY <2>1, <2>2
  <2>3. CASE U # {}
    <3>1. U \ {Chosen(U)} \in G
      BY <1>1, <2>3, ChosenIn
    <3>2. QED
      BY <2>1, <2>3, <3>1
  <2>4. QED
    BY <2>2, <2>3
<1>2. IsFiniteSet(T)
  BY FS_Subset
<1>3. \A U \in SUBSET T : U \in G
  <2> HIDE DEF G
  <2>1. QED
    BY <1>1, <1>2, SubsetInduction
<1>4. QED
  BY <1>3

(* There is one: the sum over a set can be built from those over its       *)
(* proper subsets.                                                         *)
LEMMA PartialSumsExist ==
  ASSUME NEW f, NEW S, IsFiniteSet(S)
  PROVE  \E g : PartialSums(g, f, S)
<1> DEFINE G == {T \in SUBSET S : \E g : PartialSums(g, f, T)}
<1>1. ASSUME NEW T \in SUBSET S, \A U \in SUBSET T : U # T => U \in G
      PROVE  T \in G
  <2> DEFINE Part(U) == CHOOSE h : PartialSums(h, f, U)
             Rest(U) == U \ {Chosen(U)}
             g == [U \in SUBSET T |-> IF U = {} THEN 0
                                      ELSE f[Chosen(U)] + Part(Rest(U))[Rest(U)]]
  <2>1. \A U \in SUBSET T : U # T => PartialSums(Part(U), f, U)
    BY <1>1
  <2>2. ASSUME NEW U \in SUBSET T, U # T PROVE g[U] = Part(U)[U]
    <3>1. PartialSums(Part(U), f, U)
      BY <2>1, <2>2
    <3>2. Part(U)[U] = IF U = {} THEN 0 ELSE f[Chosen(U)] + Part(U)[Rest(U)]
      <4> HIDE DEF Part
      <4>1. QED
        BY <3>1 DEF PartialSums
    <3>3. CASE U = {}
      BY <3>2, <3>3
    <3>4. CASE U # {}
      <4>1. /\ IsFiniteSet(U)
            /\ Rest(U) \subseteq U
            /\ Rest(U) \in SUBSET Rest(U)
            /\ PartialSums(Part(Rest(U)), f, Rest(U))
        <5>1. Rest(U) \in SUBSET T /\ Rest(U) # T
          BY <2>2
        <5>2. QED
          BY <2>1, <5>1, FS_Subset
      <4>2. Part(U)[Rest(U)] = Part(Rest(U))[Rest(U)]
        <5> HIDE DEF Part, Rest
        <5>1. QED
          BY <3>1, <4>1, PartialSumsUnique
      <4>3. QED
        BY <3>2, <3>4, <4>2
    <3>5. QED
      BY <3>3, <3>4
  <2>3. \A U \in SUBSET T : U # {} => g[Rest(U)] = Part(Rest(U))[Rest(U)]
    <3> SUFFICES ASSUME NEW U \in SUBSET T, U # {}
                 PROVE  g[Rest(U)] = Part(Rest(U))[Rest(U)]
      OBVIOUS
    <3>1. Rest(U) \in SUBSET T /\ Rest(U) # T
      BY ChosenIn
    <3> HIDE DEF g, Rest, Part
    <3>2. QED
      BY <2>2, <3>1
  <2>4. g = [U \in SUBSET T |-> IF U = {} THEN 0 ELSE f[Chosen(U)] + g[Rest(U)]]
    <3>1. \A U \in SUBSET T :
             g[U] = IF U = {} THEN 0 ELSE f[Chosen(U)] + g[Rest(U)]
      <4> SUFFICES ASSUME NEW U \in SUBSET T
                   PROVE  g[U] = IF U = {} THEN 0 ELSE f[Chosen(U)] + g[Rest(U)]
        OBVIOUS
      <4>1. g[U] = IF U = {} THEN 0 ELSE f[Chosen(U)] + Part(Rest(U))[Rest(U)]
        OBVIOUS
      <4> HIDE DEF g, Rest, Part
      <4>2. QED
        BY <2>3, <4>1
    <3>2. g = [U \in SUBSET T |-> g[U]]
      OBVIOUS
    <3> HIDE DEF g, Rest, Part
    <3>3. QED
      BY <3>1, <3>2
  <2>5. PartialSums(g, f, T)
    <3> HIDE DEF g, Part
    <3>1. QED
      BY <2>4, Zenon DEF PartialSums
  <2>6. QED
    BY <2>5
<1>2. S \in G
  <2> HIDE DEF G
  <2>1. QED
    BY <1>1, SubsetInduction
<1>3. QED
  BY <1>2

---------------------------------------------------------------------------
(***************************************************************************)
(* The sum itself.                                                         *)
(***************************************************************************)
LEMMA SumIsPartial ==
  ASSUME NEW f, NEW S, IsFiniteSet(S), NEW g, PartialSums(g, f, S)
  PROVE  \A T \in SUBSET S : SumOf(f, T) = g[T]
<1> SUFFICES ASSUME NEW T \in SUBSET S PROVE SumOf(f, T) = g[T]
  OBVIOUS
<1> DEFINE h == CHOOSE h : PartialSums(h, f, T)
<1>1. IsFiniteSet(T)
  BY FS_Subset
<1>2. PartialSums(h, f, T)
  BY <1>1, PartialSumsExist
<1>3. SumOf(f, T) = h[T]
  BY DEF SumOf, MapThenSumSet, MapThenFoldSet, PartialSums, Chosen
<1>4. g[T] = h[T]
  <2> HIDE DEF h
  <2>1. QED
    BY <1>2, PartialSumsUnique
<1>5. QED
  BY <1>3, <1>4

LEMMA SumEmpty == ASSUME NEW f PROVE SumOf(f, {}) = 0
<1>1. PICK g : PartialSums(g, f, {})
  BY FS_EmptySet, PartialSumsExist
<1>2. SumOf(f, {}) = g[{}]
  BY <1>1, FS_EmptySet, SumIsPartial
<1>3. QED
  BY <1>1, <1>2 DEF PartialSums

LEMMA SumUnfold ==
  ASSUME NEW f, NEW S, IsFiniteSet(S), S # {}
  PROVE  SumOf(f, S) = f[Chosen(S)] + SumOf(f, S \ {Chosen(S)})
<1>1. PICK g : PartialSums(g, f, S)
  BY PartialSumsExist
<1>2. S \in SUBSET S /\ S \ {Chosen(S)} \in SUBSET S
  OBVIOUS
<1>3. SumOf(f, S) = g[S] /\ SumOf(f, S \ {Chosen(S)}) = g[S \ {Chosen(S)}]
  BY <1>1, <1>2, SumIsPartial
<1>4. g[S] = f[Chosen(S)] + g[S \ {Chosen(S)}]
  BY <1>1, <1>2, Zenon DEF PartialSums
<1>5. QED
  BY <1>3, <1>4

LEMMA SumInt ==
  ASSUME NEW f, NEW S, IsFiniteSet(S), \A x \in S : f[x] \in Int
  PROVE  SumOf(f, S) \in Int
<1> DEFINE G == {T \in SUBSET S : SumOf(f, T) \in Int}
<1>1. ASSUME NEW T \in SUBSET S, \A U \in SUBSET T : U # T => U \in G
      PROVE  T \in G
  <2>1. CASE T = {}
    BY <2>1, SumEmpty
  <2>2. CASE T # {}
    <3>1. Chosen(T) \in T /\ T \ {Chosen(T)} \in G
      BY <1>1, <2>2, ChosenIn
    <3>2. SumOf(f, T) = f[Chosen(T)] + SumOf(f, T \ {Chosen(T)})
      BY <2>2, FS_Subset, SumUnfold
    <3>3. QED
      BY <3>1, <3>2
  <2>3. QED
    BY <2>1, <2>2
<1>2. S \in G
  <2> HIDE DEF G
  <2>1. QED
    BY <1>1, SubsetInduction
<1>3. QED
  BY <1>2

(* Any element may be taken out first.                                     *)
LEMMA SumTakeOut ==
  ASSUME NEW f, NEW S, IsFiniteSet(S), \A x \in S : f[x] \in Int, NEW y \in S
  PROVE  SumOf(f, S) = f[y] + SumOf(f, S \ {y})
<1> DEFINE G == {T \in SUBSET S : \A x \in T : SumOf(f, T) = f[x] + SumOf(f, T \ {x})}
<1>1. ASSUME NEW T \in SUBSET S, \A U \in SUBSET T : U # T => U \in G
      PROVE  T \in G
  <2> SUFFICES ASSUME NEW x \in T PROVE SumOf(f, T) = f[x] + SumOf(f, T \ {x})
    OBVIOUS
  <2> DEFINE c == Chosen(T)
  <2>1. c \in T /\ SumOf(f, T) = f[c] + SumOf(f, T \ {c})
    BY ChosenIn, FS_Subset, SumUnfold
  <2> HIDE DEF c
  <2>2. CASE c = x
    BY <2>1, <2>2
  <2>3. CASE c # x
    <3>1. /\ T \ {c} \in G /\ x \in T \ {c}
          /\ T \ {x} \in G /\ c \in T \ {x}
      BY <1>1, <2>1, <2>3
    <3>2. /\ SumOf(f, T \ {c}) = f[x] + SumOf(f, (T \ {c}) \ {x})
          /\ SumOf(f, T \ {x}) = f[c] + SumOf(f, (T \ {x}) \ {c})
      BY <3>1
    <3>3. (T \ {x}) \ {c} = (T \ {c}) \ {x}
      OBVIOUS
    <3>4. SumOf(f, (T \ {c}) \ {x}) \in Int
      <4>1. (T \ {c}) \ {x} \in SUBSET S
        OBVIOUS
      <4>2. QED
        BY <4>1, FS_Subset, SumInt
    <3>5. f[x] \in Int /\ f[c] \in Int
      BY <2>1
    <3>6. SumOf(f, T \ {x}) = f[c] + SumOf(f, (T \ {c}) \ {x})
      BY <3>2, <3>3, Zenon
    <3>7. QED
      BY <2>1, <3>2, <3>4, <3>5, <3>6
  <2>4. QED
    BY <2>2, <2>3
<1>2. S \in G
  <2> HIDE DEF G
  <2>1. QED
    BY <1>1, SubsetInduction
<1>3. QED
  BY <1>2

LEMMA SumAdd ==
  ASSUME NEW f, NEW S, IsFiniteSet(S), NEW y, y \notin S,
         \A x \in S \cup {y} : f[x] \in Int
  PROVE  SumOf(f, S \cup {y}) = f[y] + SumOf(f, S)
<1>1. IsFiniteSet(S \cup {y})
  BY FS_AddElement
<1>2. (S \cup {y}) \ {y} = S
  OBVIOUS
<1>3. SumOf(f, S \cup {y}) = f[y] + SumOf(f, (S \cup {y}) \ {y})
  BY <1>1, SumTakeOut
<1>4. QED
  BY <1>2, <1>3

(* Sums of functions that compare everywhere compare in the same way.      *)
LEMMA SumMonotone ==
  ASSUME NEW f, NEW g, NEW S, IsFiniteSet(S),
         \A x \in S : f[x] \in Int /\ g[x] \in Int /\ f[x] <= g[x]
  PROVE  SumOf(f, S) <= SumOf(g, S)
<1> DEFINE G == {T \in SUBSET S : SumOf(f, T) <= SumOf(g, T)}
<1>1. ASSUME NEW T \in SUBSET S, \A U \in SUBSET T : U # T => U \in G
      PROVE  T \in G
  <2>1. CASE T = {}
    BY <2>1, SumEmpty
  <2>2. CASE T # {}
    <3>1. Chosen(T) \in T /\ T \ {Chosen(T)} \in G
      BY <1>1, <2>2, ChosenIn
    <3>2. /\ SumOf(f, T) = f[Chosen(T)] + SumOf(f, T \ {Chosen(T)})
          /\ SumOf(g, T) = g[Chosen(T)] + SumOf(g, T \ {Chosen(T)})
      BY <2>2, FS_Subset, SumUnfold
    <3>3. /\ SumOf(f, T \ {Chosen(T)}) \in Int
          /\ SumOf(g, T \ {Chosen(T)}) \in Int
      BY FS_Subset, SumInt
    <3>4. QED
      BY <3>1, <3>2, <3>3
  <2>3. QED
    BY <2>1, <2>2
<1>2. S \in G
  <2> HIDE DEF G
  <2>1. QED
    BY <1>1, SubsetInduction
<1>3. QED
  BY <1>2

LEMMA SumSame ==
  ASSUME NEW f, NEW g, NEW S, IsFiniteSet(S), \A x \in S : f[x] \in Int /\ f[x] = g[x]
  PROVE  SumOf(f, S) = SumOf(g, S)
<1>1. SumOf(f, S) <= SumOf(g, S) /\ SumOf(g, S) <= SumOf(f, S)
  BY SumMonotone
<1>2. SumOf(f, S) \in Int /\ SumOf(g, S) \in Int
  BY SumInt
<1>3. QED
  BY <1>1, <1>2

(* A larger set has the larger sum if nothing is negative.                 *)
LEMMA SumSubset ==
  ASSUME NEW f, NEW S, IsFiniteSet(S), \A x \in S : f[x] \in Nat, NEW T \in SUBSET S
  PROVE  SumOf(f, T) <= SumOf(f, S)
<1> DEFINE G == {U \in SUBSET S : \A V \in SUBSET U : SumOf(f, V) <= SumOf(f, U)}
<1>1. ASSUME NEW U \in SUBSET S, \A V \in SUBSET U : V # U => V \in G
      PROVE  U \in G
  <2> SUFFICES ASSUME NEW V \in SUBSET U PROVE SumOf(f, V) <= SumOf(f, U)
    OBVIOUS
  <2>1. IsFiniteSet(U) /\ IsFiniteSet(V) /\ SumOf(f, U) \in Int /\ SumOf(f, V) \in Int
    BY FS_Subset, SumInt
  <2>2. CASE V = U
    BY <2>1, <2>2
  <2>3. CASE V # U
    <3>1. PICK x \in U : x \notin V
      BY <2>3
    <3>2. U \ {x} \in G /\ V \in SUBSET (U \ {x})
      BY <1>1, <3>1
    <3>3. SumOf(f, V) <= SumOf(f, U \ {x})
      BY <3>2
    <3>4. SumOf(f, U) = f[x] + SumOf(f, U \ {x})
      BY <2>1, <3>1, SumTakeOut
    <3>5. SumOf(f, U \ {x}) \in Int /\ f[x] \in Nat
      BY FS_Subset, SumInt
    <3>6. QED
      BY <2>1, <3>3, <3>4, <3>5
  <2>4. QED
    BY <2>2, <2>3
<1>2. S \in G
  <2> HIDE DEF G
  <2>1. QED
    BY <1>1, SubsetInduction
<1>3. QED
  BY <1>2

LEMMA SumNat ==
  ASSUME NEW f, NEW S, IsFiniteSet(S), \A x \in S : f[x] \in Nat
  PROVE  SumOf(f, S) \in Nat
<1>1. SumOf(f, S) \in Int
  BY SumInt
<1>2. SumOf(f, {}) <= SumOf(f, S)
  BY SumSubset
<1>3. QED
  BY <1>1, <1>2, SumEmpty
=============================================================================
