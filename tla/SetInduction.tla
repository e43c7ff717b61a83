---------------------------- MODULE SetInduction ----------------------------
(***************************************************************************)
(* Induction over data for the proof modules.  The library's induction     *)
(* theorems take an operator as a parameter, which the provers cannot      *)
(* instantiate; its theorems on well-founded relations do not, so that     *)
(* induction can be done with sets: on the least number, or a minimal      *)
(* finite set, in a set of counterexamples.  With it, what the folds of    *)
(* the community modules compute is proved here for every finite set.      *)
(***************************************************************************)
EXTENDS Integers, Sequences, FiniteSets, FiniteSetsExt, Functions, FiniteSetTheorems,
        SequenceTheorems, WellFoundedInduction, TLAPS

(* A set of natural numbers has a least element: the form in which the     *)
(* proofs use induction, on a least counterexample.                        *)
LEMMA LeastNatural ==
  ASSUME NEW T, T \subseteq Nat, T # {}
  PROVE  \E n \in T : \A m \in T : n <= m
<1> DEFINE R == OpToRel(<, Nat)
<1>1. IsWellFoundedOn(R, Nat)
  BY NatLessThanWellFounded
<1>2. \A m, n \in Nat : m < n => <<m, n>> \in R
  BY DEF OpToRel
<1> HIDE DEF R
<1>3. \E n \in T : \A m \in T : ~ (<<m, n>> \in R)
  BY <1>1, WFMin
<1>4. PICK n \in T : \A m \in T : ~ (<<m, n>> \in R)
  BY <1>3
<1>5. ASSUME NEW m \in T PROVE n <= m
  <2>1. m \in Nat /\ n \in Nat
    OBVIOUS
  <2>2. ~(m < n)
    BY <1>2, <1>4, <2>1, Zenon
  <2>3. QED
    BY <2>1, <2>2
<1>6. QED
  BY <1>5

(* An interval that starts at one is finite. *)
LEMMA IndicesFinite ==
  ASSUME NEW m \in Int
  PROVE  IsFiniteSet(1..m)
BY FS_Interval, 1 \in Int

(* The least element of a set of natural numbers is what Min returns. *)
LEMMA MinIsLeast ==
  ASSUME NEW T, T \subseteq Nat, T # {}
  PROVE  Min(T) \in T /\ \A m \in T : Min(T) <= m
<1>1. PICK n \in T : \A m \in T : n <= m
  BY LeastNatural
<1>2. QED
  BY <1>1 DEF Min

(* A nonempty set of numbers up to n has a greatest one, which Max returns. *)
LEMMA MaxIsGreatest ==
  ASSUME NEW n \in Nat, NEW T, T \subseteq 0..n, T # {}
  PROVE  Max(T) \in T /\ \A m \in T : m <= Max(T)
<1> DEFINE D == {n - m : m \in T}
<1>1. D \subseteq Nat /\ D # {}
  <2>1. \A m \in T : n - m \in Nat
    OBVIOUS
  <2>2. \E m \in T : n - m \in D
    OBVIOUS
  <2>3. QED
    BY <2>1, <2>2
<1>2. PICK d \in D : \A e \in D : d <= e
  <2> HIDE DEF D
  <2>1. QED
    BY <1>1, LeastNatural
<1>3. PICK x \in T : d = n - x
  BY <1>2
<1>4. ASSUME NEW m \in T PROVE m <= x
  <2>1. d <= n - m
    BY <1>2
  <2>2. QED
    BY <1>3, <2>1
<1>5. QED
  BY <1>4 DEF Max

(* A set with zero and all successors of its members is all of Nat. *)
LEMMA NatSetInduction ==
  ASSUME NEW T, 0 \in T, \A n \in Nat : n \in T => n + 1 \in T
  PROVE  Nat \subseteq T
<1> SUFFICES ASSUME Nat \ T # {} PROVE FALSE
  OBVIOUS
<1>1. PICK n \in Nat \ T : \A m \in Nat \ T : n <= m
  BY LeastNatural
<1>2. n - 1 \in Nat /\ n - 1 \in T
  BY <1>1
<1>3. QED
  BY <1>1, <1>2

(* A set of sets that has {} and is closed under adding an element of S has *)
(* all subsets of S.                                                       *)
LEMMA FiniteSetInduction ==
  ASSUME NEW S, IsFiniteSet(S), NEW T, {} \in T,
         \A A \in SUBSET S, x \in S : A \in T /\ x \notin A => A \cup {x} \in T
  PROVE  SUBSET S \subseteq T
<1> DEFINE R == StrictSubsetOrdering(S)
           N == {A \in SUBSET S : A \notin T}
<1> SUFFICES ASSUME N # {} PROVE FALSE
  OBVIOUS
<1>1. IsWellFoundedOn(R, SUBSET S)
  BY FS_StrictSubsetOrderingWellFounded, FS_FiniteSubsetsOfFinite
<1>2. \A A, B \in SUBSET S : A \subseteq B /\ A # B => <<A, B>> \in R
  BY DEF StrictSubsetOrdering
<1> HIDE DEF R
<1>3. N \subseteq SUBSET S /\ N # {}
  OBVIOUS
<1>4. PICK B \in N : \A A \in N : ~ (<<A, B>> \in R)
  <2> HIDE DEF N
  <2>1. QED
    BY <1>1, <1>3, WFMin
<1>5. PICK x \in S : x \in B
  BY <1>4
<1>6. B \ {x} \in SUBSET S /\ B \ {x} \subseteq B /\ B \ {x} # B
  BY <1>5
<1>7. B \ {x} \in T
  BY <1>2, <1>4, <1>6
<1>8. (B \ {x}) \cup {x} = B /\ x \notin B \ {x}
  BY <1>5
<1>9. QED
  BY <1>4, <1>5, <1>6, <1>7, <1>8
-----------------------------------------------------------------------------
(* Sums over finite sets *)


(* Among some subsets of a finite set one is minimal. *)
LEMMA MinimalSubset ==
  ASSUME NEW S, IsFiniteSet(S), NEW N, N \subseteq SUBSET S, N # {}
  PROVE  \E B \in N : \A A \in SUBSET B : A # B => A \notin N
<1> DEFINE R == StrictSubsetOrdering(S)
<1>1. IsWellFoundedOn(R, SUBSET S)
  BY FS_StrictSubsetOrderingWellFounded, FS_FiniteSubsetsOfFinite
<1>2. \A A, B \in SUBSET S : A \subseteq B /\ A # B => <<A, B>> \in R
  BY DEF StrictSubsetOrdering
<1> HIDE DEF R
<1>3. PICK B \in N : \A A \in N : ~ (<<A, B>> \in R)
  BY <1>1, WFMin
<1>4. QED
  BY <1>2, <1>3

(* What the sum over s is, given the sums g of its subsets *)
Body(f, g, s) ==
  IF s = {} THEN 0 ELSE f[CHOOSE x \in s : TRUE] + g[s \ {CHOOSE x \in s : TRUE}]

(* g holds the sums of f over all subsets of S. *)
IsSum(g, f, S) == g = [s \in SUBSET S |-> Body(f, g, s)]

(* SumFunctionOnSet is the fold of the community modules: it chooses such a *)
(* function.                                                               *)
LEMMA SumByChoice ==
  ASSUME NEW f, NEW S, NEW g, IsSum(g, f, S)
  PROVE  \E h : IsSum(h, f, S) /\ SumFunctionOnSet(f, S) = h[S]
<1> DEFINE h == CHOOSE k : IsSum(k, f, S)
<1>1. IsSum(h, f, S)
  OBVIOUS
<1>2. SumFunctionOnSet(f, S) = h[S]
  BY DEF SumFunctionOnSet, FoldFunctionOnSet, MapThenFoldSet, IsSum, Body
<1>3. QED
  BY <1>1, <1>2

(* The sum over s depends on the sums over smaller sets only. *)
LEMMA BodyLocal ==
  ASSUME NEW f, NEW g, NEW h, NEW s,
         \A x \in s : g[s \ {x}] = h[s \ {x}]
  PROVE  Body(f, g, s) = Body(f, h, s)
<1>1. CASE s = {}
  BY <1>1 DEF Body
<1>2. CASE s # {}
  <2>1. (CHOOSE x \in s : TRUE) \in s
    BY <1>2
  <2>2. QED
    BY <1>2, <2>1 DEF Body
<1>3. QED
  BY <1>1, <1>2

(* A function that sums exists for every finite set. *)
LEMMA SumExists ==
  ASSUME NEW f, NEW S, IsFiniteSet(S)
  PROVE  \E g : IsSum(g, f, S)
<1> DEFINE UpTo(g, n) == \A s \in SUBSET S : Cardinality(s) <= n => g[s] = Body(f, g, s)
           T == {n \in Nat : \E g : UpTo(g, n)}
<1>1. \A s \in SUBSET S : IsFiniteSet(s) /\ Cardinality(s) \in Nat
  BY FS_Subset, FS_CardinalityType
<1>2. \A s \in SUBSET S : \A x \in s : s \ {x} \in SUBSET S /\ Cardinality(s \ {x}) = Cardinality(s) - 1
  BY <1>1, FS_RemoveElement
<1>3. 0 \in T
  <2>1. UpTo([s \in SUBSET S |-> 0], 0)
    BY <1>1, FS_EmptySet DEF Body
  <2>2. QED
    BY <2>1
<1>4. ASSUME NEW n \in Nat, n \in T PROVE n + 1 \in T
  <2>1. PICK g : UpTo(g, n)
    BY <1>4
  <2> DEFINE h == [s \in SUBSET S |-> IF Cardinality(s) <= n THEN g[s] ELSE Body(f, g, s)]
  <2>2. ASSUME NEW s \in SUBSET S, Cardinality(s) <= n + 1
        PROVE  h[s] = Body(f, h, s)
    <3>1. h[s] = Body(f, g, s)
      BY <2>1
    <3>2. \A x \in s : g[s \ {x}] = h[s \ {x}]
      BY <1>1, <1>2, <2>2
    <3> HIDE DEF h
    <3>3. QED
      BY <3>1, <3>2, BodyLocal
  <2>3. UpTo(h, n + 1)
    BY <2>2
  <2>4. \E k : UpTo(k, n + 1)
    BY <2>3
  <2> HIDE DEF UpTo
  <2>5. QED
    BY <2>4
<1> HIDE DEF T
<1>5. Cardinality(S) \in T
  BY <1>1, <1>3, <1>4, NatSetInduction
<1>6. PICK g : UpTo(g, Cardinality(S))
  BY <1>5 DEF T
<1> DEFINE h == [s \in SUBSET S |-> g[s]]
<1>7. ASSUME NEW s \in SUBSET S PROVE h[s] = Body(f, h, s)
  <2>1. Cardinality(s) <= Cardinality(S)
    BY FS_Subset
  <2>2. g[s] = Body(f, g, s)
    BY <1>6, <2>1
  <2>3. \A x \in s : g[s \ {x}] = h[s \ {x}]
    OBVIOUS
  <2>4. h[s] = g[s]
    OBVIOUS
  <2> HIDE DEF h
  <2>5. QED
    BY <2>2, <2>3, <2>4, BodyLocal
<1>8. IsSum(h, f, S)
  BY <1>7 DEF IsSum
<1>9. QED
  BY <1>8

(* Two such functions agree on the subsets they share. *)
LEMMA SumUnique ==
  ASSUME NEW f, NEW S, IsFiniteSet(S), NEW R \in SUBSET S,
         NEW g, IsSum(g, f, S), NEW h, IsSum(h, f, R)
  PROVE  g[R] = h[R]
<1> DEFINE N == {s \in SUBSET R : g[s] # h[s]}
<1> SUFFICES ASSUME N # {} PROVE FALSE
  OBVIOUS
<1>1. IsFiniteSet(R)
  BY FS_Subset
<1>2. PICK s \in N : \A t \in SUBSET s : t # s => t \notin N
  <2>1. N \subseteq SUBSET R
    OBVIOUS
  <2> HIDE DEF N
  <2>2. QED
    BY <1>1, <2>1, MinimalSubset
<1>3. \A x \in s : g[s \ {x}] = h[s \ {x}]
  BY <1>2
<1>4. g[s] = Body(f, g, s) /\ h[s] = Body(f, h, s)
  BY <1>2 DEF IsSum
<1>5. QED
  BY <1>2, <1>3, <1>4, BodyLocal

(* One unfolding of the sum, for the element the fold happens to choose. *)
LEMMA SumUnfold ==
  ASSUME NEW f, NEW S, IsFiniteSet(S)
  PROVE  /\ S = {} => SumFunctionOnSet(f, S) = 0
         /\ S # {} => \E c \in S : SumFunctionOnSet(f, S) = f[c] + SumFunctionOnSet(f, S \ {c})
<1>1. PICK g : IsSum(g, f, S) /\ SumFunctionOnSet(f, S) = g[S]
  BY SumExists, SumByChoice
<1>2. g[S] = Body(f, g, S)
  BY <1>1 DEF IsSum
<1>3. CASE S = {}
  BY <1>1, <1>2, <1>3 DEF Body
<1>4. CASE S # {}
  <2>1. PICK c \in S : c = CHOOSE x \in S : TRUE
    BY <1>4
  <2>2. SumFunctionOnSet(f, S) = f[c] + g[S \ {c}]
    BY <1>1, <1>2, <1>4, <2>1 DEF Body
  <2>3. IsFiniteSet(S \ {c})
    BY FS_RemoveElement
  <2>4. PICK h : IsSum(h, f, S \ {c}) /\ SumFunctionOnSet(f, S \ {c}) = h[S \ {c}]
    BY <2>3, SumExists, SumByChoice
  <2>5. g[S \ {c}] = h[S \ {c}]
    BY <1>1, <2>4, SumUnique
  <2>6. QED
    BY <1>4, <2>2, <2>4, <2>5
<1>5. QED
  BY <1>3, <1>4

(* A sum of natural numbers is one. *)
LEMMA SumType ==
  ASSUME NEW S, IsFiniteSet(S), NEW f, \A x \in S : f[x] \in Nat
  PROVE  SumFunctionOnSet(f, S) \in Nat
<1> DEFINE N == {s \in SUBSET S : SumFunctionOnSet(f, s) \notin Nat}
<1> SUFFICES ASSUME N # {} PROVE FALSE
  OBVIOUS
<1>1. PICK s \in N : \A t \in SUBSET s : t # s => t \notin N
  <2>1. N \subseteq SUBSET S
    OBVIOUS
  <2> HIDE DEF N
  <2>2. QED
    BY <2>1, MinimalSubset
<1>2. IsFiniteSet(s)
  BY FS_Subset
<1>3. s # {}
  BY <1>1, <1>2, SumUnfold
<1>4. PICK c \in s : SumFunctionOnSet(f, s) = f[c] + SumFunctionOnSet(f, s \ {c})
  BY <1>2, <1>3, SumUnfold
<1>5. SumFunctionOnSet(f, s \ {c}) \in Nat
  BY <1>1
<1>6. f[c] \in Nat
  BY <1>1
<1>7. QED
  BY <1>1, <1>4, <1>5, <1>6

(* The sum does not depend on the order: any element may be taken out first. *)
LEMMA SumRemove ==
  ASSUME NEW S, IsFiniteSet(S), NEW f, \A x \in S : f[x] \in Nat, NEW x \in S
  PROVE  SumFunctionOnSet(f, S) = f[x] + SumFunctionOnSet(f, S \ {x})
<1> DEFINE Sum(s) == SumFunctionOnSet(f, s)
           N == {s \in SUBSET S : \E y \in s : Sum(s) # f[y] + Sum(s \ {y})}
<1> SUFFICES ASSUME N # {} PROVE FALSE
  OBVIOUS
<1>1. PICK s \in N : \A t \in SUBSET s : t # s => t \notin N
  <2>1. N \subseteq SUBSET S
    OBVIOUS
  <2> HIDE DEF N
  <2>2. QED
    BY <2>1, MinimalSubset
<1>2. PICK y \in s : Sum(s) # f[y] + Sum(s \ {y})
  BY <1>1
<1>3. IsFiniteSet(s)
  BY FS_Subset
<1>4. PICK c \in s : Sum(s) = f[c] + Sum(s \ {c})
  BY <1>2, <1>3, SumUnfold
<1>5. c # y
  BY <1>2, <1>4
<1>6. Sum(s \ {c}) = f[y] + Sum((s \ {c}) \ {y})
  BY <1>1, <1>4, <1>5
<1>7. Sum(s \ {y}) = f[c] + Sum((s \ {y}) \ {c})
  BY <1>1, <1>2, <1>5
<1>8. (s \ {y}) \ {c} = (s \ {c}) \ {y}
  OBVIOUS
<1>9. /\ f[c] \in Nat /\ f[y] \in Nat
      /\ Sum((s \ {c}) \ {y}) \in Nat
  <2>1. IsFiniteSet((s \ {c}) \ {y})
    BY <1>3, FS_RemoveElement
  <2>2. QED
    BY <1>1, <2>1, SumType
<1> HIDE DEF Sum, N
<1>10. QED
  BY <1>2, <1>4, <1>6, <1>7, <1>8, <1>9

(* The sum depends on the values at the elements only. *)
LEMMA SumCongruence ==
  ASSUME NEW S, IsFiniteSet(S), NEW f, NEW g,
         \A x \in S : f[x] \in Nat /\ g[x] = f[x]
  PROVE  SumFunctionOnSet(f, S) = SumFunctionOnSet(g, S)
<1> DEFINE T == {s \in SUBSET S : SumFunctionOnSet(f, s) = SumFunctionOnSet(g, s)}
<1>1. {} \in T
  BY FS_EmptySet, SumUnfold
<1>2. ASSUME NEW s \in SUBSET S, NEW x \in S, s \in T, x \notin s
      PROVE  s \cup {x} \in T
  <2>1. /\ IsFiniteSet(s \cup {x})
        /\ (s \cup {x}) \ {x} = s
        /\ x \in s \cup {x}
        /\ \A y \in s \cup {x} : f[y] \in Nat /\ g[y] \in Nat
    BY <1>2, FS_Subset
  <2>2. SumFunctionOnSet(f, s \cup {x}) = f[x] + SumFunctionOnSet(f, s)
    BY <2>1, SumRemove
  <2>3. SumFunctionOnSet(g, s \cup {x}) = g[x] + SumFunctionOnSet(g, s)
    BY <2>1, SumRemove
  <2>4. QED
    BY <1>2, <2>2, <2>3
<1> HIDE DEF T
<1>3. S \in T
  BY <1>1, <1>2, FiniteSetInduction
<1>4. QED
  BY <1>3 DEF T

(* The sum over one more element *)
LEMMA SumAdd ==
  ASSUME NEW S, IsFiniteSet(S), NEW x, x \notin S,
         NEW f, \A y \in S \cup {x} : f[y] \in Nat
  PROVE  SumFunctionOnSet(f, S \cup {x}) = f[x] + SumFunctionOnSet(f, S)
<1>1. IsFiniteSet(S \cup {x}) /\ (S \cup {x}) \ {x} = S /\ x \in S \cup {x}
  BY FS_AddElement
<1>2. QED
  BY <1>1, SumRemove

(* Sizes of disjoint sets add up. *)
LEMMA DisjointUnion ==
  ASSUME NEW A, IsFiniteSet(A), NEW B, IsFiniteSet(B), A \cap B = {}
  PROVE  /\ IsFiniteSet(A \cup B)
         /\ Cardinality(A \cup B) = Cardinality(A) + Cardinality(B)
<1>1. Cardinality(A \cap B) = 0
  BY FS_EmptySet
<1>2. Cardinality(A) \in Nat /\ Cardinality(B) \in Nat
  BY FS_CardinalityType
<1>3. /\ IsFiniteSet(A \cup B)
      /\ Cardinality(A \cup B) = Cardinality(A) + Cardinality(B) - Cardinality(A \cap B)
  BY FS_Union, Zenon
<1> DEFINE a == Cardinality(A)
           b == Cardinality(B)
           u == Cardinality(A \cup B)
           i == Cardinality(A \cap B)
<1>4. a \in Nat /\ b \in Nat /\ i = 0 /\ u = a + b - i
  BY <1>1, <1>2, <1>3, Zenon
<1>5. u = a + b
  <2> HIDE DEF a, b, u, i
  <2>1. QED
    BY <1>4
<1>6. QED
  BY <1>3, <1>5, Zenon

(* The image of a finite set under a function is finite. *)
LEMMA ImageFinite ==
  ASSUME NEW C, IsFiniteSet(C), NEW key
  PROVE  IsFiniteSet({key[c] : c \in C})
<1> DEFINE T == {A \in SUBSET C : IsFiniteSet({key[c] : c \in A})}
<1>1. {} \in T
  <2>1. {key[c] : c \in {}} = {}
    OBVIOUS
  <2>2. QED
    BY <2>1, FS_EmptySet
<1>2. ASSUME NEW A \in SUBSET C, NEW x \in C, A \in T, x \notin A
      PROVE  A \cup {x} \in T
  <2>1. {key[c] : c \in A \cup {x}} = {key[c] : c \in A} \cup {key[x]}
    OBVIOUS
  <2>2. IsFiniteSet({key[c] : c \in A} \cup {key[x]})
    BY <1>2, FS_AddElement
  <2>3. QED
    BY <2>1, <2>2
<1> HIDE DEF T
<1>3. C \in T
  BY <1>1, <1>2, FiniteSetInduction
<1>4. QED
  BY <1>3 DEF T

(* The elements of C with the key k, and with a key in K *)
Fibre(C, key, k) == {c \in C : key[c] = k}
Within(C, key, K) == {c \in C : key[c] \in K}

(* Counting by keys: the sizes of the fibres of key over K add up to the   *)
(* number of elements whose key is in K.                                   *)
LEMMA SumOfFibres ==
  ASSUME NEW C, IsFiniteSet(C), NEW key, NEW K, IsFiniteSet(K), NEW f,
         \A k \in K : f[k] = Cardinality(Fibre(C, key, k))
  PROVE  SumFunctionOnSet(f, K) = Cardinality(Within(C, key, K))
<1> USE DEF Fibre, Within
<1> DEFINE Over(s) == {c \in C : key[c] \in s}
           T == {s \in SUBSET K : SumFunctionOnSet(f, s) = Cardinality(Over(s))}
<1>0. \A k \in K : f[k] \in Nat
  <2>1. \A k : IsFiniteSet({c \in C : key[c] = k})
    BY FS_Subset
  <2>2. QED
    BY <2>1, FS_CardinalityType
<1>1. {} \in T
  <2>1. Over({}) = {}
    OBVIOUS
  <2>2. QED
    BY <2>1, FS_EmptySet, SumUnfold
<1>2. ASSUME NEW s \in SUBSET K, NEW k \in K, s \in T, k \notin s
      PROVE  s \cup {k} \in T
  <2>1. SumFunctionOnSet(f, s \cup {k}) = f[k] + SumFunctionOnSet(f, s)
    <3>1. IsFiniteSet(s)
      BY FS_Subset
    <3>2. \A y \in s \cup {k} : f[y] \in Nat
      BY <1>0
    <3>3. QED
      BY <1>2, <3>1, <3>2, SumAdd
  <2> DEFINE F == {c \in C : key[c] = k}
  <2>2. /\ Over(s \cup {k}) = Over(s) \cup F
        /\ Over(s) \cap F = {}
        /\ IsFiniteSet(Over(s)) /\ IsFiniteSet(F)
    BY <1>2, FS_Subset
  <2>3. Cardinality(Over(s \cup {k})) = Cardinality(Over(s)) + Cardinality(F)
    <3> DEFINE O == Over(s)
               P == Over(s \cup {k})
    <3>1. P = O \cup F /\ O \cap F = {} /\ IsFiniteSet(O) /\ IsFiniteSet(F)
      BY <2>2
    <3>2. Cardinality(P) = Cardinality(O) + Cardinality(F)
      <4> HIDE DEF O, P, F
      <4>1. QED
        BY <3>1, DisjointUnion
    <3>3. QED
      BY <3>2
  <2>4. Cardinality(Over(s)) \in Nat /\ f[k] \in Nat /\ f[k] = Cardinality(F)
    BY <1>0, <2>2, FS_CardinalityType
  <2>5. s \in T => SumFunctionOnSet(f, s) = Cardinality(Over(s))
    OBVIOUS
  <2> HIDE DEF Over, F
  <2>6. SumFunctionOnSet(f, s \cup {k}) = Cardinality(Over(s \cup {k}))
    BY <1>2, <2>1, <2>3, <2>4, <2>5
  <2>7. QED
    BY <2>6
<1> HIDE DEF T
<1>3. K \in T
  BY <1>1, <1>2, FiniteSetInduction
<1>4. QED
  BY <1>3 DEF T

=============================================================================
