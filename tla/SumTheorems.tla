----------------------------- MODULE SumTheorems -----------------------------
(***************************************************************************)
(* Sums over finite sets, for the proofs about amounts: SumFunctionOnSet   *)
(* of the community modules adds up a function's values on a set.  It is   *)
(* defined by a choice of a recursive function on the subsets of the set;  *)
(* that the choice exists, and what it adds up to, is shown by induction,  *)
(* stated of sets: a set of naturals or of subsets that is closed under    *)
(* the induction step has them all, for its complement has no least one.   *)
(***************************************************************************)
EXTENDS Functions, FiniteSetTheorems, WellFoundedInduction, TLAPS

\* Induction over the naturals, stated of a set.
LEMMA SetInduction ==
  ASSUME NEW T, 0 \in T, \A n \in Nat : n \in T => n + 1 \in T
  PROVE  Nat \subseteq T
<1> SUFFICES ASSUME Nat \ T # {} PROVE FALSE
  OBVIOUS
<1>1. PICK n \in Nat \ T : \A m \in Nat \ T : ~(<<m, n>> \in OpToRel(<, Nat))
  <2>1. IsWellFoundedOn(OpToRel(<, Nat), Nat)
    BY NatLessThanWellFounded
  <2> HIDE DEF OpToRel
  <2> QED BY <2>1, WFMin
<1>2. \A m \in Nat \ T : ~(m < n)
  BY <1>1 DEF OpToRel
<1>3. n # 0 /\ n - 1 \in Nat
  OBVIOUS
<1>4. n - 1 \in T
  BY <1>2, <1>3
<1> QED BY <1>3, <1>4

\* Induction over the subsets of a finite set, stated of a set of subsets.
LEMMA SubsetInduction ==
  ASSUME NEW S, IsFiniteSet(S), NEW T, {} \in T,
         \A s \in SUBSET S : (s # {} /\ \A x \in s : s \ {x} \in T) => s \in T
  PROVE  SUBSET S \subseteq T
<1> SUFFICES ASSUME (SUBSET S) \ T # {} PROVE FALSE
  OBVIOUS
<1> DEFINE U == (SUBSET S) \ T
<1>1. U \subseteq FiniteSubsetsOf(S) /\ U # {}
  BY FS_Subset DEF FiniteSubsetsOf
<1>2. PICK s \in U : \A t \in U : <<t, s>> \notin StrictSubsetOrdering(S)
  <2> HIDE DEF U
  <2> QED BY <1>1, FS_StrictSubsetOrderingWellFounded, WFMin
<1>3. \A x \in s : s \ {x} \in T
  <2> SUFFICES ASSUME NEW x \in s, s \ {x} \notin T PROVE FALSE
    OBVIOUS
  <2>1. <<s \ {x}, s>> \in StrictSubsetOrdering(S)
    BY DEF StrictSubsetOrdering
  <2> QED BY <1>2, <2>1
<1>4. s \in SUBSET S /\ s \notin T
  BY <1>2
<1> QED BY <1>3, <1>4

-----------------------------------------------------------------------------
(* The fold *)

\* What the fold computes of a subset, given its values of smaller ones.
Chosen(s) == CHOOSE x \in s : TRUE
SumStep(g, f, s) == IF s = {} THEN 0 ELSE f[Chosen(s)] + g[s \ {Chosen(s)}]

\* g is that fold on the sets of D.
Iterates(g, f, D) == g = [s \in D |-> SumStep(g, f, s)]

\* The sum is the value, at the whole set, of a chosen iteration.
LEMMA SumIsChosen ==
  ASSUME NEW f, NEW S
  PROVE  SumFunctionOnSet(f, S) = (CHOOSE g : Iterates(g, f, SUBSET S))[S]
BY DEF SumFunctionOnSet, FoldFunctionOnSet, MapThenFoldSet, Iterates, SumStep, Chosen

\* There is one: on the sets of at most n elements, for every n.
LEMMA IterationExists ==
  ASSUME NEW f, NEW S, IsFiniteSet(S)
  PROVE  \E g : Iterates(g, f, SUBSET S)
<1> DEFINE D(n) == {s \in SUBSET S : Cardinality(s) <= n}
           T == {n \in Nat : \E g : Iterates(g, f, D(n))}
<1>0. ASSUME NEW s \in SUBSET S
      PROVE  /\ IsFiniteSet(s) /\ Cardinality(s) \in Nat
             /\ Cardinality(s) <= Cardinality(S)
             /\ s # {} => /\ Chosen(s) \in s
                          /\ Cardinality(s \ {Chosen(s)}) = Cardinality(s) - 1
             /\ (Cardinality(s) = 0 <=> s = {})
  <2>1. IsFiniteSet(s) /\ Cardinality(s) <= Cardinality(S)
    BY FS_Subset
  <2>2. Cardinality(s) \in Nat
    BY <2>1, FS_CardinalityType
  <2>3. Cardinality(s) = 0 <=> s = {}
    BY <2>1, FS_EmptySet
  <2>4. s # {} => Chosen(s) \in s
    BY DEF Chosen
  <2>5. s # {} => Cardinality(s \ {Chosen(s)}) = Cardinality(s) - 1
    BY <2>1, <2>4, FS_RemoveElement
  <2> QED BY <2>1, <2>2, <2>3, <2>4, <2>5
<1>1. 0 \in T
  <2> DEFINE g == [s \in D(0) |-> 0]
  <2>1. ASSUME NEW s \in D(0) PROVE s = {}
    <3>1. Cardinality(s) \in Nat /\ (Cardinality(s) = 0 <=> s = {})
      BY <1>0
    <3> QED BY <3>1
  <2>2. Iterates(g, f, D(0))
    BY <2>1 DEF Iterates, SumStep
  <2> QED BY <2>2
<1>2. ASSUME NEW n \in Nat, n \in T PROVE n + 1 \in T
  <2>1. PICK g : Iterates(g, f, D(n))
    BY <1>2
  <2> DEFINE h == [s \in D(n + 1) |-> SumStep(g, f, s)]
  <2>2. ASSUME NEW s \in D(n) PROVE s \in D(n + 1) /\ h[s] = g[s]
    <3>1. s \in D(n + 1)
      <4>1. s \in SUBSET S /\ Cardinality(s) \in Nat /\ Cardinality(s) <= n
        BY <1>0
      <4> QED BY <4>1
    <3>2. h[s] = SumStep(g, f, s)
      BY <3>1
    <3>3. g[s] = SumStep(g, f, s)
      <4> HIDE DEF D
      <4> QED BY <2>1 DEF Iterates
    <3> QED BY <3>1, <3>2, <3>3
  <2>3. ASSUME NEW s \in D(n + 1), s # {} PROVE s \ {Chosen(s)} \in D(n)
    <3>1. Cardinality(s \ {Chosen(s)}) = Cardinality(s) - 1 /\ Cardinality(s) \in Nat
      BY <1>0, <2>3
    <3>2. s \ {Chosen(s)} \in SUBSET S
      OBVIOUS
    <3> QED BY <3>1, <3>2
  <2>4. \A s \in D(n + 1) : h[s] = SumStep(h, f, s)
    BY <2>2, <2>3 DEF SumStep
  <2>5. Iterates(h, f, D(n + 1))
    BY <2>4 DEF Iterates
  <2> HIDE DEF h, D
  <2> QED BY <2>5
<1>3. Cardinality(S) \in T
  <2> HIDE DEF T
  <2> QED BY <1>0, <1>1, <1>2, SetInduction
<1>4. D(Cardinality(S)) = SUBSET S
  BY <1>0
<1> QED BY <1>3, <1>4

\* Its value at a subset does not depend on how far it goes on.
LEMMA IterationUnique ==
  ASSUME NEW f, NEW S, IsFiniteSet(S), NEW T \in SUBSET S, NEW g, NEW h,
         Iterates(g, f, SUBSET S), Iterates(h, f, SUBSET T)
  PROVE  g[T] = h[T]
<1> DEFINE U == {s \in SUBSET T : g[s] = h[s]}
<1>1. IsFiniteSet(T)
  BY FS_Subset
<1>2. {} \in U
  BY DEF Iterates, SumStep
<1>3. ASSUME NEW s \in SUBSET T, s # {}, \A x \in s : s \ {x} \in U
      PROVE  s \in U
  <2>1. Chosen(s) \in s
    BY <1>3 DEF Chosen
  <2>2. g[s] = SumStep(g, f, s) /\ h[s] = SumStep(h, f, s)
    BY DEF Iterates
  <2> QED BY <1>3, <2>1, <2>2 DEF SumStep
<1>4. SUBSET T \subseteq U
  <2> HIDE DEF U
  <2> QED BY <1>1, <1>2, <1>3, SubsetInduction
<1> QED BY <1>4

\* The sum, unfolded once.
LEMMA SumUnfolded ==
  ASSUME NEW f, NEW S, IsFiniteSet(S)
  PROVE  SumFunctionOnSet(f, S) =
           IF S = {} THEN 0 ELSE f[Chosen(S)] + SumFunctionOnSet(f, S \ {Chosen(S)})
<1> DEFINE R == S \ {Chosen(S)}
           g == CHOOSE g : Iterates(g, f, SUBSET S)
           h == CHOOSE h : Iterates(h, f, SUBSET R)
<1>1. IsFiniteSet(R)
  BY FS_Subset
<1>2. Iterates(g, f, SUBSET S) /\ Iterates(h, f, SUBSET R)
  BY <1>1, IterationExists
<1>3. SumFunctionOnSet(f, S) = g[S] /\ SumFunctionOnSet(f, R) = h[R]
  BY SumIsChosen
<1> HIDE DEF g, h
<1>4. g[S] = SumStep(g, f, S)
  BY <1>2 DEF Iterates
<1>5. g[R] = h[R]
  BY <1>2, IterationUnique
<1> QED BY <1>3, <1>4, <1>5 DEF SumStep

-----------------------------------------------------------------------------
(* What the sum of a function over a finite set is, whatever the order *)

\* Nothing adds up to zero.
LEMMA SumEmpty == ASSUME NEW f PROVE SumFunctionOnSet(f, {}) = 0
BY SumUnfolded, FS_EmptySet

\* Integers add up to an integer.
LEMMA SumInt ==
  ASSUME NEW f, NEW S, IsFiniteSet(S), \A x \in S : f[x] \in Int
  PROVE  SumFunctionOnSet(f, S) \in Int
<1> DEFINE T == {s \in SUBSET S : SumFunctionOnSet(f, s) \in Int}
<1>1. {} \in T
  BY SumEmpty
<1>2. ASSUME NEW s \in SUBSET S, s # {}, \A x \in s : s \ {x} \in T
      PROVE  s \in T
  <2>1. Chosen(s) \in s
    BY <1>2 DEF Chosen
  <2>2. SumFunctionOnSet(f, s) = f[Chosen(s)] + SumFunctionOnSet(f, s \ {Chosen(s)})
    BY <1>2, FS_Subset, SumUnfolded
  <2> QED BY <1>2, <2>1, <2>2
<1>3. SUBSET S \subseteq T
  <2> HIDE DEF T
  <2> QED BY <1>1, <1>2, SubsetInduction
<1> QED BY <1>3

\* Naturals add up to a natural.
LEMMA SumNat ==
  ASSUME NEW f, NEW S, IsFiniteSet(S), \A x \in S : f[x] \in Nat
  PROVE  SumFunctionOnSet(f, S) \in Nat
<1> DEFINE T == {s \in SUBSET S : SumFunctionOnSet(f, s) \in Nat}
<1>1. {} \in T
  BY SumEmpty
<1>2. ASSUME NEW s \in SUBSET S, s # {}, \A x \in s : s \ {x} \in T
      PROVE  s \in T
  <2>1. Chosen(s) \in s
    BY <1>2 DEF Chosen
  <2>2. SumFunctionOnSet(f, s) = f[Chosen(s)] + SumFunctionOnSet(f, s \ {Chosen(s)})
    BY <1>2, FS_Subset, SumUnfolded
  <2> QED BY <1>2, <2>1, <2>2
<1>3. SUBSET S \subseteq T
  <2> HIDE DEF T
  <2> QED BY <1>1, <1>2, SubsetInduction
<1> QED BY <1>3

\* Any element may be taken out first.
LEMMA SumRemove ==
  ASSUME NEW f, NEW S, IsFiniteSet(S), \A x \in S : f[x] \in Int, NEW e \in S
  PROVE  SumFunctionOnSet(f, S) = f[e] + SumFunctionOnSet(f, S \ {e})
<1> DEFINE Sum(s) == SumFunctionOnSet(f, s)
           T == {s \in SUBSET S : \A x \in s : Sum(s) = f[x] + Sum(s \ {x})}
<1>1. {} \in T
  OBVIOUS
<1>2. ASSUME NEW s \in SUBSET S, s # {}, \A x \in s : s \ {x} \in T
      PROVE  s \in T
  <2> SUFFICES ASSUME NEW x \in s PROVE Sum(s) = f[x] + Sum(s \ {x})
    OBVIOUS
  <2> DEFINE c == Chosen(s)
  <2>1. c \in s
    BY <1>2 DEF Chosen
  <2>2. Sum(s) = f[c] + Sum(s \ {c})
    BY <1>2, FS_Subset, SumUnfolded
  <2>3. CASE x = c
    BY <2>2, <2>3
  <2>4. CASE x # c
    <3>1. Sum(s \ {c}) = f[x] + Sum((s \ {c}) \ {x})
      BY <1>2, <2>1, <2>4
    <3>2. Sum(s \ {x}) = f[c] + Sum((s \ {c}) \ {x})
      <4>1. Sum(s \ {x}) = f[c] + Sum((s \ {x}) \ {c})
        BY <1>2, <2>1, <2>4
      <4>2. (s \ {c}) \ {x} = (s \ {x}) \ {c}
        OBVIOUS
      <4> QED BY <4>1, <4>2
    <3>3. Sum((s \ {c}) \ {x}) \in Int
      BY FS_Subset, SumInt
    <3>4. f[c] \in Int /\ f[x] \in Int
      BY <2>1
    <3> QED BY <2>2, <3>1, <3>2, <3>3, <3>4
  <2> QED BY <2>3, <2>4
<1>3. SUBSET S \subseteq T
  <2> HIDE DEF T
  <2> QED BY <1>1, <1>2, SubsetInduction
<1> QED BY <1>3

\* A new element adds its value.
LEMMA SumInsert ==
  ASSUME NEW f, NEW S, IsFiniteSet(S), NEW e, e \notin S,
         \A x \in S \cup {e} : f[x] \in Int
  PROVE  /\ SumFunctionOnSet(f, S \cup {e}) = f[e] + SumFunctionOnSet(f, S)
         /\ IsFiniteSet(S \cup {e})
<1>1. IsFiniteSet(S \cup {e})
  BY FS_AddElement
<1>2. (S \cup {e}) \ {e} = S
  OBVIOUS
<1> QED BY <1>1, <1>2, SumRemove

\* One element adds up to its value.
LEMMA SumSingle ==
  ASSUME NEW f, NEW e, f[e] \in Int
  PROVE  SumFunctionOnSet(f, {e}) = f[e]
<1>1. IsFiniteSet({e}) /\ e \in {e} /\ {e} \ {e} = {}
  BY FS_Singleton
<1> QED BY <1>1, SumRemove, SumEmpty

\* The sum grows with the values.
LEMMA SumMonotone ==
  ASSUME NEW f, NEW g, NEW S, IsFiniteSet(S),
         \A x \in S : f[x] \in Int /\ g[x] \in Int /\ f[x] <= g[x]
  PROVE  SumFunctionOnSet(f, S) <= SumFunctionOnSet(g, S)
<1> DEFINE T == {s \in SUBSET S : SumFunctionOnSet(f, s) <= SumFunctionOnSet(g, s)}
<1>1. {} \in T
  BY SumEmpty
<1>2. ASSUME NEW s \in SUBSET S, s # {}, \A x \in s : s \ {x} \in T
      PROVE  s \in T
  <2>1. PICK x \in s : TRUE
    BY <1>2
  <2>2. /\ SumFunctionOnSet(f, s) = f[x] + SumFunctionOnSet(f, s \ {x})
        /\ SumFunctionOnSet(g, s) = g[x] + SumFunctionOnSet(g, s \ {x})
    BY FS_Subset, SumRemove
  <2>3. SumFunctionOnSet(f, s \ {x}) \in Int /\ SumFunctionOnSet(g, s \ {x}) \in Int
    BY FS_Subset, SumInt
  <2>4. SumFunctionOnSet(f, s \ {x}) <= SumFunctionOnSet(g, s \ {x})
    BY <1>2
  <2>5. f[x] \in Int /\ g[x] \in Int /\ f[x] <= g[x]
    OBVIOUS
  <2> QED BY <2>2, <2>3, <2>4, <2>5
<1>3. SUBSET S \subseteq T
  <2> HIDE DEF T
  <2> QED BY <1>1, <1>2, SubsetInduction
<1> QED BY <1>3

\* It depends on the function's values on the set alone.
LEMMA SumSame ==
  ASSUME NEW f, NEW g, NEW S, IsFiniteSet(S), \A x \in S : f[x] = g[x]
  PROVE  SumFunctionOnSet(f, S) = SumFunctionOnSet(g, S)
<1> DEFINE T == {s \in SUBSET S : SumFunctionOnSet(f, s) = SumFunctionOnSet(g, s)}
<1>1. {} \in T
  BY SumEmpty
<1>2. ASSUME NEW s \in SUBSET S, s # {}, \A x \in s : s \ {x} \in T
      PROVE  s \in T
  <2>1. Chosen(s) \in s
    BY <1>2 DEF Chosen
  <2>2. /\ SumFunctionOnSet(f, s) = f[Chosen(s)] + SumFunctionOnSet(f, s \ {Chosen(s)})
        /\ SumFunctionOnSet(g, s) = g[Chosen(s)] + SumFunctionOnSet(g, s \ {Chosen(s)})
    BY <1>2, FS_Subset, SumUnfolded
  <2> QED BY <1>2, <2>1, <2>2
<1>3. SUBSET S \subseteq T
  <2> HIDE DEF T
  <2> QED BY <1>1, <1>2, SubsetInduction
<1> QED BY <1>3

\* One value changes.
LEMMA SumChanged ==
  ASSUME NEW f, NEW g, NEW S, IsFiniteSet(S), NEW e \in S,
         \A x \in S : f[x] \in Int /\ g[x] \in Int,
         \A x \in S \ {e} : f[x] = g[x]
  PROVE  SumFunctionOnSet(g, S) = SumFunctionOnSet(f, S) - f[e] + g[e]
<1>1. /\ SumFunctionOnSet(f, S) = f[e] + SumFunctionOnSet(f, S \ {e})
      /\ SumFunctionOnSet(g, S) = g[e] + SumFunctionOnSet(g, S \ {e})
  BY SumRemove
<1>2. SumFunctionOnSet(f, S \ {e}) = SumFunctionOnSet(g, S \ {e})
  BY FS_Subset, SumSame
<1>3. SumFunctionOnSet(f, S \ {e}) \in Int
  BY FS_Subset, SumInt
<1> QED BY <1>1, <1>2, <1>3

\* Disjoint sets add up separately.
LEMMA SumUnion ==
  ASSUME NEW f, NEW R, NEW S, IsFiniteSet(R), IsFiniteSet(S), R \cap S = {},
         \A x \in R \cup S : f[x] \in Int
  PROVE  SumFunctionOnSet(f, R \cup S) = SumFunctionOnSet(f, R) + SumFunctionOnSet(f, S)
<1> DEFINE T == {s \in SUBSET S : SumFunctionOnSet(f, R \cup s)
                                   = SumFunctionOnSet(f, R) + SumFunctionOnSet(f, s)}
<1>0. SumFunctionOnSet(f, R) \in Int
  BY SumInt
<1>1. {} \in T
  <2>1. R \cup {} = R
    OBVIOUS
  <2> QED BY <1>0, <2>1, SumEmpty
<1>2. ASSUME NEW s \in SUBSET S, s # {}, \A x \in s : s \ {x} \in T
      PROVE  s \in T
  <2>1. PICK x \in s : TRUE
    BY <1>2
  <2>2. IsFiniteSet(s) /\ IsFiniteSet(s \ {x}) /\ IsFiniteSet(R \cup s)
    BY FS_Subset, FS_Union
  <2>3. SumFunctionOnSet(f, s) = f[x] + SumFunctionOnSet(f, s \ {x})
    BY <2>2, SumRemove
  <2>4. SumFunctionOnSet(f, R \cup s) = f[x] + SumFunctionOnSet(f, R \cup (s \ {x}))
    <3>1. SumFunctionOnSet(f, R \cup s) = f[x] + SumFunctionOnSet(f, (R \cup s) \ {x})
      BY <2>2, SumRemove
    <3>2. (R \cup s) \ {x} = R \cup (s \ {x})
      OBVIOUS
    <3> QED BY <3>1, <3>2
  <2>6. SumFunctionOnSet(f, s \ {x}) \in Int
    BY <2>2, SumInt
  <2>7. SumFunctionOnSet(f, R \cup (s \ {x}))
          = SumFunctionOnSet(f, R) + SumFunctionOnSet(f, s \ {x})
    BY <1>2
  <2>8. f[x] \in Int
    OBVIOUS
  <2> QED BY <1>0, <2>3, <2>4, <2>6, <2>7, <2>8
<1>3. SUBSET S \subseteq T
  <2> HIDE DEF T
  <2> QED BY <1>1, <1>2, SubsetInduction
<1> QED BY <1>3

\* Zeros may be left out.
LEMMA SumOfNonzero ==
  ASSUME NEW f, NEW S, IsFiniteSet(S), NEW T \in SUBSET S,
         \A x \in S : f[x] \in Int, \A x \in S \ T : f[x] = 0
  PROVE  SumFunctionOnSet(f, S) = SumFunctionOnSet(f, T)
<1> DEFINE R == S \ T
<1>0. IsFiniteSet(R) /\ \A x \in R : f[x] = 0
  BY FS_Subset
<1>1. IsFiniteSet(T) /\ T \cup R = S /\ T \cap R = {}
  BY FS_Subset
<1>2. SumFunctionOnSet(f, S) = SumFunctionOnSet(f, T) + SumFunctionOnSet(f, R)
  BY <1>0, <1>1, SumUnion
<1> HIDE DEF R
<1>3. SumFunctionOnSet(f, R) = 0
  <2> DEFINE U == {s \in SUBSET R : SumFunctionOnSet(f, s) = 0}
  <2>1. {} \in U
    BY SumEmpty
  <2>2. ASSUME NEW s \in SUBSET R, s # {}, \A x \in s : s \ {x} \in U
        PROVE  s \in U
    <3>1. Chosen(s) \in s
      BY <2>2 DEF Chosen
    <3>2. SumFunctionOnSet(f, s) = f[Chosen(s)] + SumFunctionOnSet(f, s \ {Chosen(s)})
      BY <1>0, <2>2, FS_Subset, SumUnfolded
    <3> QED BY <1>0, <2>2, <3>1, <3>2
  <2>3. SUBSET R \subseteq U
    <3> HIDE DEF U
    <3> QED BY <1>0, <2>1, <2>2, SubsetInduction
  <2> QED BY <2>3
<1>4. SumFunctionOnSet(f, T) \in Int
  BY <1>1, SumInt
<1> QED BY <1>2, <1>3, <1>4

\* Leaving out natural numbers makes a sum no larger.
LEMMA SumOfPart ==
  ASSUME NEW f, NEW S, IsFiniteSet(S), NEW T \in SUBSET S, \A x \in S : f[x] \in Nat
  PROVE  /\ SumFunctionOnSet(f, T) <= SumFunctionOnSet(f, S)
         /\ SumFunctionOnSet(f, T) \in Nat /\ SumFunctionOnSet(f, S) \in Nat
<1>1. IsFiniteSet(T) /\ IsFiniteSet(S \ T) /\ T \cup (S \ T) = S /\ T \cap (S \ T) = {}
  BY FS_Subset
<1>2. SumFunctionOnSet(f, S) = SumFunctionOnSet(f, T) + SumFunctionOnSet(f, S \ T)
  BY <1>1, SumUnion
<1>3. /\ SumFunctionOnSet(f, T) \in Nat /\ SumFunctionOnSet(f, S \ T) \in Nat
      /\ SumFunctionOnSet(f, S) \in Nat
  BY <1>1, SumNat
<1> QED BY <1>2, <1>3

\* Summing over other names of the elements.
LEMMA SumRenamed ==
  ASSUME NEW f, NEW S, IsFiniteSet(S), NEW g, NEW b,
         \A x \in S : g[x] \in Int /\ g[x] = f[b[x]],
         \A x, y \in S : b[x] = b[y] => x = y
  PROVE  SumFunctionOnSet(g, S) = SumFunctionOnSet(f, {b[x] : x \in S})
<1> DEFINE Image(s) == {b[x] : x \in s}
           T == {s \in SUBSET S : /\ SumFunctionOnSet(g, s) = SumFunctionOnSet(f, Image(s))
                                  /\ IsFiniteSet(Image(s))}
<1>1. {} \in T
  <2>1. Image({}) = {}
    OBVIOUS
  <2> QED BY <2>1, SumEmpty, FS_EmptySet
<1>2. ASSUME NEW s \in SUBSET S, s # {}, \A x \in s : s \ {x} \in T
      PROVE  s \in T
  <2>1. PICK x \in s : TRUE
    BY <1>2
  <2>2. SumFunctionOnSet(g, s) = g[x] + SumFunctionOnSet(g, s \ {x})
    BY FS_Subset, SumRemove
  <2>3. /\ SumFunctionOnSet(g, s \ {x}) = SumFunctionOnSet(f, Image(s \ {x}))
        /\ IsFiniteSet(Image(s \ {x}))
    BY <1>2
  <2>4. Image(s) = Image(s \ {x}) \cup {b[x]} /\ b[x] \notin Image(s \ {x})
    OBVIOUS
  <2>5. \A y \in Image(s) : f[y] \in Int
    OBVIOUS
  <2>6. /\ SumFunctionOnSet(f, Image(s)) = f[b[x]] + SumFunctionOnSet(f, Image(s \ {x}))
        /\ IsFiniteSet(Image(s))
    <3>1. \A y \in Image(s \ {x}) \cup {b[x]} : f[y] \in Int
      BY <2>4, <2>5
    <3> HIDE DEF Image
    <3>2. /\ SumFunctionOnSet(f, Image(s \ {x}) \cup {b[x]})
               = f[b[x]] + SumFunctionOnSet(f, Image(s \ {x}))
          /\ IsFiniteSet(Image(s \ {x}) \cup {b[x]})
      BY <2>3, <2>4, <3>1, SumInsert
    <3> QED BY <2>4, <3>2
  <2>7. g[x] = f[b[x]]
    OBVIOUS
  <2> QED BY <2>2, <2>3, <2>6, <2>7
<1>3. SUBSET S \subseteq T
  <2> HIDE DEF T
  <2> QED BY <1>1, <1>2, SubsetInduction
<1> QED BY <1>3

\* The same for a set that is the image, however it is written.
LEMMA SumRenamedOnto ==
  ASSUME NEW f, NEW S, IsFiniteSet(S), NEW g, NEW b, NEW D,
         \A x \in S : g[x] \in Int /\ g[x] = f[b[x]],
         \A x, y \in S : b[x] = b[y] => x = y,
         \A y : y \in D <=> \E x \in S : y = b[x]
  PROVE  SumFunctionOnSet(g, S) = SumFunctionOnSet(f, D)
<1>1. D = {b[x] : x \in S}
  OBVIOUS
<1>2. SumFunctionOnSet(g, S) = SumFunctionOnSet(f, {b[x] : x \in S})
  BY SumRenamed
<1> QED BY <1>1, <1>2

\* "to" takes the members of S one to one to those of D, and the values of g to those of f.
Renames(to, g, S, f, D) ==
  /\ IsFiniteSet(S)
  /\ \A x \in S : g[x] \in Int /\ g[x] = f[to[x]]
  /\ \A x, y \in S : to[x] = to[y] => x = y
  /\ \A y : y \in D <=> \E x \in S : y = to[x]

LEMMA RenamedSum ==
  ASSUME NEW to, NEW g, NEW S, NEW f, NEW D, Renames(to, g, S, f, D)
  PROVE  SumFunctionOnSet(g, S) = SumFunctionOnSet(f, D)
<1>1. IsFiniteSet(S)
  BY DEF Renames
<1>2. \A x \in S : g[x] \in Int /\ g[x] = f[to[x]]
  BY DEF Renames
<1>3. \A x, y \in S : to[x] = to[y] => x = y
  BY DEF Renames
<1>4. \A y : y \in D <=> \E x \in S : y = to[x]
  BY DEF Renames
<1> QED BY <1>1, <1>2, <1>3, <1>4, SumRenamedOnto
=============================================================================
