---------------------------- MODULE SumTheorems -----------------------------
(***************************************************************************)
(* Lemmas about the sum of a function over a finite set, which the library *)
(* defines by taking one member after the other: members may be taken in   *)
(* any order, and sums compare as their terms do.                          *)
(*                                                                         *)
(* An induction over sets is stated without a predicate: a collection of   *)
(* subsets that is not empty (those that refute the claim) has one from    *)
(* which no member can be left out.                                        *)
(***************************************************************************)
EXTENDS Integers, FiniteSetsExt, FiniteSetTheorems, WellFoundedInduction, TLAPS

SumOf(h, S) == MapThenSumSet(LAMBDA x : h[x], S)

OneOf(s) == CHOOSE x \in s : TRUE

\* What a fold over S goes through: g[s] is the sum over s.
IsSum(g, h, S) ==
    g = [s \in SUBSET S |-> IF s = {} THEN 0 ELSE h[OneOf(s)] + g[s \ {OneOf(s)}]]

----------------------------------------------------------------------------
(* Induction *)

LEMMA SmallestNumber ==
    ASSUME NEW I \in SUBSET Nat, I # {}
    PROVE  \E n \in I : \A m \in I : n <= m
<1> DEFINE R == OpToRel(<, Nat)
<1>1. \A x, y \in Nat : y < x => <<y, x>> \in R
  <2>1. ASSUME NEW x \in Nat, NEW y \in Nat, y < x PROVE <<y, x>> \in R
    <3>1. <<y, x>> \in Nat \X Nat /\ <<y, x>>[1] = y /\ <<y, x>>[2] = x
      OBVIOUS
    <3> QED
      BY <2>1, <3>1 DEF OpToRel
  <2> QED
    BY <2>1
<1>2. IsWellFoundedOn(R, Nat)
  BY NatLessThanWellFounded
<1> HIDE DEF R
<1>3. PICK n \in I : \A y \in I : ~(<<y, n>> \in R)
  BY <1>2, WFMin
<1>4. ASSUME NEW m \in I PROVE n <= m
  <2>1. ~(m < n)
    BY <1>1, <1>3
  <2> QED
    BY <2>1
<1> QED
  BY <1>4

LEMMA SmallestSet ==
    ASSUME NEW S, IsFiniteSet(S), NEW B \in SUBSET (SUBSET S), B # {}
    PROVE  \E s \in B : \A x \in s : s \ {x} \notin B
<1> DEFINE I == {Cardinality(s) : s \in B}
<1>1. \A s \in B : IsFiniteSet(s) /\ Cardinality(s) \in Nat
  BY FS_Subset, FS_CardinalityType
<1>2. PICK n \in I : \A m \in I : n <= m
  <2>1. I \in SUBSET Nat /\ I # {}
    BY <1>1
  <2> HIDE DEF I
  <2> QED
    BY <2>1, SmallestNumber
<1>3. PICK s \in B : Cardinality(s) = n
  OBVIOUS
<1>4. ASSUME NEW x \in s, s \ {x} \in B PROVE FALSE
  <2>1. Cardinality(s \ {x}) = Cardinality(s) - 1
    BY <1>1, FS_RemoveElement
  <2> QED
    BY <1>1, <1>2, <1>3, <1>4, <2>1
<1> QED
  BY <1>4

----------------------------------------------------------------------------
(* The fold is what its definition says *)

LEMMA OneOfIs == ASSUME NEW s, s # {} PROVE OneOf(s) \in s
BY DEF OneOf

LEMMA SumExists ==
    ASSUME NEW S, IsFiniteSet(S), NEW h
    PROVE  \E g : IsSum(g, h, S)
<1> DEFINE D(n) == {s \in SUBSET S : Cardinality(s) <= n}
           Rec(g, s) == IF s = {} THEN 0 ELSE h[OneOf(s)] + g[s \ {OneOf(s)}]
           Bad == {n \in Nat : ~ \E g : g = [s \in D(n) |-> Rec(g, s)]}
<1>1. \A s \in SUBSET S : IsFiniteSet(s) /\ Cardinality(s) \in Nat
  BY FS_Subset, FS_CardinalityType
<1>2. Bad = {}
  <2> SUFFICES ASSUME Bad # {} PROVE FALSE
    OBVIOUS
  <2>1. PICK n \in Bad : \A m \in Bad : n <= m
    BY SmallestNumber
  <2>2. CASE n = 0
    <3> DEFINE g == [s \in D(0) |-> 0]
    <3>1. \A s \in D(0) : s = {}
      BY <1>1, FS_EmptySet
    <3>2. g = [s \in D(0) |-> Rec(g, s)]
      BY <3>1
    <3> QED
      BY <2>2, <3>2
  <2>3. CASE n # 0
    <3>1. n \in Nat /\ n - 1 \in Nat /\ n - 1 \notin Bad
      <4>1. \A m \in Bad : m \in Nat
        OBVIOUS
      <4> HIDE DEF Bad
      <4> QED
        BY <2>1, <2>3, <4>1
    <3>2. PICK g : g = [s \in D(n - 1) |-> Rec(g, s)]
      BY <3>1
    <3> DEFINE k == [s \in D(n) |-> Rec(g, s)]
    <3>3. ASSUME NEW s \in D(n), s # {} PROVE k[s \ {OneOf(s)}] = g[s \ {OneOf(s)}]
      <4>1. s \ {OneOf(s)} \in D(n - 1) /\ s \ {OneOf(s)} \in D(n)
        <5>1. Cardinality(s \ {OneOf(s)}) = Cardinality(s) - 1
          BY <1>1, <3>3, OneOfIs, FS_RemoveElement
        <5> QED
          BY <1>1, <3>1, <5>1
      <4>2. g[s \ {OneOf(s)}] = Rec(g, s \ {OneOf(s)})
        BY <3>2, <4>1
      <4>3. k[s \ {OneOf(s)}] = Rec(g, s \ {OneOf(s)})
        BY <4>1
      <4> QED
        BY <4>2, <4>3
    <3>4. \A s \in D(n) : Rec(g, s) = Rec(k, s)
      BY <3>3
    <3>5. k = [s \in D(n) |-> Rec(k, s)]
      BY <3>4
    <3> QED
      BY <2>1, <3>5
  <2> QED
    BY <2>2, <2>3
<1>3. Cardinality(S) \in Nat /\ D(Cardinality(S)) = SUBSET S
  BY <1>1, FS_Subset
<1>4. Cardinality(S) \notin Bad
  BY <1>2
<1> HIDE DEF D
<1>5. PICK g : g = [s \in D(Cardinality(S)) |-> Rec(g, s)]
  BY <1>3, <1>4
<1> QED
  BY <1>3, <1>5 DEF IsSum

LEMMA SumUnique ==
    ASSUME NEW S, IsFiniteSet(S), NEW h, NEW T \in SUBSET S,
           NEW f, IsSum(f, h, S), NEW g, IsSum(g, h, T)
    PROVE  f[T] = g[T]
<1> DEFINE B == {s \in SUBSET T : f[s] # g[s]}
<1> SUFFICES ASSUME B # {} PROVE FALSE
  OBVIOUS
<1>1. IsFiniteSet(T)
  BY FS_Subset
<1>2. PICK s \in B : \A x \in s : s \ {x} \notin B
  BY <1>1, SmallestSet
<1>3. /\ f[s] = IF s = {} THEN 0 ELSE h[OneOf(s)] + f[s \ {OneOf(s)}]
      /\ g[s] = IF s = {} THEN 0 ELSE h[OneOf(s)] + g[s \ {OneOf(s)}]
  BY <1>2 DEF IsSum
<1>4. s # {} => f[s \ {OneOf(s)}] = g[s \ {OneOf(s)}]
  BY <1>2, OneOfIs
<1> QED
  BY <1>2, <1>3, <1>4

LEMMA SumOfIs ==
    ASSUME NEW S, IsFiniteSet(S), NEW h, NEW T \in SUBSET S, NEW g, IsSum(g, h, S)
    PROVE  SumOf(h, T) = g[T]
<1> DEFINE k == CHOOSE k : IsSum(k, h, T)
<1>1. IsFiniteSet(T)
  BY FS_Subset
<1>2. IsSum(k, h, T)
  BY <1>1, SumExists
<1>3. SumOf(h, T) = k[T]
  BY DEF SumOf, MapThenSumSet, MapThenFoldSet, IsSum, OneOf
<1> HIDE DEF k
<1> QED
  BY <1>2, <1>3, SumUnique

\* A sum that is not written with a function.
LEMMA SumMeans ==
    ASSUME NEW S, IsFiniteSet(S), NEW h, NEW g, IsSum(g, h, S)
    PROVE  g[S] = SumOf(h, S)
BY SumOfIs

LEMMA SumStep ==
    ASSUME NEW S, IsFiniteSet(S), NEW h
    PROVE  /\ SumOf(h, {}) = 0
           /\ S # {} => SumOf(h, S) = h[OneOf(S)] + SumOf(h, S \ {OneOf(S)})
<1>1. PICK g : IsSum(g, h, S)
  BY SumExists
<1>2. SumOf(h, {}) = g[{}] /\ SumOf(h, S) = g[S] /\ SumOf(h, S \ {OneOf(S)}) = g[S \ {OneOf(S)}]
  BY <1>1, SumOfIs
<1> QED
  BY <1>1, <1>2 DEF IsSum

LEMMA SumEmpty == ASSUME NEW h PROVE SumOf(h, {}) = 0
<1>1. IsFiniteSet({})
  BY FS_EmptySet
<1> QED
  BY <1>1, SumStep

----------------------------------------------------------------------------
(* Sums of natural numbers *)

Amounts(h, S) == \A x \in S : h[x] \in Nat

LEMMA SumNat ==
    ASSUME NEW S, IsFiniteSet(S), NEW h, Amounts(h, S)
    PROVE  SumOf(h, S) \in Nat
<1> DEFINE B == {s \in SUBSET S : SumOf(h, s) \notin Nat}
<1> SUFFICES ASSUME B # {} PROVE FALSE
  OBVIOUS
<1>1. PICK s \in B : \A x \in s : s \ {x} \notin B
  BY SmallestSet
<1>2. IsFiniteSet(s) /\ s \in SUBSET S
  BY <1>1, FS_Subset
<1>3. s # {}
  BY <1>1, SumEmpty
<1>4. h[OneOf(s)] \in Nat /\ SumOf(h, s \ {OneOf(s)}) \in Nat
  BY <1>1, <1>2, <1>3, OneOfIs DEF Amounts
<1>5. SumOf(h, s) = h[OneOf(s)] + SumOf(h, s \ {OneOf(s)})
  BY <1>2, <1>3, SumStep
<1> QED
  BY <1>1, <1>4, <1>5

\* Any member may be taken first.
LEMMA SumWithout ==
    ASSUME NEW S, IsFiniteSet(S), NEW h, Amounts(h, S), NEW y \in S
    PROVE  SumOf(h, S) = h[y] + SumOf(h, S \ {y})
<1> DEFINE B == {s \in SUBSET S : \E z \in s : SumOf(h, s) # h[z] + SumOf(h, s \ {z})}
<1> SUFFICES ASSUME B # {} PROVE FALSE
  OBVIOUS
<1>1. PICK s \in B : \A x \in s : s \ {x} \notin B
  BY SmallestSet
<1>2. IsFiniteSet(s) /\ s \in SUBSET S
  BY <1>1, FS_Subset
<1>3. PICK z \in s : SumOf(h, s) # h[z] + SumOf(h, s \ {z})
  BY <1>1
<1> DEFINE x == OneOf(s)
<1>4. x \in s /\ SumOf(h, s) = h[x] + SumOf(h, s \ {x})
  BY <1>2, <1>3, SumStep, OneOfIs
<1> HIDE DEF x
<1>5. x # z
  BY <1>3, <1>4
<1>6. /\ SumOf(h, s \ {x}) = h[z] + SumOf(h, (s \ {x}) \ {z})
      /\ SumOf(h, s \ {z}) = h[x] + SumOf(h, (s \ {z}) \ {x})
  BY <1>1, <1>2, <1>4, <1>5
<1>7. SumOf(h, (s \ {x}) \ {z}) = SumOf(h, (s \ {z}) \ {x})
  <2>1. (s \ {x}) \ {z} = (s \ {z}) \ {x}
    OBVIOUS
  <2> QED
    BY <2>1, Zenon
<1>8. IsFiniteSet((s \ {x}) \ {z}) /\ Amounts(h, (s \ {x}) \ {z})
  BY <1>2, FS_Subset DEF Amounts
<1>9. h[x] \in Nat /\ h[z] \in Nat /\ SumOf(h, (s \ {x}) \ {z}) \in Nat
  BY <1>2, <1>4, <1>8, SumNat DEF Amounts
<1> HIDE DEF B
<1> QED
  BY <1>3, <1>4, <1>6, <1>7, <1>9

\* Terms that are no greater, over a set that is no larger.
LEMMA SumLess ==
    ASSUME NEW S, IsFiniteSet(S), NEW h, NEW k, Amounts(h, S), Amounts(k, S),
           \A x \in S : h[x] <= k[x]
    PROVE  SumOf(h, S) <= SumOf(k, S)
<1> DEFINE B == {s \in SUBSET S : ~(SumOf(h, s) <= SumOf(k, s))}
<1> SUFFICES ASSUME B # {} PROVE FALSE
  OBVIOUS
<1>1. PICK s \in B : \A x \in s : s \ {x} \notin B
  BY SmallestSet
<1>2. IsFiniteSet(s) /\ s \in SUBSET S /\ Amounts(h, s) /\ Amounts(k, s)
  BY <1>1, FS_Subset DEF Amounts
<1>3. s # {}
  BY <1>1, SumEmpty
<1>4. PICK x \in s : TRUE
  BY <1>3
<1>5. SumOf(h, s) = h[x] + SumOf(h, s \ {x}) /\ SumOf(k, s) = k[x] + SumOf(k, s \ {x})
  BY <1>2, SumWithout
<1>6. /\ IsFiniteSet(s \ {x}) /\ Amounts(h, s \ {x}) /\ Amounts(k, s \ {x})
      /\ SumOf(h, s \ {x}) <= SumOf(k, s \ {x})
  BY <1>1, <1>2, FS_Subset DEF Amounts
<1>7. SumOf(h, s \ {x}) \in Nat /\ SumOf(k, s \ {x}) \in Nat
  BY <1>6, SumNat
<1>8. h[x] \in Nat /\ k[x] \in Nat /\ h[x] <= k[x]
  BY <1>2 DEF Amounts
<1>9. ~(SumOf(h, s) <= SumOf(k, s))
  BY <1>1
<1> HIDE DEF B
<1> QED
  BY <1>5, <1>6, <1>7, <1>8, <1>9

LEMMA SumSame ==
    ASSUME NEW S, IsFiniteSet(S), NEW h, NEW k, Amounts(h, S), \A x \in S : h[x] = k[x]
    PROVE  SumOf(h, S) = SumOf(k, S)
<1>1. Amounts(k, S) /\ (\A x \in S : h[x] <= k[x]) /\ (\A x \in S : k[x] <= h[x])
  BY DEF Amounts
<1>2. SumOf(h, S) <= SumOf(k, S) /\ SumOf(k, S) <= SumOf(h, S)
  BY <1>1, SumLess
<1> QED
  BY <1>1, <1>2, SumNat

LEMMA SumWithin ==
    ASSUME NEW S, IsFiniteSet(S), NEW h, Amounts(h, S), NEW T \in SUBSET S
    PROVE  SumOf(h, T) <= SumOf(h, S)
<1> DEFINE B == {s \in SUBSET S : ~(SumOf(h, s \cap T) <= SumOf(h, s))}
<1>0. T = S \cap T
  OBVIOUS
<1> SUFFICES ASSUME B # {} PROVE FALSE
  BY <1>0
<1>1. PICK s \in B : \A x \in s : s \ {x} \notin B
  BY SmallestSet
<1>2. IsFiniteSet(s) /\ s \in SUBSET S /\ Amounts(h, s)
  BY <1>1, FS_Subset DEF Amounts
<1>3. s # {}
  <2>1. {} \cap T = {} /\ SumOf(h, {}) = 0
    BY SumEmpty
  <2> QED
    BY <1>1, <2>1
<1>4. PICK x \in s : TRUE
  BY <1>3
<1>5. SumOf(h, s) = h[x] + SumOf(h, s \ {x})
  BY <1>2, SumWithout
<1>6. SumOf(h, (s \ {x}) \cap T) <= SumOf(h, s \ {x})
  BY <1>1, <1>2
<1>7. /\ IsFiniteSet(s \ {x}) /\ Amounts(h, s \ {x})
      /\ IsFiniteSet((s \ {x}) \cap T) /\ Amounts(h, (s \ {x}) \cap T)
      /\ IsFiniteSet(s \cap T) /\ Amounts(h, s \cap T)
  BY <1>2, FS_Subset DEF Amounts
<1>8. /\ SumOf(h, s \ {x}) \in Nat /\ SumOf(h, (s \ {x}) \cap T) \in Nat
      /\ h[x] \in Nat
  BY <1>2, <1>7, SumNat DEF Amounts
<1>9. ~(SumOf(h, s \cap T) <= SumOf(h, s))
  BY <1>1
<1> HIDE DEF B
<1>10. CASE x \in T
  <2>1. SumOf(h, s \cap T) = h[x] + SumOf(h, (s \cap T) \ {x})
    BY <1>7, <1>10, SumWithout
  <2>2. SumOf(h, (s \cap T) \ {x}) = SumOf(h, (s \ {x}) \cap T)
    <3>1. (s \cap T) \ {x} = (s \ {x}) \cap T
      OBVIOUS
    <3> QED
      BY <3>1, Zenon
  <2> QED
    BY <1>5, <1>6, <1>8, <1>9, <2>1, <2>2
<1>11. CASE x \notin T
  <2>1. SumOf(h, s \cap T) = SumOf(h, (s \ {x}) \cap T)
    <3>1. s \cap T = (s \ {x}) \cap T
      BY <1>11
    <3> QED
      BY <3>1, Zenon
  <2> QED
    BY <1>5, <1>6, <1>8, <1>9, <2>1
<1> QED
  BY <1>10, <1>11

\* Members that add nothing may be left out.
LEMMA SumSupport ==
    ASSUME NEW S, IsFiniteSet(S), NEW h, Amounts(h, S), NEW T \in SUBSET S,
           \A x \in S \ T : h[x] = 0
    PROVE  SumOf(h, S) = SumOf(h, T)
<1> DEFINE B == {s \in SUBSET S : SumOf(h, s) # SumOf(h, s \cap T)}
<1>0. T = S \cap T
  OBVIOUS
<1> SUFFICES ASSUME B # {} PROVE FALSE
  BY <1>0
<1>1. PICK s \in B : \A x \in s : s \ {x} \notin B
  BY SmallestSet
<1>2. IsFiniteSet(s) /\ s \in SUBSET S /\ Amounts(h, s)
  BY <1>1, FS_Subset DEF Amounts
<1>3. s # {}
  <2>1. {} \cap T = {}
    OBVIOUS
  <2> QED
    BY <1>1, <2>1
<1>4. PICK x \in s : TRUE
  BY <1>3
<1>5. SumOf(h, s) = h[x] + SumOf(h, s \ {x})
  BY <1>2, SumWithout
<1>6. SumOf(h, s \ {x}) = SumOf(h, (s \ {x}) \cap T)
  BY <1>1, <1>2
<1>7. /\ IsFiniteSet((s \ {x}) \cap T) /\ Amounts(h, (s \ {x}) \cap T)
      /\ IsFiniteSet(s \cap T) /\ Amounts(h, s \cap T)
  BY <1>2, FS_Subset DEF Amounts
<1>8. SumOf(h, (s \ {x}) \cap T) \in Nat
  BY <1>7, SumNat
<1>9. SumOf(h, s) # SumOf(h, s \cap T)
  BY <1>1
<1> HIDE DEF B
<1>10. CASE x \in T
  <2>1. SumOf(h, s \cap T) = h[x] + SumOf(h, (s \cap T) \ {x})
    BY <1>7, <1>10, SumWithout
  <2>2. SumOf(h, (s \cap T) \ {x}) = SumOf(h, (s \ {x}) \cap T)
    <3>1. (s \cap T) \ {x} = (s \ {x}) \cap T
      OBVIOUS
    <3> QED
      BY <3>1, Zenon
  <2> QED
    BY <1>5, <1>6, <1>9, <2>1, <2>2
<1>11. CASE x \notin T
  <2>1. SumOf(h, s \cap T) = SumOf(h, (s \ {x}) \cap T)
    <3>1. s \cap T = (s \ {x}) \cap T
      BY <1>11
    <3> QED
      BY <3>1, Zenon
  <2>2. h[x] = 0
    BY <1>2, <1>11
  <2> QED
    BY <1>5, <1>6, <1>8, <1>9, <2>1, <2>2
<1> QED
  BY <1>10, <1>11

\* Sums of two terms each.
LEMMA SumPlus ==
    ASSUME NEW S, IsFiniteSet(S), NEW h, NEW k, NEW t, Amounts(h, S), Amounts(k, S),
           \A x \in S : t[x] = h[x] + k[x]
    PROVE  SumOf(t, S) = SumOf(h, S) + SumOf(k, S)
<1> DEFINE B == {s \in SUBSET S : SumOf(t, s) # SumOf(h, s) + SumOf(k, s)}
<1> SUFFICES ASSUME B # {} PROVE FALSE
  OBVIOUS
<1>1. PICK s \in B : \A x \in s : s \ {x} \notin B
  BY SmallestSet
<1>2. /\ IsFiniteSet(s) /\ s \in SUBSET S
      /\ Amounts(h, s) /\ Amounts(k, s) /\ Amounts(t, s)
  BY <1>1, FS_Subset DEF Amounts
<1>3. s # {}
  BY <1>1, SumEmpty
<1>4. PICK x \in s : TRUE
  BY <1>3
<1>5. /\ SumOf(h, s) = h[x] + SumOf(h, s \ {x}) /\ SumOf(k, s) = k[x] + SumOf(k, s \ {x})
      /\ SumOf(t, s) = t[x] + SumOf(t, s \ {x})
  BY <1>2, SumWithout
<1>6. SumOf(t, s \ {x}) = SumOf(h, s \ {x}) + SumOf(k, s \ {x})
  BY <1>1, <1>2
<1>7. IsFiniteSet(s \ {x}) /\ Amounts(h, s \ {x}) /\ Amounts(k, s \ {x})
  BY <1>2, FS_Subset DEF Amounts
<1>8. SumOf(h, s \ {x}) \in Nat /\ SumOf(k, s \ {x}) \in Nat
  BY <1>7, SumNat
<1>9. h[x] \in Nat /\ k[x] \in Nat /\ t[x] = h[x] + k[x]
  BY <1>2 DEF Amounts
<1>10. SumOf(t, s) # SumOf(h, s) + SumOf(k, s)
  BY <1>1
<1> HIDE DEF B
<1> QED
  BY <1>5, <1>6, <1>8, <1>9, <1>10

\* Terms of at most c each.
LEMMA SumAtMost ==
    ASSUME NEW S, IsFiniteSet(S), NEW h, Amounts(h, S), NEW c \in Nat, \A x \in S : h[x] <= c
    PROVE  SumOf(h, S) <= c * Cardinality(S)
<1> DEFINE B == {s \in SUBSET S : ~(SumOf(h, s) <= c * Cardinality(s))}
<1> SUFFICES ASSUME B # {} PROVE FALSE
  OBVIOUS
<1>1. PICK s \in B : \A x \in s : s \ {x} \notin B
  BY SmallestSet
<1>2. IsFiniteSet(s) /\ s \in SUBSET S /\ Amounts(h, s)
  BY <1>1, FS_Subset DEF Amounts
<1>3. s # {}
  <2>1. SumOf(h, {}) = 0 /\ Cardinality({}) = 0 /\ c * 0 = 0
    BY SumEmpty, FS_EmptySet
  <2> QED
    BY <1>1, <2>1
<1>4. PICK x \in s : TRUE
  BY <1>3
<1> DEFINE n == Cardinality(s \ {x})
<1>5. SumOf(h, s) = h[x] + SumOf(h, s \ {x})
  BY <1>2, SumWithout
<1>6. SumOf(h, s \ {x}) <= c * n
  BY <1>1, <1>2
<1>7. IsFiniteSet(s \ {x}) /\ Amounts(h, s \ {x})
  BY <1>2, FS_Subset DEF Amounts
<1>8. SumOf(h, s \ {x}) \in Nat /\ n \in Nat /\ Cardinality(s) = n + 1
  BY <1>2, <1>7, SumNat, FS_CardinalityType, FS_RemoveElement
<1>9. h[x] \in Nat /\ h[x] <= c
  BY <1>2 DEF Amounts
<1>10. ~(SumOf(h, s) <= c * Cardinality(s))
  BY <1>1
<1> HIDE DEF B, n
<1>11. c * (n + 1) = c * n + c /\ c * n \in Nat
  BY <1>8
<1> QED
  BY <1>5, <1>6, <1>8, <1>9, <1>10, <1>11
=============================================================================
