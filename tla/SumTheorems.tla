----------------------------- MODULE SumTheorems -----------------------------
(***************************************************************************)
(* Facts about induction and finite sums that the proofs of the other      *)
(* modules cite.  Induction is over the elements of a set and not over an  *)
(* operator, so that the facts are first-order: a property of numbers is   *)
(* the set of the numbers that have it, and what is proved of every number *)
(* is that none is the least one without it.                               *)
(***************************************************************************)
EXTENDS Integers, FiniteSets, Functions, FiniteSetTheorems, TLAPS

(* A non-empty set of natural numbers has a least element.                 *)
LEMMA LeastNatural ==
  ASSUME NEW T, T \subseteq Nat, T # {}
  PROVE  \E n \in T : \A m \in T : n <= m
<1> DEFINE R == OpToRel(<, Nat)
<1>1. IsWellFoundedOn(R, Nat)
  BY NatLessThanWellFounded
<1>2. \A x, y \in Nat : x < y => <<x, y>> \in R
  BY DEF OpToRel
<1> HIDE DEF R
<1>3. PICK n \in T : \A m \in T : ~(<<m, n>> \in R)
  BY <1>1, WFMin
<1>4. ASSUME NEW m \in T PROVE n <= m
  <2>1. ~(m < n)
    BY <1>2, <1>3
  <2>2. m \in Nat /\ n \in Nat
    OBVIOUS
  <2> QED
    BY <2>1, <2>2
<1> QED
  BY <1>3, <1>4

(* A set that has 0 and, with a number, the next one has them all.         *)
LEMMA SetInduction ==
  ASSUME NEW T, 0 \in T, \A n \in Nat : n \in T => n + 1 \in T
  PROVE  \A n \in Nat : n \in T
<1> SUFFICES ASSUME Nat \ T # {} PROVE FALSE
  OBVIOUS
<1>1. PICK n \in Nat \ T : \A m \in Nat \ T : n <= m
  BY LeastNatural
<1>2. n # 0 /\ n - 1 \in Nat
  BY <1>1
<1>3. n - 1 \in T
  BY <1>1, <1>2
<1> QED
  BY <1>1, <1>2, <1>3

(* A family of subsets of a finite set that has the empty set and, with a  *)
(* set, each set that has one element more, has them all.                  *)
LEMMA SubsetInduction ==
  ASSUME NEW U, IsFiniteSet(U), NEW F, {} \in F,
         \A S \in SUBSET U : \A x \in U : S \in F /\ x \notin S => S \cup {x} \in F
  PROVE  \A S \in SUBSET U : S \in F
<1> DEFINE Good == {n \in Nat : \A S \in SUBSET U : Cardinality(S) = n => S \in F}
<1>1. \A S \in SUBSET U : IsFiniteSet(S) /\ Cardinality(S) \in Nat
  BY FS_Subset, FS_CardinalityType
<1>2. 0 \in Good
  BY <1>1, FS_EmptySet
<1>3. ASSUME NEW n \in Nat, n \in Good PROVE n + 1 \in Good
  <2> SUFFICES ASSUME NEW S \in SUBSET U, Cardinality(S) = n + 1 PROVE S \in F
    OBVIOUS
  <2>1. PICK x : x \in S
    BY <1>1, FS_EmptySet
  <2>2. S \ {x} \in SUBSET U /\ Cardinality(S \ {x}) = n
    <3>1. IsFiniteSet(S)
      BY <1>1
    <3>2. Cardinality(S \ {x}) = Cardinality(S) - 1
      BY <2>1, <3>1, FS_RemoveElement
    <3> QED
      BY <3>2
  <2>3. S \ {x} \in F
    BY <1>3, <2>2
  <2>4. (S \ {x}) \cup {x} \in F
    BY <2>1, <2>2, <2>3
  <2> QED
    BY <2>1, <2>4
<1> HIDE DEF Good
<1>4. \A n \in Nat : n \in Good
  BY <1>2, <1>3, SetInduction
<1> QED
  BY <1>1, <1>4 DEF Good

-----------------------------------------------------------------------------
(* SumFunctionOnSet(f, S), of the module Functions, adds f[x] for the      *)
(* elements x of S in the order in which CHOOSE takes them.                *)
First(S) == CHOOSE x \in S : TRUE

LEMMA FirstIn == ASSUME NEW S, S # {} PROVE First(S) \in S
BY DEF First

(* The function of the subsets of S that the definition computes with.     *)
Partial(f, S) ==
  CHOOSE g : g = [s \in SUBSET S |-> IF s = {} THEN 0 ELSE f[First(s)] + g[s \ {First(s)}]]

LEMMA SumIsPartial ==
  ASSUME NEW f, NEW S
  PROVE  SumFunctionOnSet(f, S) = Partial(f, S)[S]
BY DEF SumFunctionOnSet, FoldFunctionOnSet, MapThenFoldSet, Partial, First

LEMMA PartialStep ==
  ASSUME NEW f, NEW S, IsFiniteSet(S)
  PROVE  \A s \in SUBSET S :
           Partial(f, S)[s] = IF s = {} THEN 0
                              ELSE f[First(s)] + Partial(f, S)[s \ {First(s)}]
<1> DEFINE Small(n) == {s \in SUBSET S : Cardinality(s) <= n}
           Next(g, s) == IF s = {} THEN 0 ELSE f[First(s)] + g[s \ {First(s)}]
           IsRun(g, n) == g = [s \in Small(n) |-> Next(g, s)]
           Good == {n \in Nat : \E g : IsRun(g, n)}
<1>0. \A s \in SUBSET S : IsFiniteSet(s) /\ Cardinality(s) \in Nat
  BY FS_Subset, FS_CardinalityType
<1>1. \A s \in SUBSET S : s # {} =>
        /\ First(s) \in s /\ s \ {First(s)} \in SUBSET S
        /\ Cardinality(s \ {First(s)}) = Cardinality(s) - 1
  BY <1>0, FirstIn, FS_RemoveElement
<1>2. 0 \in Good
  <2> DEFINE g == [s \in Small(0) |-> 0]
  <2>1. \A s \in Small(0) : s = {}
    BY <1>0, FS_EmptySet
  <2>2. IsRun(g, 0)
    BY <2>1
  <2> HIDE DEF g, IsRun
  <2> QED
    BY <2>2
<1>3. ASSUME NEW n \in Nat, n \in Good PROVE n + 1 \in Good
  <2>1. PICK g : IsRun(g, n)
    BY <1>3
  <2> DEFINE h == [s \in Small(n + 1) |->
                     IF Cardinality(s) = n + 1 THEN f[First(s)] + g[s \ {First(s)}] ELSE g[s]]
  <2>2. ASSUME NEW s \in Small(n + 1) PROVE h[s] = Next(h, s)
    <3>1. CASE Cardinality(s) = n + 1
      <4>1. s # {}
        BY <3>1, FS_EmptySet
      <4>2. s \ {First(s)} \in Small(n) /\ Cardinality(s \ {First(s)}) = n
        BY <1>1, <3>1, <4>1
      <4>3. h[s \ {First(s)}] = g[s \ {First(s)}]
        BY <4>2
      <4> QED
        BY <3>1, <4>1, <4>3
    <3>2. CASE Cardinality(s) # n + 1
      <4>1. s \in Small(n)
        BY <1>0, <3>2
      <4>2. h[s] = g[s] /\ g[s] = Next(g, s)
        BY <2>1, <3>2, <4>1
      <4>3. CASE s = {}
        BY <4>2, <4>3
      <4>4. CASE s # {}
        <5>1. s \ {First(s)} \in Small(n) /\ Cardinality(s \ {First(s)}) # n + 1
          BY <1>0, <1>1, <4>1, <4>4
        <5>2. s \ {First(s)} \in Small(n + 1)
          BY <1>0, <5>1
        <5>3. h[s \ {First(s)}] = g[s \ {First(s)}]
          BY <5>1, <5>2
        <5> QED
          BY <4>2, <4>4, <5>3
      <4> QED
        BY <4>3, <4>4
    <3> QED
      BY <3>1, <3>2
  <2>3. IsRun(h, n + 1)
    BY <2>2
  <2> HIDE DEF h, IsRun
  <2> QED
    BY <2>3
<1> HIDE DEF Good
<1>4. Cardinality(S) \in Good
  <2>1. \A n \in Nat : n \in Good
    BY <1>2, <1>3, SetInduction
  <2> QED
    BY <1>0, <2>1
<1>5. Small(Cardinality(S)) = SUBSET S
  BY <1>0, FS_Subset
<1>6. \E g : g = [s \in SUBSET S |-> Next(g, s)]
  BY <1>4, <1>5 DEF Good
<1> DEFINE p == Partial(f, S)
<1>7. p = [s \in SUBSET S |-> Next(p, s)]
  BY <1>6 DEF Partial
<1> HIDE DEF p
<1>8. \A s \in SUBSET S : p[s] = Next(p, s)
  BY <1>7
<1> QED
  BY <1>8 DEF p

(* What the definition computes of a subset does not depend on the set it  *)
(* started from.                                                           *)
LEMMA PartialAgrees ==
  ASSUME NEW f, NEW S, IsFiniteSet(S), NEW T \in SUBSET S
  PROVE  Partial(f, T)[T] = Partial(f, S)[T]
<1> DEFINE p == Partial(f, S)
           q == Partial(f, T)
           Good == {n \in Nat : \A s \in SUBSET T : Cardinality(s) = n => q[s] = p[s]}
<1>0. /\ IsFiniteSet(T)
      /\ \A s \in SUBSET T : IsFiniteSet(s) /\ Cardinality(s) \in Nat
  BY FS_Subset, FS_CardinalityType
<1>1. /\ \A s \in SUBSET S : p[s] = IF s = {} THEN 0 ELSE f[First(s)] + p[s \ {First(s)}]
      /\ \A s \in SUBSET T : q[s] = IF s = {} THEN 0 ELSE f[First(s)] + q[s \ {First(s)}]
  BY <1>0, PartialStep
<1> HIDE DEF p, q
<1>2. 0 \in Good
  <2>1. \A s \in SUBSET T : Cardinality(s) = 0 => s = {}
    BY <1>0, FS_EmptySet
  <2> QED
    BY <1>1, <2>1
<1>3. ASSUME NEW n \in Nat, n \in Good PROVE n + 1 \in Good
  <2> SUFFICES ASSUME NEW s \in SUBSET T, Cardinality(s) = n + 1 PROVE q[s] = p[s]
    OBVIOUS
  <2>1. s # {}
    BY FS_EmptySet
  <2>2. First(s) \in s /\ s \ {First(s)} \in SUBSET T /\ Cardinality(s \ {First(s)}) = n
    BY <1>0, <2>1, FirstIn, FS_RemoveElement
  <2>3. q[s \ {First(s)}] = p[s \ {First(s)}]
    BY <1>3, <2>2
  <2> QED
    BY <1>1, <2>1, <2>3
<1> HIDE DEF Good
<1>4. \A n \in Nat : n \in Good
  BY <1>2, <1>3, SetInduction
<1> QED
  BY <1>0, <1>4 DEF Good, p, q

LEMMA SumEmpty == ASSUME NEW f PROVE SumFunctionOnSet(f, {}) = 0
BY SumIsPartial, PartialStep, FS_EmptySet

LEMMA SumFirst ==
  ASSUME NEW f, NEW S, IsFiniteSet(S), S # {}
  PROVE  SumFunctionOnSet(f, S) = f[First(S)] + SumFunctionOnSet(f, S \ {First(S)})
<1>1. Partial(f, S)[S] = f[First(S)] + Partial(f, S)[S \ {First(S)}]
  BY PartialStep
<1>2. Partial(f, S)[S \ {First(S)}] = Partial(f, S \ {First(S)})[S \ {First(S)}]
  BY PartialAgrees
<1> QED
  BY <1>1, <1>2, SumIsPartial

LEMMA SumInt ==
  ASSUME NEW f, NEW S, IsFiniteSet(S), \A x \in S : f[x] \in Int
  PROVE  SumFunctionOnSet(f, S) \in Int
<1> DEFINE Sum(T) == SumFunctionOnSet(f, T)
           Good == {n \in Nat : \A T \in SUBSET S : Cardinality(T) = n => Sum(T) \in Int}
<1>0. \A T \in SUBSET S : IsFiniteSet(T) /\ Cardinality(T) \in Nat
  BY FS_Subset, FS_CardinalityType
<1>1. Sum({}) = 0 /\ \A T \in SUBSET S : T # {} => Sum(T) = f[First(T)] + Sum(T \ {First(T)})
  BY <1>0, SumEmpty, SumFirst
<1> HIDE DEF Sum
<1>2. 0 \in Good
  <2>1. \A T \in SUBSET S : Cardinality(T) = 0 => T = {}
    BY <1>0, FS_EmptySet
  <2>2. Sum({}) \in Int
    BY <1>1
  <2> QED
    BY <2>1, <2>2
<1>3. ASSUME NEW n \in Nat, n \in Good PROVE n + 1 \in Good
  <2> SUFFICES ASSUME NEW T \in SUBSET S, Cardinality(T) = n + 1 PROVE Sum(T) \in Int
    OBVIOUS
  <2>1. T # {}
    BY FS_EmptySet
  <2>2. First(T) \in T /\ T \ {First(T)} \in SUBSET S /\ Cardinality(T \ {First(T)}) = n
    <3>1. IsFiniteSet(T) /\ First(T) \in T
      BY <1>0, <2>1, FirstIn
    <3>2. Cardinality(T \ {First(T)}) = Cardinality(T) - 1
      BY <3>1, FS_RemoveElement
    <3> QED
      BY <3>1, <3>2
  <2>3. Sum(T \ {First(T)}) \in Int /\ f[First(T)] \in Int
    BY <1>3, <2>2
  <2> QED
    BY <1>1, <2>1, <2>3
<1> HIDE DEF Good
<1>4. \A n \in Nat : n \in Good
  BY <1>2, <1>3, SetInduction
<1> QED
  BY <1>0, <1>4 DEF Good, Sum

(* Any element can be taken first: the order does not matter.              *)
LEMMA SumRemove ==
  ASSUME NEW f, NEW S, IsFiniteSet(S), \A x \in S : f[x] \in Int, NEW y \in S
  PROVE  SumFunctionOnSet(f, S) = f[y] + SumFunctionOnSet(f, S \ {y})
<1> DEFINE Sum(T) == SumFunctionOnSet(f, T)
           Good == {n \in Nat : \A T \in SUBSET S : Cardinality(T) = n =>
                      \A x \in T : Sum(T) = f[x] + Sum(T \ {x})}
<1>0. \A T \in SUBSET S : IsFiniteSet(T) /\ Cardinality(T) \in Nat
  BY FS_Subset, FS_CardinalityType
<1>1. \A T \in SUBSET S :
        Sum(T) \in Int /\ (T # {} => Sum(T) = f[First(T)] + Sum(T \ {First(T)}))
  BY <1>0, SumInt, SumFirst
<1> HIDE DEF Sum
<1>2. 0 \in Good
  <2>1. \A T \in SUBSET S : Cardinality(T) = 0 => T = {}
    BY <1>0, FS_EmptySet
  <2> QED
    BY <1>1, <2>1
<1>3. ASSUME NEW n \in Nat, n \in Good PROVE n + 1 \in Good
  <2> SUFFICES ASSUME NEW T \in SUBSET S, Cardinality(T) = n + 1, NEW x \in T
               PROVE  Sum(T) = f[x] + Sum(T \ {x})
    OBVIOUS
  <2> DEFINE c == First(T)
  <2>1. c \in T /\ Sum(T) = f[c] + Sum(T \ {c})
    BY <1>1, FirstIn
  <2> HIDE DEF c
  <2>2. CASE x = c
    BY <2>1, <2>2
  <2>3. CASE x # c
    <3>1. /\ T \ {c} \in SUBSET S /\ Cardinality(T \ {c}) = n
          /\ T \ {x} \in SUBSET S /\ Cardinality(T \ {x}) = n
      <4>1. IsFiniteSet(T)
        BY <1>0
      <4>2. /\ Cardinality(T \ {c}) = Cardinality(T) - 1
            /\ Cardinality(T \ {x}) = Cardinality(T) - 1
        BY <2>1, <4>1, FS_RemoveElement
      <4> QED
        BY <4>2
    <3>2. x \in T \ {c} /\ c \in T \ {x}
      BY <2>1, <2>3
    <3>3. /\ Sum(T \ {c}) = f[x] + Sum((T \ {c}) \ {x})
          /\ Sum(T \ {x}) = f[c] + Sum((T \ {x}) \ {c})
      BY <1>3, <3>1, <3>2
    <3>4. (T \ {c}) \ {x} = (T \ {x}) \ {c} /\ (T \ {x}) \ {c} \in SUBSET S
      OBVIOUS
    <3>5. Sum((T \ {x}) \ {c}) \in Int /\ f[x] \in Int /\ f[c] \in Int
      BY <1>1, <2>1, <3>4
    <3> DEFINE r == Sum((T \ {x}) \ {c})
    <3>6. /\ Sum(T) = f[c] + (f[x] + r) /\ Sum(T \ {x}) = f[c] + r
          /\ r \in Int /\ f[x] \in Int /\ f[c] \in Int
      BY <2>1, <3>3, <3>4, <3>5
    <3> HIDE DEF r
    <3> QED
      BY <3>6
  <2> QED
    BY <2>2, <2>3
<1> HIDE DEF Good
<1>4. \A n \in Nat : n \in Good
  BY <1>2, <1>3, SetInduction
<1> QED
  BY <1>0, <1>4 DEF Good, Sum

LEMMA SumAdd ==
  ASSUME NEW f, NEW S, IsFiniteSet(S), \A x \in S : f[x] \in Int,
         NEW y, y \notin S, f[y] \in Int
  PROVE  SumFunctionOnSet(f, S \cup {y}) = f[y] + SumFunctionOnSet(f, S)
<1>1. IsFiniteSet(S \cup {y}) /\ (S \cup {y}) \ {y} = S
  BY FS_AddElement
<1> QED
  BY <1>1, SumRemove

(* The sum depends on the values on the set alone.                         *)
LEMMA SumSame ==
  ASSUME NEW f, NEW g, NEW S, IsFiniteSet(S), \A x \in S : f[x] \in Int,
         \A x \in S : g[x] = f[x]
  PROVE  SumFunctionOnSet(g, S) = SumFunctionOnSet(f, S)
<1> DEFINE F == {T \in SUBSET S : SumFunctionOnSet(g, T) = SumFunctionOnSet(f, T)}
<1>1. {} \in F
  BY SumEmpty
<1>2. ASSUME NEW T \in SUBSET S, NEW x \in S, T \in F, x \notin T PROVE T \cup {x} \in F
  <2>1. /\ SumFunctionOnSet(f, T \cup {x}) = f[x] + SumFunctionOnSet(f, T)
        /\ SumFunctionOnSet(g, T \cup {x}) = g[x] + SumFunctionOnSet(g, T)
    BY <1>2, SumAdd, FS_Subset
  <2> QED
    BY <1>2, <2>1
<1> HIDE DEF F
<1>3. \A T \in SUBSET S : T \in F
  BY <1>1, <1>2, SubsetInduction
<1> QED
  BY <1>3 DEF F

(* A sum of natural numbers is one, and none of its terms exceeds it.      *)
LEMMA SumNat ==
  ASSUME NEW f, NEW S, IsFiniteSet(S), \A x \in S : f[x] \in Nat
  PROVE  SumFunctionOnSet(f, S) \in Nat
<1> DEFINE F == {T \in SUBSET S : SumFunctionOnSet(f, T) \in Nat}
<1>1. {} \in F
  BY SumEmpty
<1>2. ASSUME NEW T \in SUBSET S, NEW x \in S, T \in F, x \notin T PROVE T \cup {x} \in F
  <2>1. SumFunctionOnSet(f, T \cup {x}) = f[x] + SumFunctionOnSet(f, T)
    BY <1>2, SumAdd, FS_Subset
  <2> QED
    BY <1>2, <2>1
<1> HIDE DEF F
<1>3. \A T \in SUBSET S : T \in F
  BY <1>1, <1>2, SubsetInduction
<1> QED
  BY <1>3 DEF F

(* A sum of naturals over a part is at most the sum over the whole.        *)
LEMMA SumPart ==
  ASSUME NEW f, NEW S, IsFiniteSet(S), \A x \in S : f[x] \in Nat, NEW T \in SUBSET S
  PROVE  SumFunctionOnSet(f, T) <= SumFunctionOnSet(f, S)
<1> DEFINE F == {U \in SUBSET (S \ T) : SumFunctionOnSet(f, T) <= SumFunctionOnSet(f, T \cup U)}
<1>1. /\ IsFiniteSet(T) /\ IsFiniteSet(S \ T)
      /\ \A U \in SUBSET (S \ T) : IsFiniteSet(T \cup U)
  BY FS_Subset
<1>2. ASSUME NEW U \in SUBSET (S \ T) PROVE SumFunctionOnSet(f, T \cup U) \in Nat
  BY <1>1, SumNat
<1>3. {} \in F
  <2>1. T \cup {} = T /\ {} \in SUBSET (S \ T)
    OBVIOUS
  <2>2. SumFunctionOnSet(f, T \cup {}) \in Nat
    BY <1>2
  <2> QED
    BY <2>1, <2>2
<1>4. ASSUME NEW U \in SUBSET (S \ T), NEW x \in S \ T, U \in F, x \notin U
      PROVE  U \cup {x} \in F
  <2>1. /\ IsFiniteSet(T \cup U) /\ x \notin T \cup U /\ f[x] \in Nat
        /\ \A y \in T \cup U : f[y] \in Int
        /\ T \cup (U \cup {x}) = (T \cup U) \cup {x}
        /\ U \cup {x} \in SUBSET (S \ T)
    BY <1>1, <1>4
  <2>2. SumFunctionOnSet(f, (T \cup U) \cup {x}) = f[x] + SumFunctionOnSet(f, T \cup U)
    BY <2>1, SumAdd
  <2>3. SumFunctionOnSet(f, T \cup U) \in Nat /\ SumFunctionOnSet(f, T \cup {}) \in Nat
    BY <1>2
  <2>4. SumFunctionOnSet(f, T) \in Nat
    BY <1>1, SumNat
  <2> QED
    BY <1>4, <2>1, <2>2, <2>3, <2>4
<1> HIDE DEF F
<1>5. \A U \in SUBSET (S \ T) : U \in F
  <2> DEFINE R == S \ T
  <2>1. /\ IsFiniteSet(R) /\ {} \in F
        /\ \A U \in SUBSET R : \A x \in R : U \in F /\ x \notin U => U \cup {x} \in F
    BY <1>1, <1>3, <1>4
  <2> HIDE DEF R
  <2>2. \A U \in SUBSET R : U \in F
    BY <2>1, SubsetInduction
  <2> QED
    BY <2>2 DEF R
<1>6. S \ T \in F /\ T \cup (S \ T) = S
  BY <1>5
<1> QED
  BY <1>6 DEF F

=============================================================================
