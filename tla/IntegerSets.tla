---------------------------- MODULE IntegerSets ----------------------------
(* Facts about sets of integers that the proofs of several components use: *)
(* that the least and the greatest member exist and are what Min and Max   *)
(* choose, and that a finite set can be numbered.                          *)
EXTENDS FiniteSetsExt, FiniteSetTheorems, WellFoundedInduction, TLAPS

\* A set of naturals that is not empty has a least member, and Min is it.
LEMMA MinIsLeast ==
    ASSUME NEW S \in SUBSET Nat, S # {}
    PROVE  Min(S) \in S /\ \A y \in S : Min(S) <= y
<1>1. \E x \in S : \A y \in S : ~ (<<y, x>> \in OpToRel(<, Nat))
  BY NatLessThanWellFounded, WFMin
<1>2. \E x \in S : \A y \in S : x <= y
  <2> DEFINE R == OpToRel(<, Nat)
  <2>1. R = {ss \in Nat \X Nat : ss[1] < ss[2]}
    BY Zenon DEF OpToRel
  <2>2. PICK x \in S : \A y \in S : <<y, x>> \notin R
    BY <1>1
  <2> HIDE DEF R
  <2>3. \A y \in S : x <= y
    <3> TAKE y \in S
    <3>1. ~(y < x)
      BY <2>1, <2>2
    <3> QED
      BY <3>1
  <2> QED
    BY <2>3
<1> QED
  BY <1>2 DEF Min

\* A set of naturals that is bounded and not empty has a greatest member, and
\* Max is it.
LEMMA MaxIsGreatest ==
    ASSUME NEW n \in Nat, NEW S \in SUBSET (0 .. n), S # {}
    PROVE  Max(S) \in S /\ \A y \in S : Max(S) >= y
<1> DEFINE T == {n - x : x \in S}
<1>1. T \in SUBSET Nat /\ T # {}
  <2>1. \A x \in S : n - x \in Nat
    OBVIOUS
  <2> QED
    BY <2>1
<1> HIDE DEF T
<1>2. Min(T) \in T /\ \A y \in T : Min(T) <= y
  BY <1>1, MinIsLeast
<1>3. PICK x \in S : Min(T) = n - x
  BY <1>2 DEF T
<1>4. \A y \in S : x >= y
  <2> TAKE y \in S
  <2>1. n - y \in T
    BY DEF T
  <2> QED
    BY <1>2, <1>3, <2>1
<1> QED
  BY <1>4 DEF Max

\* The members of a finite set can be numbered from any integer on, each once.
LEMMA Numbering ==
    ASSUME NEW S, IsFiniteSet(S), NEW a \in Int
    PROVE  /\ Cardinality(S) \in Nat
           /\ \E f \in [a .. a + Cardinality(S) - 1 -> S] :
                 \A s \in S : \E n \in DOMAIN f : f[n] = s
           /\ \A f \in [a .. a + Cardinality(S) - 1 -> S] :
                 (\A s \in S : \E n \in DOMAIN f : f[n] = s) =>
                     \A m, n \in DOMAIN f : f[m] = f[n] => m = n
<1> DEFINE I == a .. a + Cardinality(S) - 1
<1>1. Cardinality(S) \in Nat
  BY FS_CardinalityType
<1>2. IsFiniteSet(I) /\ Cardinality(I) = Cardinality(S)
  <2>1. a + Cardinality(S) - 1 \in Int
    BY <1>1
  <2>2. /\ IsFiniteSet(I)
        /\ Cardinality(I) = IF a > a + Cardinality(S) - 1 THEN 0
                            ELSE (a + Cardinality(S) - 1) - a + 1
    BY <2>1, FS_Interval
  <2> HIDE DEF I
  <2>3. CASE Cardinality(S) = 0
    BY <2>2, <2>3
  <2>4. CASE Cardinality(S) # 0
    BY <1>1, <2>2, <2>4
  <2> QED
    BY <2>3, <2>4
<1> HIDE DEF I
<1>3. \E f \in [I -> S] : \A s \in S : \E n \in DOMAIN f : f[n] = s
  <2>1. ExistsBijection(I, S)
    BY <1>2, FS_SameCardinalityBij
  <2>2. PICK f : f \in Bijection(I, S)
    BY <2>1 DEF ExistsBijection
  <2> QED
    BY <2>2 DEF Bijection, Surjection, Injection
<1>4. ASSUME NEW f \in [I -> S], \A s \in S : \E n \in DOMAIN f : f[n] = s
      PROVE  \A m, n \in DOMAIN f : f[m] = f[n] => m = n
  <2>1. f \in Surjection(I, S)
    BY <1>4 DEF Surjection
  <2>2. f \in Injection(I, S)
    BY <1>2, <2>1, FS_SurjSameCardinalityImpliesInj
  <2> QED
    BY <2>2 DEF Injection, IsInjective
<1> QED
  BY <1>1, <1>3, <1>4 DEF I
=============================================================================
