---------------------------- MODULE NaturalFacts ----------------------------
(* Least and greatest numbers, for the proofs that pick the oldest event or  *)
(* the newest version.  The least one is the well-foundedness of < on the    *)
(* naturals, and stands in for induction: a property of all finite sets is   *)
(* proved by taking a smallest set that does not have it.                    *)
EXTENDS Naturals, FiniteSetTheorems, WellFoundedInduction, TLAPS

\* Every set of naturals that is not empty has a least element.
LEMMA LeastNatural ==
  ASSUME NEW S, S \subseteq Nat, S # {}
  PROVE  \E n \in S : \A m \in S : n <= m
<1>1. PICK n \in S : \A m \in S : ~(<<m, n>> \in OpToRel(<, Nat))
  BY NatLessThanWellFounded, WFMin
<1>2. \A m \in S : ~(m < n)
  BY <1>1 DEF OpToRel
<1>. QED  BY <1>2

HasGreatest(S) == \E n \in S : \A m \in S : m <= n

\* Every finite set of naturals that is not empty has a greatest element.
LEMMA GreatestNatural ==
  ASSUME NEW S, S \subseteq Nat, S # {}, IsFiniteSet(S)
  PROVE  HasGreatest(S)
<1>. DEFINE Bad(T) == T # {} /\ IsFiniteSet(T) /\ ~HasGreatest(T)
            Sizes == {n \in Nat : \E T \in SUBSET Nat : Bad(T) /\ Cardinality(T) = n}
<1>. SUFFICES ASSUME Bad(S) PROVE FALSE
  OBVIOUS
<1>1. Sizes \subseteq Nat /\ Cardinality(S) \in Sizes
  BY FS_CardinalityType
<1>2. PICK n \in Sizes : \A m \in Sizes : n <= m
  <2>. HIDE DEF Sizes
  <2>. QED  BY <1>1, LeastNatural
<1>3. PICK T \in SUBSET Nat : Bad(T) /\ Cardinality(T) = n
  BY <1>2
<1>4. PICK x \in T : TRUE
  BY <1>3
<1>. DEFINE R == T \ {x}
<1>5. IsFiniteSet(R) /\ Cardinality(R) = n - 1 /\ n \in Nat /\ R \subseteq Nat
  BY <1>2, <1>3, <1>4, FS_RemoveElement
<1>6. ~Bad(R)
  <2>1. Cardinality(R) \in Nat
    BY <1>5, FS_CardinalityType
  <2>2. Cardinality(R) \notin Sizes
    BY <1>2, <1>5, <2>1
  <2>. QED  BY <1>5, <2>1, <2>2
<1>7. CASE R = {}
  BY <1>3, <1>4, <1>7 DEF HasGreatest
<1>8. CASE R # {}
  <2>1. PICK y \in R : \A m \in R : m <= y
    BY <1>5, <1>6, <1>8 DEF HasGreatest
  <2>2. y \in T /\ x \in Nat /\ y \in Nat /\ T = R \cup {x} /\ \A m \in T : m \in Nat
    BY <1>3, <1>4, <2>1
  <2>3. HasGreatest(T)
    <3>1. CASE x <= y
      <4>1. \A m \in T : m <= y
        BY <2>1, <2>2, <3>1
      <4>. QED  BY <2>2, <4>1 DEF HasGreatest
    <3>2. CASE y <= x
      <4>1. \A m \in T : m <= x
        BY <2>1, <2>2, <3>2
      <4>. QED  BY <1>4, <4>1 DEF HasGreatest
    <3>. QED  BY <2>2, <3>1, <3>2
  <2>. QED  BY <1>3, <2>3
<1>. QED  BY <1>7, <1>8

=============================================================================
