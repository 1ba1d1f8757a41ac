--------------------------- MODULE LeastElements ---------------------------
(***************************************************************************)
(* Least and greatest elements.  A fact about every number or every length *)
(* is proved from them by looking at the least number it does not hold     *)
(* for.                                                                    *)
(***************************************************************************)
EXTENDS Integers, FiniteSetTheorems, TLAPS

\* Every set of natural numbers has a least element.
LEMMA LeastNatural ==
    ASSUME NEW T \in SUBSET Nat, T # {}
    PROVE  \E n \in T : \A m \in T : n <= m
<1>1. PICK n \in T : \A m \in T : <<m, n>> \notin OpToRel(<, Nat)
  BY NatLessThanWellFounded, WFMin
<1>2. \A m \in T : ~ (m < n)
  BY <1>1 DEF OpToRel
<1> QED BY <1>2

\* Every finite set of numbers has a greatest element.
LEMMA GreatestInteger ==
    ASSUME NEW S \in SUBSET Int, IsFiniteSet(S), S # {}
    PROVE  \E x \in S : \A y \in S : x >= y
<1>1. PICK n \in Nat : ExistsSurjection(1..n, S)
  BY FS_NatSurjection
<1>2. PICK f \in [1..n -> Int] : S = {f[i] : i \in 1..n}
  <2>1. PICK f \in [1..n -> S] : \A y \in S : \E i \in 1..n : f[i] = y
    BY <1>1 DEF ExistsSurjection, Surjection
  <2>2. f \in [1..n -> Int] /\ S = {f[i] : i \in 1..n}
    BY <2>1
  <2> QED BY <2>2
<1>3. n >= 1
  BY <1>2
<1> DEFINE Has(k) == \E m \in 1..k : \A i \in 1..k : f[m] >= f[i]
           T == {k \in 1..n : ~Has(k)}
<1>4. Has(n)
  <2>1. SUFFICES ASSUME ~Has(n) PROVE FALSE
    OBVIOUS
  <2>2. T \in SUBSET Nat /\ T # {}
    <3> HIDE DEF Has
    <3> QED BY <1>3, <2>1
  <2>3. PICK k \in T : \A j \in T : k <= j
    <3> HIDE DEF T
    <3> QED BY <2>2, LeastNatural
  <2>4. k \in 1..n /\ ~Has(k)
    BY <2>3
  <2>5. k # 1
    BY <1>2, <2>4
  <2>6. k - 1 \in 1..n
    BY <2>4, <2>5
  <2>7. Has(k - 1)
    <3> HIDE DEF Has
    <3> QED BY <2>3, <2>6
  <2>8. PICK m \in 1..(k - 1) : \A i \in 1..(k - 1) : f[m] >= f[i]
    BY <2>7
  <2>9. \A i \in 1..k : f[i] \in Int /\ (i = k \/ i \in 1..(k - 1))
    BY <1>2, <2>4
  <2>10. CASE f[m] >= f[k]
    BY <2>4, <2>8, <2>9, <2>10
  <2>11. CASE ~ (f[m] >= f[k])
    <3>1. \A i \in 1..k : f[k] >= f[i]
      BY <2>4, <2>8, <2>9, <2>11
    <3>2. k \in 1..k
      BY <2>4
    <3> QED BY <2>4, <3>1, <3>2
  <2> QED BY <2>10, <2>11
<1>5. PICK m \in 1..n : \A i \in 1..n : f[m] >= f[i]
  BY <1>4
<1> QED BY <1>2, <1>5

=============================================================================
