------------------------------ MODULE SumLemmas ------------------------------
(***************************************************************************)
(* Lemmas on sums over sequences, which FoldLeft defines by recursion over *)
(* the sequence's indices.  Induction is by the least element of the set   *)
(* of numbers that have no property, and so needs no operator parameter.   *)
(***************************************************************************)
EXTENDS Integers, SequencesExt, TLAPS, WellFoundedInduction

SumOf(s) == FoldLeft(LAMBDA sum, n : sum + n, 0, s)

\* The greatest element of a set, as Max of FiniteSetsExt defines it.
Top(S) == CHOOSE x \in S : \A y \in S : x >= y

\* The recursion of MapThenFoldSet for SumOf: g[t] adds up s at the indices in t.
Folded(s, g, t) == IF t = {} THEN 0 ELSE g[t \ {Top(t)}] + s[Top(t)]

IsFold(s, k, g) == g = [t \in SUBSET (1..k) |-> Folded(s, g, t)]

LEMMA LeastNat ==
    ASSUME NEW S \in SUBSET Nat, S # {}
    PROVE  \E n \in S : \A m \in S : n <= m
<1> DEFINE less == OpToRel(<, Nat)
<1>1. PICK n \in S : \A m \in S : ~(<<m, n>> \in less)
  <2> HIDE DEF less
  <2> QED
    BY NatLessThanWellFounded, WFMin DEF less
<1>2. \A m \in S : ~(m < n)
  <2> SUFFICES ASSUME NEW m \in S, m < n PROVE FALSE
    OBVIOUS
  <2>1. <<m, n>> \in less
    BY DEF OpToRel
  <2> QED
    BY <1>1, <2>1
<1> HIDE DEF less
<1> QED
  BY <1>2

\* Induction over the naturals, for a set instead of a predicate.
LEMMA NatSetInduction ==
    ASSUME NEW S, 0 \in S, \A n \in Nat : n \in S => n + 1 \in S
    PROVE  Nat \subseteq S
<1> SUFFICES ASSUME ~(Nat \subseteq S) PROVE FALSE
  OBVIOUS
<1>1. Nat \ S # {} /\ Nat \ S \in SUBSET Nat
  OBVIOUS
<1>2. PICK n \in Nat \ S : \A m \in Nat \ S : n <= m
  BY <1>1, LeastNat
<1>3. n - 1 \in Nat /\ n - 1 \in S
  BY <1>2
<1> QED
  BY <1>3

\* FoldLeft, with its local definitions written out.
LEMMA SumIsFold ==
    ASSUME NEW s \in Seq(Nat)
    PROVE  SumOf(s) = (CHOOSE g : IsFold(s, Len(s), g))[1..Len(s)]
<1>1. DOMAIN s = 1..Len(s)
  OBVIOUS
<1> QED
  BY <1>1, Zenon DEF SumOf, FoldLeft, MapThenFoldSet, Max, IsFold, Folded, Top

\* A finite stretch of the naturals has a greatest element in every part of it.
LEMMA TopOf ==
    ASSUME NEW k \in Nat, NEW t \in SUBSET (1..k)
    PROVE  /\ t # {} => Top(t) \in t
           /\ k \in t => Top(t) = k
<1>1. ASSUME t # {} PROVE \E x \in t : \A y \in t : x >= y
  <2> DEFINE bounds == {b \in Nat : \A y \in t : y <= b}
  <2>1. k \in bounds
    OBVIOUS
  <2>2. PICK b \in bounds : \A a \in bounds : b <= a
    BY <2>1, LeastNat
  <2>3. b \in t
    <3>1. SUFFICES ASSUME b \notin t PROVE FALSE
      OBVIOUS
    <3>2. PICK y \in t : TRUE
      BY <1>1
    <3>3. b - 1 \in bounds
      <4>1. y \in 1..k /\ y <= b /\ b \in Nat
        BY <2>2, <3>2
      <4>2. \A z \in t : z \in 1..k /\ z <= b /\ z # b
        BY <2>2, <3>1
      <4> QED
        BY <4>1, <4>2
    <3> QED
      BY <2>2, <3>3
  <2> QED
    BY <2>2, <2>3
<1>2. t # {} => Top(t) \in t /\ \A y \in t : Top(t) >= y
  BY <1>1 DEF Top
<1>3. ASSUME k \in t PROVE Top(t) = k
  <2>1. Top(t) \in 1..k /\ Top(t) >= k
    BY <1>2, <1>3
  <2> QED
    BY <2>1
<1> QED
  BY <1>2, <1>3

\* The recursion has a solution on every finite stretch.
LEMMA FoldExists ==
    ASSUME NEW s
    PROVE  \A k \in Nat : \E g : IsFold(s, k, g)
<1> DEFINE good == {k \in Nat : \E g : IsFold(s, k, g)}
<1>1. 0 \in good
  <2> DEFINE g == [t \in SUBSET (1..0) |-> 0]
  <2>1. 1..0 = {}
    OBVIOUS
  <2>2. IsFold(s, 0, g)
    BY <2>1 DEF IsFold, Folded
  <2> QED
    BY <2>2
<1>2. ASSUME NEW k \in Nat, k \in good PROVE k + 1 \in good
  <2>1. PICK g : IsFold(s, k, g)
    BY <1>2
  <2> DEFINE h == [t \in SUBSET (1..k+1) |->
                     IF k + 1 \in t THEN g[t \ {k + 1}] + s[k + 1] ELSE g[t]]
  <2>2. ASSUME NEW t \in SUBSET (1..k+1) PROVE h[t] = Folded(s, h, t)
    <3>1. CASE k + 1 \in t
      <4>1. Top(t) = k + 1
        BY <3>1, TopOf
      <4>2. t \ {k + 1} \in SUBSET (1..k+1) /\ k + 1 \notin t \ {k + 1}
        OBVIOUS
      <4>3. h[t \ {k + 1}] = g[t \ {k + 1}] /\ h[t] = g[t \ {k + 1}] + s[k + 1]
        BY <3>1, <4>2
      <4> HIDE DEF h
      <4> QED
        BY <3>1, <4>1, <4>3 DEF Folded
    <3>2. CASE k + 1 \notin t
      <4>1. t \in SUBSET (1..k)
        BY <3>2
      <4>2. g[t] = Folded(s, g, t)
        BY <2>1, <4>1 DEF IsFold
      <4>3. /\ t \ {Top(t)} \in SUBSET (1..k+1) /\ k + 1 \notin t \ {Top(t)}
            /\ h[t \ {Top(t)}] = g[t \ {Top(t)}] /\ h[t] = g[t]
        BY <3>2
      <4> HIDE DEF h
      <4> QED
        BY <4>2, <4>3 DEF Folded
    <3> QED
      BY <3>1, <3>2
  <2>3. IsFold(s, k + 1, h)
    <3> DEFINE D == SUBSET (1..k+1)
    <3>1. h = [t \in D |-> h[t]]
      OBVIOUS
    <3> HIDE DEF h
    <3>2. \A t \in D : h[t] = Folded(s, h, t)
      BY <2>2
    <3>3. h = [t \in D |-> Folded(s, h, t)]
      BY <3>1, <3>2
    <3> QED
      BY <3>3 DEF IsFold
  <2> QED
    BY <2>3
<1> QED
  BY <1>1, <1>2, NatSetInduction

\* The sum of a sequence is its last partial sum.
LEMMA PartialSums ==
    ASSUME NEW s \in Seq(Nat)
    PROVE  \E f \in [0..Len(s) -> Nat] :
             /\ f[0] = 0
             /\ \A k \in 1..Len(s) : f[k] = f[k - 1] + s[k]
             /\ f[Len(s)] = SumOf(s)
<1> DEFINE n == Len(s)
           g == CHOOSE g : IsFold(s, n, g)
           f == [k \in 0..n |-> g[1..k]]
<1>1. n \in Nat
  OBVIOUS
<1>2. IsFold(s, n, g)
  BY <1>1, FoldExists
<1>3. g[1..n] = SumOf(s)
  BY SumIsFold
<1> HIDE DEF g, n
<1>4. \A t \in SUBSET (1..n) : g[t] = Folded(s, g, t)
  BY <1>2 DEF IsFold
<1>5. g[1..0] = 0
  <2>1. 1..0 = {} /\ {} \in SUBSET (1..n)
    OBVIOUS
  <2> QED
    BY <1>4, <2>1 DEF Folded
<1>6. ASSUME NEW k \in 1..n PROVE g[1..k] = g[1..(k - 1)] + s[k]
  <2>1. k \in Nat /\ k \in 1..k /\ 1..k \in SUBSET (1..n) /\ 1..k \in SUBSET (1..k)
    BY <1>1
  <2>2. Top(1..k) = k
    BY <2>1, TopOf
  <2>3. (1..k) \ {k} = 1..(k - 1) /\ 1..k # {}
    BY <2>1
  <2> QED
    BY <1>4, <2>1, <2>2, <2>3 DEF Folded
<1>7. f[0] = 0 /\ f[n] = SumOf(s) /\ \A k \in 1..n : f[k] = f[k - 1] + s[k]
  <2>1. \A k \in 1..n : k \in 0..n /\ k - 1 \in 0..n
    BY <1>1
  <2> QED
    BY <1>1, <1>3, <1>5, <1>6, <2>1
<1>8. \A k \in 0..n : f[k] \in Nat
  <2> HIDE DEF f
  <2> DEFINE nats == {k \in Nat : k <= n => f[k] \in Nat}
  <2>1. 0 \in nats
    BY <1>7
  <2>2. ASSUME NEW k \in Nat, k \in nats PROVE k + 1 \in nats
    <3>1. SUFFICES ASSUME k + 1 <= n PROVE f[k + 1] \in Nat
      OBVIOUS
    <3>2. k + 1 \in 1..n /\ k <= n /\ (k + 1) - 1 = k
      BY <1>1, <3>1
    <3>3. f[k + 1] = f[k] + s[k + 1]
      BY <1>7, <3>2
    <3>4. s[k + 1] \in Nat /\ f[k] \in Nat
      BY <2>2, <3>2 DEF n
    <3> QED
      BY <3>3, <3>4
  <2>3. Nat \subseteq nats
    <3> HIDE DEF nats
    <3> QED
      BY <2>1, <2>2, NatSetInduction
  <2> QED
    BY <1>1, <2>3
<1>9. f \in [0..n -> Nat]
  BY <1>8
<1> HIDE DEF f
<1> QED
  BY <1>7, <1>9 DEF n
=============================================================================
