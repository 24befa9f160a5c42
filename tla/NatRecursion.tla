---------------------------- MODULE NatRecursion ----------------------------
(***************************************************************************)
(* Induction over the natural numbers up to a bound, and the existence of  *)
(* functions that are defined by recursion over them. The loops of the     *)
(* program are such functions; what they compute for inputs of any length  *)
(* is proved with the lemmas of this module. They rest on the least        *)
(* element that every non-empty set of natural numbers has.                *)
(***************************************************************************)
EXTENDS Naturals, TLAPS, WellFoundedInduction

\* A non-empty set of natural numbers has a least element.
LEMMA LeastNat ==
  ASSUME NEW T \in SUBSET Nat, T # {}
  PROVE  \E n \in T : \A m \in T : n <= m
<1> DEFINE R == OpToRel(<, Nat)
<1>1. IsWellFoundedOn(R, Nat)
  BY NatLessThanWellFounded
<1>2. PICK n \in T : \A m \in T : ~(<<m, n>> \in R)
  BY <1>1, WFMin
<1>3. \A m \in T : ~(m < n)
  BY <1>2 DEF OpToRel
<1>. QED  BY <1>3

\* A set that has 0 and with every k below n also k + 1 has all of 0 .. n.
LEMMA InductionTo ==
  ASSUME NEW n \in Nat, NEW S, 0 \in S,
         \A k \in 0 .. n : (k < n /\ k \in S) => k + 1 \in S
  PROVE  \A k \in 0 .. n : k \in S
<1> DEFINE T == {k \in 0 .. n : k \notin S}
<1>. SUFFICES ASSUME T # {} PROVE FALSE
  OBVIOUS
<1>1. PICK k \in T : \A m \in T : k <= m
  <2>1. T \in SUBSET Nat
    OBVIOUS
  <2>. HIDE DEF T
  <2>. QED  BY <2>1, LeastNat
<1>2. k \in 0 .. n /\ k \notin S /\ k # 0
  BY <1>1
<1>3. k - 1 \in 0 .. n /\ k - 1 < n /\ (k - 1) + 1 = k
  BY <1>2
<1>4. k - 1 \in S
  BY <1>1, <1>3
<1>. QED  BY <1>2, <1>3, <1>4

\* f starts with b in V and goes on by the functions G[1] .. G[n] on V.
Recurs(f, n, V, b, G) ==
  /\ f \in [0 .. n -> V]
  /\ f[0] = b
  /\ \A i \in 1 .. n : f[i] = G[i][f[i - 1]]

\* A function that is defined by recursion over 0 .. n exists.
LEMMA Recursion ==
  ASSUME NEW n \in Nat, NEW V, NEW b \in V, NEW G \in [1 .. n -> [V -> V]]
  PROVE  \E f : Recurs(f, n, V, b, G)
<1> DEFINE Upto(m) == \E f : Recurs(f, m, V, b, G)
           S == {m \in 0 .. n : Upto(m)}
<1>1. Upto(0)
  <2> DEFINE f == [i \in 0 .. 0 |-> b]
  <2>1. f \in [0 .. 0 -> V] /\ f[0] = b
    OBVIOUS
  <2>2. 1 .. 0 = {}
    OBVIOUS
  <2>. HIDE DEF f
  <2>. QED  BY <2>1, <2>2 DEF Recurs
<1>2. ASSUME NEW m \in 0 .. n, m < n, Upto(m)
      PROVE  Upto(m + 1)
  <2>0. PICK f : Recurs(f, m, V, b, G)
    BY <1>2
  <2>1. f \in [0 .. m -> V] /\ f[0] = b /\ \A i \in 1 .. m : f[i] = G[i][f[i - 1]]
    BY <2>0 DEF Recurs
  <2> DEFINE g == [i \in 0 .. m + 1 |-> IF i = m + 1 THEN G[m + 1][f[m]] ELSE f[i]]
  <2>2. G[m + 1][f[m]] \in V
    <3>1. f[m] \in V /\ m + 1 \in 1 .. n
      BY <1>2, <2>1
    <3>. QED  BY <3>1
  <2>3. g \in [0 .. m + 1 -> V] /\ g[0] = b
    BY <2>1, <2>2
  <2>4. \A i \in 1 .. m + 1 : g[i] = G[i][g[i - 1]]
    <3>. TAKE i \in 1 .. m + 1
    <3>1. i - 1 \in 0 .. m /\ g[i - 1] = f[i - 1]
      OBVIOUS
    <3>2. CASE i = m + 1
      <4>1. g[i] = G[m + 1][f[m]] /\ i - 1 = m
        BY <3>2
      <4>. HIDE DEF g
      <4>. QED  BY <3>1, <3>2, <4>1
    <3>3. CASE i # m + 1
      <4>1. i \in 1 .. m /\ g[i] = f[i]
        BY <3>3
      <4>. HIDE DEF g
      <4>. QED  BY <2>1, <3>1, <4>1
    <3>. QED  BY <3>2, <3>3
  <2>. HIDE DEF g
  <2>. QED  BY <2>3, <2>4 DEF Recurs
<1>3. 0 \in S /\ \A m \in 0 .. n : (m < n /\ m \in S) => m + 1 \in S
  <2>. HIDE DEF Upto
  <2>. QED  BY <1>1, <1>2
<1>4. n \in S
  <2>. HIDE DEF S
  <2>1. \A m \in 0 .. n : m \in S
    BY <1>3, InductionTo
  <2>. QED  BY <2>1
<1>. QED  BY <1>4
=============================================================================
