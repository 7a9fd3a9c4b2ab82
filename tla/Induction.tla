------------------------------ MODULE Induction ------------------------------
(***************************************************************************)
(* Induction and recursion over 0..n, stated of sets and functions.        *)
(***************************************************************************)
EXTENDS Integers, WellFoundedInduction, TLAPS

\* What holds of 0, and of i when it holds of i - 1, holds up to n.
LEMMA RangeInduction ==
  ASSUME NEW n \in Nat, NEW S, 0 \in S, \A i \in 1..n : i - 1 \in S => i \in S
  PROVE  0..n \subseteq S
<1> DEFINE bad == (0..n) \ S
<1> SUFFICES ASSUME bad # {}
             PROVE  FALSE
  OBVIOUS
<1>0. bad \subseteq Nat
  OBVIOUS
<1>1. PICK x \in bad : \A y \in bad : ~(<<y, x>> \in OpToRel(<, Nat))
  BY <1>0, WFMin, NatLessThanWellFounded
<1>2. x \in 1..n /\ x - 1 \in 0..n /\ x - 1 \in Nat /\ x \in Nat /\ x - 1 < x
  OBVIOUS
<1>3. \A y, z \in Nat : y < z => <<y, z>> \in OpToRel(<, Nat)
  BY Zenon DEF OpToRel
<1>4. x - 1 \notin bad
  BY <1>1, <1>2, <1>3, Zenon
<1> QED
  BY <1>2, <1>4

\* f starts with a, and G gives the next value from the one before it.
Unfolds(f, n, S, a, G) ==
  f \in [0..n -> S] /\ f[0] = a /\ \A i \in 1..n : f[i] = G[<<i, f[i - 1]>>]

\* A function may be defined from 0 upwards.
LEMMA RangeRecursion ==
  ASSUME NEW n \in Nat, NEW S, NEW a \in S, NEW G \in [(1..n) \X S -> S]
  PROVE  \E f : Unfolds(f, n, S, a, G)
<1> DEFINE Defines(f, k) == f[0] = a /\ \A i \in 1..k : f[i] = G[<<i, f[i - 1]>>]
           good == {k \in 0..n : \E f \in [0..k -> S] : Defines(f, k)}
<1>1. 0 \in good
  <2> DEFINE f == [i \in 0..0 |-> a]
  <2>1. f \in [0..0 -> S] /\ f[0] = a
    OBVIOUS
  <2>2. 1..0 = {}
    OBVIOUS
  <2> HIDE DEF f
  <2> QED
    BY <2>1, <2>2
<1>2. ASSUME NEW k \in 1..n, k - 1 \in good
      PROVE  k \in good
  <2>1. PICK f \in [0..(k - 1) -> S] : Defines(f, k - 1)
    BY <1>2
  <2> DEFINE g == [i \in 0..k |-> IF i = k THEN G[<<k, f[k - 1]>>] ELSE f[i]]
  <2>2. f[k - 1] \in S /\ \A i \in 0..k : i = k \/ i \in 0..(k - 1)
    OBVIOUS
  <2>3. G[<<k, f[k - 1]>>] \in S
    BY <2>2
  <2>4. g \in [0..k -> S]
    BY <2>2, <2>3
  <2>5. g[0] = a
    BY <2>1
  <2>6. ASSUME NEW i \in 1..k
        PROVE  g[i] = G[<<i, g[i - 1]>>]
    <3>1. g[i - 1] = f[i - 1] /\ i - 1 \in 0..k
      OBVIOUS
    <3>2. CASE i = k
      BY <3>1, <3>2, SMTT(60)
    <3>3. CASE i # k
      <4>1. i \in 1..(k - 1) /\ g[i] = f[i]
        BY <3>3
      <4> QED
        BY <2>1, <3>1, <4>1
    <3> QED
      BY <3>2, <3>3
  <2> HIDE DEF g
  <2> QED
    BY <2>4, <2>5, <2>6
<1>3. 0..n \subseteq good
  <2> HIDE DEF good
  <2> QED
    BY <1>1, <1>2, RangeInduction
<1>4. n \in good
  BY <1>3
<1> QED
  BY <1>4 DEF Unfolds
=============================================================================
