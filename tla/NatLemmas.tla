----------------------------- MODULE NatLemmas -----------------------------
(***************************************************************************)
(* Facts about natural numbers that the proofs of several modules need.    *)
(* Every non-empty set of natural numbers has a least element, which is    *)
(* how the proofs below argue by induction.                                *)
(***************************************************************************)
EXTENDS Integers, WellFoundedInduction, TLAPS

\* The least-number principle, from the well-foundedness of < on Nat.
LEMMA LeastNat ==
    ASSUME NEW T, T \subseteq Nat, T # {}
    PROVE  \E x \in T : \A y \in T : x <= y
<1>1. PICK x \in T : \A y \in T : ~ (<<y, x>> \in OpToRel(<, Nat))
  BY NatLessThanWellFounded, WFMin, Zenon
<1>2. \A y \in T : ~ (y < x)
  BY <1>1 DEF OpToRel
<1> QED BY <1>2

\* A non-empty set of natural numbers with an upper bound has a greatest element.
LEMMA GreatestNat ==
    ASSUME NEW T, T \subseteq Nat, T # {}, NEW b \in Nat, \A x \in T : x <= b
    PROVE  \E x \in T : \A y \in T : y <= x
<1> DEFINE U == {i \in Nat : \E x \in T : i = b - x}
<1>1. U \subseteq Nat /\ U # {}
  <2>1. PICK x \in T : TRUE  OBVIOUS
  <2>2. b - x \in U  BY <2>1
  <2> QED BY <2>2
<1>2. PICK i \in U : \A j \in U : i <= j
  BY <1>1, LeastNat
<1>3. PICK x \in T : i = b - x
  BY <1>2
<1>4. ASSUME NEW y \in T PROVE y <= x
  <2>1. b - y \in U  OBVIOUS
  <2> QED BY <1>2, <1>3, <2>1
<1> QED BY <1>4

\* Induction up to n; the property is given by the set of the numbers that have it.
LEMMA NatInd ==
    ASSUME NEW n \in Nat, NEW T, 0 \in T, \A i \in 0..n : (i < n /\ i \in T) => i + 1 \in T
    PROVE  \A i \in 0..n : i \in T
<1> DEFINE D == {i \in 0..n : i \notin T}
<1>1. SUFFICES ASSUME D # {} PROVE FALSE  OBVIOUS
<1>2. D \subseteq Nat  OBVIOUS
<1>3. PICK x \in D : \A y \in D : x <= y  BY <1>1, <1>2, LeastNat
<1>4. x \in 0..n /\ x # 0 /\ x \notin T  BY <1>3
<1>5. x - 1 \in 0..n /\ x - 1 < n /\ (x - 1) + 1 = x /\ ~(x <= x - 1)  BY <1>4
<1>6. x - 1 \in T  BY <1>3, <1>5
<1> QED BY <1>4, <1>5, <1>6

\* A function on 0..n may be defined by what it is at 0 and how each value follows
\* from the one before.
Runs(n, p, G, f) == f[0] = p /\ \A i \in 1..n : f[i] = G[<<i, f[i-1]>>]

LEMMA RecExists ==
    ASSUME NEW n \in Nat, NEW V, NEW p \in V, NEW G \in [(1..n) \X V -> V]
    PROVE  \E f \in [0..n -> V] : Runs(n, p, G, f)
<1> DEFINE Part(k, f) == Runs(k, p, G, f)
           T == {k \in 0..n : \E f \in [0..k -> V] : Part(k, f)}
<1>1. 0 \in T
  <2> DEFINE f == [i \in 0..0 |-> p]
  <2>1. f \in [0..0 -> V] /\ Part(0, f)  BY DEF Runs
  <2> HIDE DEF f, Part
  <2> QED BY <2>1
<1>2. ASSUME NEW k \in 0..n, k < n, k \in T PROVE k + 1 \in T
  <2>1. PICK f \in [0..k -> V] : Part(k, f)  BY <1>2
  <2>2. k + 1 \in 1..n /\ k \in 0..k /\ k + 1 \in 0..n  BY <1>2
  <2>3. PICK v \in V : v = G[<<k + 1, f[k]>>]  BY <2>1, <2>2
  <2> DEFINE g == [i \in 0..(k + 1) |-> IF i = k + 1 THEN v ELSE f[i]]
  <2>4. g \in [0..(k + 1) -> V]
    <3>1. \A i \in 0..(k + 1) : i # k + 1 => i \in 0..k  BY <1>2
    <3> QED BY <2>1, <3>1
  <2>5. \A i \in 0..k : g[i] = f[i]  BY <1>2
  <2>6. g[k + 1] = v  BY <1>2
  <2>7. ASSUME NEW i \in 1..(k + 1) PROVE g[i] = G[<<i, g[i-1]>>]
    <3> HIDE DEF g
    <3>1. i - 1 \in 0..k  BY <1>2
    <3>2. g[i-1] = f[i-1]  BY <2>5, <3>1
    <3>3. CASE i = k + 1
      <4>1. i - 1 = k  BY <1>2, <3>3
      <4> QED BY <2>3, <2>6, <3>2, <3>3, <4>1
    <3>4. CASE i # k + 1
      <4>1. i \in 1..k /\ i \in 0..k  BY <1>2, <3>4
      <4> QED BY <2>1, <2>5, <3>2, <4>1 DEF Runs
    <3> QED BY <3>3, <3>4
  <2>8. g[0] = p  BY <1>2, <2>1, <2>5 DEF Runs
  <2>9. Part(k + 1, g)  BY <2>7, <2>8 DEF Runs
  <2> HIDE DEF g, Part
  <2> QED BY <2>2, <2>4, <2>9
<1>3. n \in T
  <2> HIDE DEF T
  <2>1. \A i \in 0..n : i \in T  BY <1>1, <1>2, NatInd
  <2> QED BY <2>1
<1> QED BY <1>3


\* Values that follow from one another stay in a set that is closed under the step.
LEMMA RunTyped ==
    ASSUME NEW n \in Nat, NEW V, NEW h, h[0] \in V,
           \A i \in 1..n : h[i-1] \in V => h[i] \in V
    PROVE  \A i \in 0..n : h[i] \in V
<1> DEFINE T == {i \in 0..n : h[i] \in V}
<1>1. 0 \in T  OBVIOUS
<1>2. ASSUME NEW i \in 0..n, i < n, i \in T PROVE i + 1 \in T
  <2>1. i + 1 \in 1..n /\ (i + 1) - 1 = i /\ i + 1 \in 0..n  BY <1>2
  <2> QED BY <1>2, <2>1
<1>3. \A i \in 0..n : i \in T
  <2> HIDE DEF T
  <2> QED BY <1>1, <1>2, NatInd
<1> QED BY <1>3

=============================================================================
