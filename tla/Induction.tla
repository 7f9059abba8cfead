------------------------------ MODULE Induction ------------------------------
(***************************************************************************)
(* Induction without an operator as a parameter: a set of naturals has a   *)
(* least element, and what a recursive function defines exists.  A proof   *)
(* by induction takes the least number at which a function leaves a set.   *)
(***************************************************************************)
EXTENDS Integers, Sequences, FiniteSetTheorems, SequenceTheorems, TLAPS

\* Every nonempty set of naturals has a least element: induction without a parameter.
LEMMA Least == \A T \in SUBSET Nat : T # {} => \E n \in T : \A m \in T : n <= m
<1> SUFFICES ASSUME NEW T \in SUBSET Nat, T # {} PROVE \E n \in T : \A m \in T : n <= m
  OBVIOUS
<1> DEFINE U == {1 .. n : n \in T}
<1>1. U # {} /\ U \subseteq FiniteSubsetsOf(Nat)
  <2>1. \A n \in T : IsFiniteSet(1 .. n)
    BY FS_Interval
  <2>2. \A n \in T : 1 .. n \in SUBSET Nat
    OBVIOUS
  <2> QED BY <2>1, <2>2 DEF FiniteSubsetsOf
<1>2. PICK s \in U : \A t \in U : ~ (<<t, s>> \in StrictSubsetOrdering(Nat))
  BY <1>1, WFMin, FS_StrictSubsetOrderingWellFounded
<1>3. PICK n \in T : s = 1 .. n
  OBVIOUS
<1>4. ASSUME NEW m \in T, m < n PROVE FALSE
  <2>1. <<1 .. m, 1 .. n>> \in StrictSubsetOrdering(Nat)
    <3>1. 1 .. m \in SUBSET Nat /\ 1 .. n \in SUBSET Nat
      OBVIOUS
    <3>2. (1 .. m) \subseteq (1 .. n)
      BY <1>4
    <3>3. n \in 1 .. n /\ n \notin 1 .. m
      BY <1>4
    <3> QED BY <3>1, <3>2, <3>3 DEF StrictSubsetOrdering
  <2> QED BY <1>2, <1>3, <2>1
<1> QED BY <1>4

\* The function R takes each element of S and of s to an element of S; f is the
\* run of R over s from a.
Stays(R, s, S, N) == \A m \in S, i \in 1 .. N : R[<<m, s[i]>>] \in S
Runs(R, s, a, N, f) == f[0] = a /\ \A i \in 1 .. N : f[i] = R[<<f[i-1], s[i]>>]

\* The run exists.
LEMMA Run ==
    ASSUME NEW R, NEW s, NEW S, NEW a \in S, NEW N \in Nat, Stays(R, s, S, N)
    PROVE  \E f \in [0 .. N -> S] : Runs(R, s, a, N, f)
<1> USE DEF Stays, Runs
<1> DEFINE T == {n \in 0 .. N : ~ \E f \in [0 .. n -> S] : f[0] = a /\ \A i \in 1 .. n : f[i] = R[<<f[i-1], s[i]>>]}
<1>1. CASE T = {}
  BY <1>1
<1>2. CASE T # {}
  <2>1. PICK n \in T : \A m \in T : n <= m
    <3>1. T \in SUBSET Nat
      OBVIOUS
    <3> HIDE DEF T
    <3> QED BY <3>1, <1>2, Least
  <2>2. n \in 0 .. N /\ ~ \E f \in [0 .. n -> S] : f[0] = a /\ \A i \in 1 .. n : f[i] = R[<<f[i-1], s[i]>>]
    BY <2>1
  <2>3. n # 0
    <3> SUFFICES ASSUME n = 0 PROVE FALSE
      OBVIOUS
    <3> DEFINE g == [i \in 0 .. 0 |-> a]
    <3>1. g \in [0 .. n -> S] /\ g[0] = a /\ \A i \in 1 .. n : g[i] = R[<<g[i-1], s[i]>>]
      OBVIOUS
    <3> QED BY <2>2, <3>1
  <2>4. n - 1 \in 0 .. N /\ n - 1 \notin T
    BY <2>1, <2>2, <2>3
  <2>5. PICK f \in [0 .. n - 1 -> S] : f[0] = a /\ \A i \in 1 .. n - 1 : f[i] = R[<<f[i-1], s[i]>>]
    BY <2>4
  <2> DEFINE g == [i \in 0 .. n |-> IF i < n THEN f[i] ELSE R[<<f[n-1], s[n]>>]]
  <2>6. f[n - 1] \in S /\ R[<<f[n-1], s[n]>>] \in S
    BY <2>2, <2>3, <2>5
  <2>7. g \in [0 .. n -> S]
    BY <2>2, <2>3, <2>5, <2>6
  <2>8. g[0] = a
    BY <2>2, <2>3, <2>5
  <2>9. ASSUME NEW i \in 1 .. n PROVE g[i] = R[<<g[i-1], s[i]>>]
    <3>1. CASE i < n
      <4>1. i - 1 < n /\ i - 1 \in 0 .. n /\ i \in 1 .. n - 1 /\ i \in 0 .. n
        BY <3>1, <2>2
      <4>2. g[i] = f[i] /\ g[i-1] = f[i-1]
        BY <4>1, <3>1
      <4> QED BY <2>5, <4>1, <4>2
    <3>2. CASE i = n
      <4>1. n - 1 \in 0 .. n /\ n - 1 < n /\ n \in 0 .. n /\ ~(n < n)
        BY <2>2, <2>3
      <4>2. g[n - 1] = f[n - 1] /\ g[n] = R[<<f[n-1], s[n]>>]
        BY <4>1
      <4> HIDE DEF g
      <4> QED  BY <3>2, <4>2
    <3> QED BY <3>1, <3>2, <2>2
  <2> QED BY <2>2, <2>7, <2>8, <2>9
<1> QED BY <1>1, <1>2
=============================================================================
