----------------------------- MODULE OrderLemmas -----------------------------
(* Facts about least and greatest naturals, about prefixes of sequences and  *)
(* about functions built step by step, on which the components' proofs rest. *)
EXTENDS Naturals, Sequences, SequenceTheorems, WellFoundedInduction, TLAPS

\* Every non-empty set of naturals has a least element.
LEMMA LeastElement ==
  ASSUME NEW T, T \subseteq Nat, T # {}
  PROVE  \E m \in T : \A k \in T : m <= k
<1>1. PICK m \in T : \A k \in T : ~ (<<k, m>> \in OpToRel(<, Nat))
  BY WFMin, NatLessThanWellFounded
<1>2. \A k \in T : ~ (k < m)
  BY <1>1 DEF OpToRel
<1>3. QED
  BY <1>2

\* Every non-empty set of naturals that has a bound has a greatest element.
LEMMA GreatestElement ==
  ASSUME NEW n \in Nat, NEW T, T \subseteq 0 .. n, T # {}
  PROVE  \E m \in T : \A k \in T : k <= m
<1> DEFINE U == {n - k : k \in T}
<1>1. U \subseteq Nat /\ U # {}
  <2>1. PICK k \in T : TRUE
    OBVIOUS
  <2>2. n - k \in U
    BY <2>1
  <2>3. \A v \in U : v \in Nat
    OBVIOUS
  <2>4. QED
    BY <2>2, <2>3
<1>2. PICK u \in U : \A v \in U : u <= v
  BY <1>1, LeastElement, Zenon
<1>3. PICK m \in T : u = n - m
  OBVIOUS
<1>4. ASSUME NEW k \in T
      PROVE  k <= m
  <2>1. u <= n - k
    BY <1>2
  <2>2. QED
    BY <2>1, <1>3
<1>5. QED
  BY <1>4

\* The first n elements of a sequence.
LEMMA PrefixOfSeq ==
  ASSUME NEW S, NEW s \in Seq(S), NEW n \in 0 .. Len(s)
  PROVE  /\ SubSeq(s, 1, n) \in Seq(S)
         /\ Len(SubSeq(s, 1, n)) = n
         /\ \A i \in 1 .. n : SubSeq(s, 1, n)[i] = s[i]
<1>1. \A i \in 1 .. n : s[i] \in S
  OBVIOUS
<1>2. QED
  BY <1>1, SubSeqProperties, n - 1 + 1 = n

\* What holds of zero and passes from each number to the next one holds up to n.
LEMMA Climb ==
  ASSUME NEW n \in Nat, NEW P, 0 \in P,
         \A k \in 1 .. n : k - 1 \in P => k \in P
  PROVE  0 .. n \subseteq P
<1> DEFINE T == {k \in 0 .. n : k \notin P}
<1>1. SUFFICES ASSUME T # {} PROVE FALSE
  OBVIOUS
<1>2. PICK m \in T : \A k \in T : m <= k
  <2>1. T \subseteq Nat
    OBVIOUS
  <2> HIDE DEF T
  <2>2. QED
    BY <1>1, <2>1, LeastElement
<1>3. m \in 1 .. n /\ m - 1 \in 0 .. n /\ ~ (m <= m - 1)
  BY <1>2
<1>4. m - 1 \in P
  BY <1>2, <1>3
<1>5. QED
  BY <1>2, <1>3, <1>4

\* The steps F[1], F[2], ... from a: step k takes a member of X[k - 1] to one of X[k].
Steps(g, n, a, X, F) ==
  /\ g = [k \in 0 .. n |-> g[k]] /\ g[0] = a
  /\ \A k \in 0 .. n : g[k] \in X[k]
  /\ \A k \in 1 .. n : g[k] = F[k][g[k - 1]]

LEMMA StepsExist ==
  ASSUME NEW n \in Nat, NEW a, NEW X, NEW F, a \in X[0],
         \A k \in 1 .. n : F[k] \in [X[k - 1] -> X[k]]
  PROVE  \E g : Steps(g, n, a, X, F)
<1> DEFINE P == {m \in 0 .. n : \E g : Steps(g, m, a, X, F)}
<1>1. 0 \in P
  <2> DEFINE g == [k \in 0 .. 0 |-> a]
  <2>1. Steps(g, 0, a, X, F)
    BY DEF Steps
  <2>2. QED
    BY <2>1
<1>2. ASSUME NEW m \in 1 .. n, m - 1 \in P
      PROVE  m \in P
  <2>1. PICK g : Steps(g, m - 1, a, X, F)
    BY <1>2
  <2> DEFINE h == [k \in 0 .. m |-> IF k = m THEN F[m][g[m - 1]] ELSE g[k]]
  <2>2. m \in Nat /\ m # 0 /\ m - 1 \in 0 .. m - 1
    OBVIOUS
  <2>3. h[0] = a /\ a = g[0]
    BY <2>1, <2>2 DEF Steps
  <2>4. g[m - 1] \in X[m - 1] /\ F[m] \in [X[m - 1] -> X[m]]
    BY <2>1, <2>2 DEF Steps
  <2>5. h[m] \in X[m] /\ h[m] = F[m][g[m - 1]]
    BY <2>2, <2>4
  <2>6. \A k \in 0 .. m - 1 : k \in 0 .. m /\ k # m /\ h[k] = g[k]
    BY <2>2
  <2>7. h = [k \in 0 .. m |-> h[k]]
    OBVIOUS
  <2> HIDE DEF h
  <2>8. \A k \in 0 .. m : h[k] \in X[k]
    <3>1. ASSUME NEW k \in 0 .. m PROVE h[k] \in X[k]
      <4>1. k = m \/ k \in 0 .. m - 1
        BY <2>2
      <4>2. QED
        BY <2>1, <2>5, <2>6, <4>1 DEF Steps
    <3>2. QED
      BY <3>1
  <2>9. ASSUME NEW k \in 1 .. m PROVE h[k] = F[k][h[k - 1]]
    <3>1. k - 1 \in 0 .. m - 1 /\ h[k - 1] = g[k - 1]
      BY <2>2, <2>6
    <3>2. CASE k = m
      BY <2>5, <3>1, <3>2
    <3>3. CASE k # m
      <4>1. k \in 1 .. m - 1 /\ k \in 0 .. m - 1
        BY <2>2, <3>3
      <4>2. h[k] = g[k] /\ g[k] = F[k][g[k - 1]]
        BY <2>1, <2>6, <4>1 DEF Steps
      <4>3. QED
        BY <3>1, <4>2
    <3>4. QED
      BY <3>2, <3>3
  <2>10. Steps(h, m, a, X, F)
    BY <2>3, <2>7, <2>8, <2>9 DEF Steps
  <2>11. QED
    BY <2>10
<1> HIDE DEF P
<1>3. n \in P
  BY <1>1, <1>2, Climb
<1>4. QED
  BY <1>3 DEF P

=============================================================================
